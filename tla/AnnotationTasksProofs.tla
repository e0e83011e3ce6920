----------------------- MODULE AnnotationTasksProofs -----------------------
(***************************************************************************)
(* Theorems about AnnotationTasks, for every job, number of threads and    *)
(* set of task ids: first those that hold whether requests overlap or not, *)
(* then those that need the requests of a job not to (~Interleave), what   *)
(* the tables say of each other and what finish_task opens, most of which  *)
(* are false when requests overlap.                                        *)
(***************************************************************************)
EXTENDS AnnotationTasks, FiniteSetTheorems, TLAPS

-----------------------------------------------------------------------------
(* The rows the distribution makes *)

\* The rows of file f an insert may bring.
FileTasks(f) == {n \in Task : n.file = f /\ n.status \in Status}

\* A row that distribution, post_task or finish_task makes is a task of its file.
LEMMA NewTaskType ==
    ASSUME NEW f \in File, NEW ps \in SUBSET Page, NEW u \in User,
           NEW vld \in BOOLEAN, NEW s \in Status
    PROVE  NewTask(f, ps, u, vld, s) \in FileTasks(f)
BY DEF NewTask, FileTasks, Task, Mark

\* The tasks one choice of users makes are tasks of the file.
LEMMA TasksForType ==
    ASSUME NEW f \in File, NEW ps \in SUBSET Page, NEW vld \in BOOLEAN,
           NEW s \in Status, NEW c \in [ps -> SUBSET User]
    PROVE  TasksFor(f, c, vld, s) \subseteq FileTasks(f)
<1>1. DOMAIN c = ps
  OBVIOUS
<1>2. SUFFICES ASSUME NEW u \in UNION {c[p] : p \in ps}
               PROVE  NewTask(f, {p \in ps : u \in c[p]}, u, vld, s) \in FileTasks(f)
  BY <1>1 DEF TasksFor
<1>3. u \in User
  OBVIOUS
<1> QED
  BY <1>3, NewTaskType

\* So are those of any distribution of the pages ...
LEMMA DistributionsType ==
    ASSUME NEW f \in File, NEW ps \in SUBSET Page, NEW vld \in BOOLEAN,
           NEW s \in Status, NEW e, DOMAIN e = ps, NEW k,
           NEW new \in Distributions(f, e, k, vld, s)
    PROVE  new \subseteq FileTasks(f)
<1>1. PICK c \in Shares(e, k) : new = TasksFor(f, c, vld, s)
  BY DEF Distributions
<1>2. c \in [ps -> SUBSET User]
  BY DEF Shares
<1> QED
  BY <1>1, <1>2, TasksForType

\* ... with the validation tasks that go with a batch ...
LEMMA WithValidationType ==
    ASSUME NEW f \in File, NEW ps \in SUBSET Page, NEW as, NEW vs,
           NEW batch \in SUBSET FileTasks(f),
           NEW new \in WithValidation(batch, f, ps, as, vs)
    PROVE  new \subseteq FileTasks(f)
<1> DEFINE e == [p \in ps |-> Reviewers(batch, p, as, vs)]
<1>1. PICK val \in Distributions(f, e, 1, TRUE, "pending") : new = batch \cup val
  BY DEF WithValidation
<1>2. val \subseteq FileTasks(f)
  <2>1. DOMAIN e = ps /\ "pending" \in Status
    BY DEF Status
  <2> HIDE DEF e
  <2> QED
    BY <1>1, <2>1, DistributionsType
<1> QED
  BY <1>1, <1>2

\* ... for a whole call of distribute ...
LEMMA DistributeType ==
    ASSUME NEW f \in File, NEW annotate \in SUBSET Page,
           NEW validate \in SUBSET Page, NEW as, NEW vs, NEW k,
           NEW new \in Distribute(f, annotate, validate, as, vs, k)
    PROVE  new \subseteq FileTasks(f)
<1> DEFINE e == [p \in annotate |-> as]
<1>1. PICK ann \in Distributions(f, e, k, FALSE, "pending") :
          new \in WithValidation(ann, f, validate, as, vs)
  BY DEF Distribute
<1>2. ann \subseteq FileTasks(f)
  <2>1. DOMAIN e = annotate /\ "pending" \in Status
    BY DEF Status
  <2> HIDE DEF e
  <2> QED
    BY <1>1, <2>1, DistributionsType
<1> QED
  BY <1>1, <1>2, WithValidationType

\* ... and for the files of a job together.
LEMMA BatchesType ==
    ASSUME NEW fs \in SUBSET File, NEW Options,
           \A f \in fs : \A new \in Options[f] : new \subseteq FileTasks(f),
           NEW batch \in Batches(fs, Options)
    PROVE  \A n \in batch : \E f \in fs : n \in FileTasks(f)
BY DEF Batches

\* finish_task makes follow-up tasks for the file of its task only.
LEMMA FollowUpsType ==
    ASSUME TypeOK, NEW w \in Worker, req[w].pc = "checked",
           NEW new \in FollowUps(req[w])
    PROVE  new \subseteq FileTasks(req[w].file)
<1> DEFINE r == req[w]
<1>1. r.file \in File /\ r.failed \in SUBSET Page /\ r.edited \in SUBSET Page
  BY DEF TypeOK, RequestOK
<1>2. PICK x \in Rework(r.task, r.file, r.failed),
           y \in Recheck(tasks[r.task].user, r.file, r.edited) : new = x \cup y
  BY DEF FollowUps
<1>3. x \subseteq FileTasks(r.file)
  <2>1. CASE x = {}
    BY <2>1
  <2>2. CASE x # {}
    <3>1. PICK e \in Reworkers(r.task, r.file, r.failed) :
              \E d \in Distributions(r.file, e, 1, FALSE, "ready") :
                  x \in WithValidation(d, r.file, r.failed, Annotator, Validator)
      BY <1>2, <2>2 DEF Rework
    <3>4. PICK ann \in Distributions(r.file, e, 1, FALSE, "ready") :
              x \in WithValidation(ann, r.file, r.failed, Annotator, Validator)
      BY <3>1
    <3>5. DOMAIN e = r.failed
      BY <3>1 DEF Reworkers
    <3>2. "ready" \in Status
      BY DEF Status
    <3>3. ann \subseteq FileTasks(r.file)
      BY <1>1, <3>2, <3>4, <3>5, DistributionsType
    <3> QED
      BY <1>1, <3>3, <3>4, WithValidationType
  <2> QED
    BY <2>1, <2>2
<1>4. y \subseteq FileTasks(r.file)
  <2>1. CASE y = {}
    BY <2>1
  <2>2. CASE y # {}
    <3>1. PICK e \in Checkers(tasks[r.task].user, r.edited) :
              y \in Distributions(r.file, e, 1, TRUE, "ready")
      BY <1>2, <2>2 DEF Recheck
    <3>3. DOMAIN e = r.edited
      BY <3>1 DEF Checkers
    <3>2. "ready" \in Status
      BY DEF Status
    <3> QED
      BY <1>1, <3>1, <3>2, <3>3, DistributionsType
  <2> QED
    BY <2>1, <2>2
<1> QED
  BY <1>2, <1>3, <1>4

\* A batch gets ids nobody has, and each id one task of the batch.
LEMMA NumberedRowsType ==
    ASSUME NEW new, Numberings(new) # {}
    PROVE  /\ DOMAIN NumberedRows(new) \subseteq Fresh
           /\ \A t \in DOMAIN NumberedRows(new) : NumberedRows(new)[t] \in new
<1> DEFINE m == CHOOSE m \in Numberings(new) : TRUE
<1>1. m \in [new -> Fresh]
  BY DEF Numberings
<1> HIDE DEF m
<1>2. NumberedRows(new) = [t \in {m[n] : n \in new} |-> CHOOSE n \in new : m[n] = t]
  BY DEF NumberedRows, m
<1> QED
  BY <1>1, <1>2

-----------------------------------------------------------------------------
(* Type correctness *)

Tables == [TaskId -> Task \cup {Absent}]

\* A row whose id was handed out is a task.
LEMMA LiveIsTask ==
    ASSUME NEW tt \in Tables, NEW t \in TaskId, tt[t].status # "absent"
    PROVE  tt[t] \in Task
BY DEF Tables, Absent

\* A row that was not deleted has one of the statuses of models.py.
LEMMA LiveStatus ==
    ASSUME TypeOK, NEW t \in Live
    PROVE  t \in TaskId /\ tasks[t] \in Task /\ tasks[t].status \in Status
<1>1. t \in TaskId /\ tasks[t].status \in Status
  BY DEF Live
<1>2. tasks \in Tables /\ tasks[t].status # "absent"
  BY <1>1 DEF TypeOK, Tables, Status
<1> QED
  BY <1>1, <1>2, LiveIsTask

\* The tasks table after an insert.
LEMMA WithType ==
    ASSUME TypeOK, NEW r, RowsOK(r)
    PROVE  With(r) \in Tables
BY DEF TypeOK, RowsOK, With, Tables

\* The pages of rows are pages.
LEMMA PagesOfType ==
    ASSUME NEW r, RowsOK(r), NEW f, NEW vld
    PROVE  PagesOf(r, f, vld) \in SUBSET Page
<1>1. \A t \in DOMAIN r : r[t].pages \in SUBSET Page
  BY DEF RowsOK, Task
<1> QED
  BY <1>1 DEF PagesOf

\* update_files keeps the type of a File row ...
LEMMA UpdateFileType ==
    ASSUME NEW row \in FileRow, NEW r, RowsOK(r), NEW f
    PROVE  UpdateFile(row, f, r) \in FileRow
<1>1. PagesOf(r, f, TRUE) \in SUBSET Page /\ PagesOf(r, f, FALSE) \in SUBSET Page
  BY PagesOfType
<1> QED
  BY <1>1 DEF UpdateFile, FileRow

\* ... and so does recalculate_file_pages.
LEMMA RecalculateFileType ==
    ASSUME NEW row \in FileRow, NEW tt \in Tables, NEW f
    PROVE  RecalculateFile(row, f, tt) \in FileRow
<1> DEFINE left == [t \in {s \in TaskId : tt[s].status \in Status} |-> tt[t]]
<1>1. RowsOK(left)
  <2>1. DOMAIN left \subseteq TaskId
    OBVIOUS
  <2>2. ASSUME NEW t \in DOMAIN left
        PROVE  left[t] \in Task
    <3>1. t \in TaskId /\ tt[t].status # "absent"
      BY DEF Status
    <3> QED
      BY <3>1, LiveIsTask
  <2> QED
    BY <2>1, <2>2 DEF RowsOK
<1>2. PagesOf(left, f, TRUE) \in SUBSET Page /\ PagesOf(left, f, FALSE) \in SUBSET Page
  BY <1>1, PagesOfType
<1> QED
  BY <1>2 DEF RecalculateFile, FileRow

\* update_user_overall_load stores pages of tasks.
LEMMA UpdateLoadType ==
    ASSUME TypeOK, NEW tt, NEW us
    PROVE  UpdateLoad(tt, us) \in [User -> Work]
BY DEF TypeOK, UpdateLoad, RemainingWork, Work

\* Numbered tasks are rows.
LEMMA NumberedRowsOK ==
    ASSUME NEW new, Numberings(new) # {}, new \subseteq Task
    PROVE  RowsOK(NumberedRows(new))
<1>1. Fresh \subseteq TaskId
  BY DEF Fresh
<1> QED
  BY <1>1, NumberedRowsType DEF RowsOK

\* create_tasks leaves the three tables it writes well typed.
LEMMA InsertTasksType ==
    ASSUME TypeOK, NEW r, RowsOK(r), InsertTasks(r)
    PROVE  /\ tasks' \in Tables
           /\ files' \in [File -> FileRow]
           /\ load' \in [User -> Work]
<1>1. tasks' \in Tables
  BY WithType DEF InsertTasks
<1>2. load' \in [User -> Work]
  BY UpdateLoadType DEF InsertTasks
<1>3. \A f \in File : UpdateFile(files[f], f, r) \in FileRow
  BY UpdateFileType DEF TypeOK
<1> QED
  BY <1>1, <1>2, <1>3 DEF InsertTasks

\* A step that leaves the requests as they are, or replaces one of them.
LEMMA RequestsUnchanged ==
    ASSUME TypeOK, req' = req
    PROVE  DOMAIN req' = Worker /\ \A w \in Worker : RequestOK(req'[w])
BY DEF TypeOK

\* The same when one request goes on.
LEMMA RequestReplaced ==
    ASSUME TypeOK, NEW w \in Worker, NEW r, RequestOK(r),
           req' = [req EXCEPT ![w] = r]
    PROVE  DOMAIN req' = Worker /\ \A x \in Worker : RequestOK(req'[x])
BY DEF TypeOK

\* The same when one request ends.
LEMMA RequestEnded ==
    ASSUME TypeOK, NEW w \in Worker, req' = [req EXCEPT ![w] = Idle]
    PROVE  DOMAIN req' = Worker /\ \A x \in Worker : RequestOK(req'[x])
<1>1. RequestOK(Idle)
  BY DEF RequestOK, Idle
<1> QED
  BY <1>1, RequestReplaced

\* The rows of a distribution are well typed.
LEMMA BatchRows ==
    ASSUME NEW fs \in SUBSET File, NEW Options,
           \A f \in fs : \A new \in Options[f] : new \subseteq FileTasks(f),
           NEW batch \in Batches(fs, Options), Numberings(batch) # {}
    PROVE  RowsOK(NumberedRows(batch))
<1>1. \A n \in batch : \E f \in fs : n \in FileTasks(f)
  BY BatchesType
<1>2. batch \subseteq Task
  BY <1>1 DEF FileTasks
<1> QED
  BY <1>2, NumberedRowsOK

\* post_job keeps the types.
LEMMA PostJobType ==
    ASSUME TypeOK, PostJob
    PROVE  TypeOK'
<1> DEFINE k == IF ValidationType = "extensive_coverage" THEN Coverage ELSE 1
           options == [f \in File |-> Distribute(f, Page, Page, Annotator, Validator, k)]
<1>1. PICK new \in {{}} \cup Batches(File, options) :
          Numberings(new) # {} /\ InsertTasks(NumberedRows(new))
  BY DEF PostJob
<1>2. RowsOK(NumberedRows(new))
  <2>1. CASE new = {}
    BY <1>1, <2>1, NumberedRowsOK
  <2>2. CASE new \in Batches(File, options)
    <3>1. \A f \in File : \A x \in options[f] : x \subseteq FileTasks(f)
      BY DistributeType
    <3> HIDE DEF options
    <3> QED
      BY <1>1, <2>2, <3>1, BatchRows
  <2> QED
    BY <1>1, <2>1, <2>2
<1>3. tasks' \in Tables /\ files' \in [File -> FileRow] /\ load' \in [User -> Work]
  BY <1>1, <1>2, InsertTasksType
<1>4. req' = req /\ job' = "pending" /\ reported' = reported /\ admin' = admin
  BY DEF PostJob
<1> QED
  BY <1>3, <1>4, RequestsUnchanged DEF TypeOK, Tables

\* A status change makes a task of a task.
LEMMA TaskEdit ==
    ASSUME NEW row \in Task, NEW s \in Status \cup {"deleted"}
    PROVE  [row EXCEPT !.status = s] \in Task
BY DEF Task

\* The update of start_job, and its call, keep the types.
LEMMA StartJobType ==
    ASSUME TypeOK, NEW w \in Worker, StartJob(w), admin' \in 0..MaxAdmin
    PROVE  TypeOK'
<1> DEFINE r == [pc |-> "starting", started |-> LeadingTasks]
<1>1. RequestOK(r)
  BY DEF RequestOK, Idle, LeadingTasks, Live
<1>2. req' = [req EXCEPT ![w] = r] /\ UNCHANGED <<tasks, files, load, job, reported>>
  BY DEF StartJob
<1> HIDE DEF r
<1>3. DOMAIN req' = Worker /\ \A x \in Worker : RequestOK(req'[x])
  BY <1>1, <1>2, RequestReplaced
<1> QED
  BY <1>2, <1>3 DEF TypeOK

\* So does what the jobs service answers.
LEMMA StartReportType ==
    ASSUME TypeOK, NEW w \in Worker, StartReport(w)
    PROVE  TypeOK'
<1> DEFINE r == [pc |-> "started", started |-> req[w].started]
<1>1. RequestOK(r)
  BY DEF StartReport, TypeOK, RequestOK, Idle
<1>2. /\ req' = [req EXCEPT ![w] = r] \/ req' = [req EXCEPT ![w] = Idle]
      /\ reported' \in {reported, "in_progress"}
      /\ UNCHANGED <<tasks, files, load, job, admin>>
  BY DEF StartReport
<1> HIDE DEF r
<1>3. DOMAIN req' = Worker /\ \A x \in Worker : RequestOK(req'[x])
  BY <1>1, <1>2, RequestReplaced, RequestEnded
<1> QED
  BY <1>2, <1>3 DEF TypeOK

\* The rows a commit of start_job leaves.
LEMMA StartedRows ==
    ASSUME TypeOK, NEW ts \in SUBSET Live, NEW t \in TaskId
    PROVE  /\ StartedTasks(ts)[t] = IF t \in ts THEN [tasks[t] EXCEPT !.status = "ready"]
                                     ELSE tasks[t]
           /\ t \in ts =>
                 /\ tasks[t] \in Task /\ StartedTasks(ts)[t] \in Task
                 /\ StartedTasks(ts)[t].status = "ready"
                 /\ StartedTasks(ts)[t].file = tasks[t].file
                 /\ StartedTasks(ts)[t].pages = tasks[t].pages
                 /\ StartedTasks(ts)[t].user = tasks[t].user
                 /\ StartedTasks(ts)[t].validation = tasks[t].validation
                 /\ StartedTasks(ts)[t].marks = tasks[t].marks
                 /\ StartedTasks(ts)[t].edited = tasks[t].edited
<1>1. StartedTasks(ts)[t] = IF t \in ts THEN [tasks[t] EXCEPT !.status = "ready"]
                            ELSE tasks[t]
  BY DEF StartedTasks
<1>2. ASSUME t \in ts
      PROVE  tasks[t] \in Task
  BY <1>2, LiveStatus
<1>3. ASSUME t \in ts
      PROVE  [tasks[t] EXCEPT !.status = "ready"] \in Task
  BY <1>2, <1>3, TaskEdit DEF Status
<1> QED
  BY <1>1, <1>2, <1>3 DEF Task

\* The commit of start_job keeps the types, if its tasks exist.
LEMMA StartCommitType ==
    ASSUME TypeOK, NEW w \in Worker, StartCommit(w), req[w].started \subseteq Live
    PROVE  TypeOK'
<1>1. tasks' = StartedTasks(req[w].started)
  BY DEF StartCommit
<1>2. ASSUME NEW t \in TaskId
      PROVE  StartedTasks(req[w].started)[t] \in Task \cup {Absent}
  <2>1. tasks[t] \in Task \cup {Absent}
    BY DEF TypeOK
  <2>2. CASE t \in req[w].started
    BY <2>2, StartedRows
  <2>3. CASE t \notin req[w].started
    BY <2>1, <2>3 DEF StartedTasks
  <2> QED
    BY <2>2, <2>3
<1>3. tasks' \in Tables
  BY <1>1, <1>2 DEF StartedTasks, Tables
<1>4. DOMAIN req' = Worker /\ \A x \in Worker : RequestOK(req'[x])
  BY RequestEnded DEF StartCommit
<1>5. job' = "in_progress" /\ UNCHANGED <<files, load, reported, admin>>
  BY DEF StartCommit
<1> QED
  BY <1>3, <1>4, <1>5 DEF TypeOK, Tables

\* get_next_annotation_task and post_annotation_by_user keep the types.
LEMMA WorkType ==
    ASSUME TypeOK,
           \/ \E u \in User : NextAnnotationTask(u)
           \/ \E t \in TaskId, ann, val, fail \in SUBSET Page :
                  SaveAnnotation(t, ann, val, fail)
    PROVE  TypeOK'
<1>1. /\ files' = files /\ load' = load /\ job' = job /\ reported' = reported
      /\ req' = req /\ admin' = admin
  BY DEF NextAnnotationTask, SaveAnnotation
<1>2. tasks' \in Tables
  <2>1. ASSUME NEW u \in User, NextAnnotationTask(u)
        PROVE  tasks' \in Tables
    <3>1. PICK t \in Live : tasks' = [tasks EXCEPT ![t].status = "in_progress"]
      BY <2>1 DEF NextAnnotationTask
    <3>2. [tasks[t] EXCEPT !.status = "in_progress"] \in Task
      BY LiveStatus, TaskEdit DEF Status
    <3> QED
      BY <3>1, <3>2 DEF TypeOK, Tables
  <2>2. ASSUME NEW t \in TaskId, NEW ann \in SUBSET Page, NEW val \in SUBSET Page,
               NEW fail \in SUBSET Page, SaveAnnotation(t, ann, val, fail)
        PROVE  tasks' \in Tables
    <3> DEFINE mark(p) == IF p \in ann THEN "annotated"
                          ELSE IF p \in val THEN "validated"
                          ELSE IF p \in fail THEN "failed" ELSE tasks[t].marks[p]
               marks == [p \in Page |-> mark(p)]
    <3>1. t \in Live /\ tasks[t] \in Task
      BY <2>2, LiveStatus DEF SaveAnnotation
    <3>2. marks \in [Page -> Mark]
      BY <3>1 DEF Task, Mark
    <3>3. tasks' = [tasks EXCEPT ![t].status = "in_progress", ![t].marks = marks,
                                 ![t].edited = @ \cup ann]
      BY <2>2 DEF SaveAnnotation
    <3> HIDE DEF marks
    <3>4. [tasks[t] EXCEPT !.status = "in_progress", !.marks = marks,
                           !.edited = @ \cup ann] \in Task
      BY <3>1, <3>2 DEF Task, Status
    <3>5. tasks' = [tasks EXCEPT ![t] = [tasks[t] EXCEPT
                       !.status = "in_progress", !.marks = marks, !.edited = @ \cup ann]]
      BY <3>1, <3>3 DEF TypeOK, Tables
    <3> QED
      BY <3>4, <3>5 DEF TypeOK, Tables
  <2> QED
    BY <2>1, <2>2
<1> QED
  BY <1>1, <1>2, RequestsUnchanged DEF TypeOK, Tables


(* finish_task *)

\* The first part of finish_task keeps the types.
LEMMA FinishCheckType ==
    ASSUME TypeOK, NEW w \in Worker, NEW t \in TaskId, FinishCheck(w, t)
    PROVE  TypeOK'
<1> DEFINE marked(m) == {p \in tasks[t].pages :
                            tasks[t].validation /\ tasks[t].marks[p] = m}
           r == [pc |-> "checked", task |-> t, file |-> tasks[t].file,
                 validated |-> marked("validated"), failed |-> marked("failed"),
                 edited |-> marked("annotated")]
<1>1. t \in Live /\ tasks[t] \in Task
  BY LiveStatus DEF FinishCheck
<1>2. tasks[t].file \in File /\ \A m \in Mark : marked(m) \in SUBSET Page
  BY <1>1 DEF Task
<1>3. RequestOK(r)
  BY <1>2 DEF RequestOK, Idle, Mark
<1>4. req' = [req EXCEPT ![w] = r]
  BY DEF FinishCheck
<1> HIDE DEF r
<1>5. DOMAIN req' = Worker /\ \A x \in Worker : RequestOK(req'[x])
  BY <1>3, <1>4, RequestReplaced
<1>6. UNCHANGED <<tasks, files, load, job, reported, admin>>
  BY DEF FinishCheck
<1> QED
  BY <1>5, <1>6 DEF TypeOK

\* A load is a set of pages of tasks.
LEMMA RemainingWorkType ==
    ASSUME NEW tt, NEW u
    PROVE  RemainingWork(tt, u) \in Work
BY DEF RemainingWork, Work

\* What a request inserts are rows of its own file, with fresh ids.
LEMMA CreatedType ==
    ASSUME TypeOK, NEW w \in Worker, req[w].pc = "checked",
           NEW new \in FollowUps(req[w]), Numberings(new) # {}
    PROVE  RowsOK(NumberedRows(new)) /\ UsersOf(NumberedRows(new)) \subseteq User
<1>1. RowsOK(NumberedRows(new))
  BY FollowUpsType, NumberedRowsOK DEF FileTasks
<1>2. \A t \in DOMAIN NumberedRows(new) : NumberedRows(new)[t].user \in User
  BY <1>1 DEF RowsOK, Task
<1> QED
  BY <1>1, <1>2 DEF UsersOf

\* The second part of finish_task keeps the types.
LEMMA FinishPrepareType ==
    ASSUME TypeOK, NEW w \in Worker, FinishPrepare(w)
    PROVE  TypeOK'
<1> DEFINE r == req[w]
           counted == {p \in Page : AnnotationsOf(r.task, r.file, p) = Coverage}
<1>0. r.pc = "checked" /\ r.task \in TaskId /\ r.file \in File
      /\ r.validated \in SUBSET Page
  BY DEF FinishPrepare, TypeOK, RequestOK
<1>1. PICK new \in FollowUps(r) :
          /\ Numberings(new) # {}
          /\ req' = [req EXCEPT ![w] =
               [pc |-> "counted", task |-> r.task, file |-> r.file,
                validated |-> r.validated, created |-> NumberedRows(new),
                finished_pages |-> counted,
                last |-> AllFinishedBut1(new),
                loads |-> [u \in UsersOf(NumberedRows(new)) |->
                               RemainingWork(With(NumberedRows(new)), u)]]]
  BY DEF FinishPrepare
<1> DEFINE created == NumberedRows(new)
           loads == [u \in UsersOf(created) |-> RemainingWork(With(created), u)]
<1>2. RowsOK(created) /\ UsersOf(created) \subseteq User
  BY <1>0, <1>1, CreatedType
<1> HIDE DEF created
<1>3. LoadsOK(loads)
  BY <1>2, RemainingWorkType DEF LoadsOK
<1>4. counted \in SUBSET Page
  OBVIOUS
<1>5. AllFinishedBut1(new) \in BOOLEAN
  BY DEF AllFinishedBut1
<1>6. req' = [req EXCEPT ![w] =
               [pc |-> "counted", task |-> r.task, file |-> r.file,
                validated |-> r.validated, created |-> created,
                finished_pages |-> counted,
                last |-> AllFinishedBut1(new), loads |-> loads]]
  BY <1>1 DEF created
<1> HIDE DEF loads, counted
<1>7. RequestOK([pc |-> "counted", task |-> r.task, file |-> r.file,
                validated |-> r.validated, created |-> created,
                finished_pages |-> counted,
                last |-> AllFinishedBut1(new), loads |-> loads])
  BY <1>0, <1>2, <1>3, <1>4, <1>5 DEF RequestOK, Idle
<1>8. DOMAIN req' = Worker /\ \A x \in Worker : RequestOK(req'[x])
  BY <1>6, <1>7, RequestReplaced
<1>9. UNCHANGED <<tasks, files, load, job, reported, admin>>
  BY DEF FinishPrepare
<1> QED
  BY <1>8, <1>9 DEF TypeOK

\* The File row finish_task writes is well typed.
LEMMA FinishedRowType ==
    ASSUME TypeOK, NEW r, r.file \in File, RowsOK(r.created),
           r.validated \in SUBSET Page, r.finished_pages \in SUBSET Page
    PROVE  FinishedRow(r) \in FileRow
<1> DEFINE row == UpdateFile(files[r.file], r.file, r.created)
<1>1. row \in FileRow
  BY UpdateFileType DEF TypeOK
<1> HIDE DEF row
<1>2. ApprovedPages(r) \in SUBSET Page
  BY DEF ApprovedPages
<1>3. row.validated_pages \cup ApprovedPages(r) \in SUBSET Page
  BY <1>1, <1>2 DEF FileRow
<1> QED
  BY <1>1, <1>3 DEF FinishedRow, FileRow, row

\* An unblocked task keeps what a request of another handler may not touch.
LEMMA UnblockedType ==
    ASSUME TypeOK, NEW s \in Live, NEW row \in Unblocked(s)
    PROVE  /\ row \in Task /\ row.status \in Status
           /\ row.file = tasks[s].file /\ row.pages = tasks[s].pages
           /\ row.validation = tasks[s].validation
<1>1. tasks[s] \in Task
  BY LiveStatus
<1> DEFINE marks == [p \in Page |-> IF p \in tasks[s].pages
                                    THEN "annotated" ELSE tasks[s].marks[p]]
<1>2. marks \in [Page -> Mark]
  BY <1>1 DEF Task, Mark
<1>3. row \in {[tasks[s] EXCEPT !.status = "ready"],
               [tasks[s] EXCEPT !.status = "in_progress", !.edited = tasks[s].pages,
                                !.marks = marks]}
  <2>1. [tasks[s] EXCEPT !.status = "in_progress", !.edited = tasks[s].pages,
            !.marks = [p \in Page |-> IF p \in tasks[s].pages
                                      THEN "annotated" ELSE @[p]]]
        = [tasks[s] EXCEPT !.status = "in_progress", !.edited = tasks[s].pages,
                           !.marks = marks]
    OBVIOUS
  <2> QED
    BY <2>1 DEF Unblocked
<1> HIDE DEF marks
<1> QED
  BY <1>1, <1>2, <1>3 DEF Task, Status

\* The call of finish_task keeps the types.
LEMMA FinishReportType ==
    ASSUME TypeOK, NEW w \in Worker, FinishReport(w)
    PROVE  TypeOK'
<1> DEFINE r == [pc |-> "reported", task |-> req[w].task, file |-> req[w].file,
                 validated |-> req[w].validated, created |-> req[w].created,
                 finished_pages |-> req[w].finished_pages, last |-> TRUE,
                 loads |-> req[w].loads]
<1>1. RequestOK(r)
  BY DEF FinishReport, TypeOK, RequestOK, Idle
<1>2. /\ req' = [req EXCEPT ![w] = r] /\ reported' = "finished"
      /\ UNCHANGED <<tasks, files, load, job, admin>>
  BY DEF FinishReport
<1> HIDE DEF r
<1>3. DOMAIN req' = Worker /\ \A x \in Worker : RequestOK(req'[x])
  BY <1>1, <1>2, RequestReplaced
<1> QED
  BY <1>2, <1>3 DEF TypeOK

\* The third part of finish_task keeps the types.
LEMMA FinishApplyType ==
    ASSUME TypeOK, NEW w \in Worker, FinishApply(w)
    PROVE  TypeOK'
<1> DEFINE r == req[w]
           u == tasks[r.task].user
           loads(unblocked) ==
               [x \in DOMAIN r.loads \cup {u} |->
                   IF x = u THEN RemainingWork(FinishedTable(r, unblocked), u)
                   ELSE r.loads[x]]
           after(unblocked) ==
               [pc |-> "applied", task |-> r.task, file |-> r.file,
                created |-> r.created, row |-> FinishedRow(r),
                unblocked |-> unblocked, last |-> r.last,
                loads |-> loads(unblocked)]
<1>1. /\ r.task \in Live /\ r.task \in TaskId /\ r.file \in File
      /\ r.validated \in SUBSET Page /\ r.finished_pages \in SUBSET Page
      /\ RowsOK(r.created) /\ r.last \in BOOLEAN /\ LoadsOK(r.loads)
  BY DEF FinishApply, ReadyToApply, TypeOK, RequestOK
<1>2. PICK unblocked \in [UnblockedTasks(r) ->
                              UNION {Unblocked(s) : s \in UnblockedTasks(r)}] :
          /\ \A s \in UnblockedTasks(r) : unblocked[s] \in Unblocked(s)
          /\ req' = [req EXCEPT ![w] = after(unblocked)]
  BY DEF FinishApply
<1>3. RowsOK(unblocked)
  <2>1. UnblockedTasks(r) \subseteq Live
    BY DEF UnblockedTasks, TasksOf
  <2> QED
    BY <1>2, <2>1, UnblockedType DEF RowsOK, Live
<1>4. LoadsOK(loads(unblocked))
  <2>1. u \in User
    BY <1>1, LiveStatus DEF Task
  <2> QED
    BY <1>1, <2>1, RemainingWorkType DEF LoadsOK
<1>5. FinishedRow(r) \in FileRow
  BY <1>1, FinishedRowType
<1> HIDE DEF loads
<1>6. RequestOK(after(unblocked))
  BY <1>1, <1>3, <1>4, <1>5 DEF RequestOK, Idle
<1> HIDE DEF after
<1>7. DOMAIN req' = Worker /\ \A x \in Worker : RequestOK(req'[x])
  BY <1>2, <1>6, RequestReplaced
<1>8. UNCHANGED <<tasks, files, load, job, reported, admin>>
  BY DEF FinishApply
<1> QED
  BY <1>7, <1>8 DEF TypeOK

\* The table a commit of finish_task leaves is well typed, if its task exists.
LEMMA FinishedTableType ==
    ASSUME TypeOK, NEW r, r.task \in TaskId, tasks[r.task].status # "absent",
           RowsOK(r.created), NEW unblocked, RowsOK(unblocked)
    PROVE  FinishedTable(r, unblocked) \in Tables
<1>1. [tasks[r.task] EXCEPT !.status = "finished"] \in Task
  <2>1. tasks[r.task] \in Task
    BY LiveIsTask DEF TypeOK, Tables
  <2> QED
    BY <2>1, TaskEdit DEF Status
<1> QED
  BY <1>1 DEF FinishedTable, RowsOK, TypeOK, Tables

\* The commit of finish_task keeps the types, if its task exists.
LEMMA FinishCommitType ==
    ASSUME TypeOK, NEW w \in Worker, FinishCommit(w),
           tasks[req[w].task].status # "absent"
    PROVE  TypeOK'
<1> DEFINE r == req[w]
<1>1. /\ r.pc = "applied" /\ r.task \in TaskId /\ r.file \in File
      /\ RowsOK(r.created) /\ RowsOK(r.unblocked) /\ LoadsOK(r.loads)
      /\ r.row \in FileRow
  BY DEF FinishCommit, TypeOK, RequestOK
<1>2. tasks' \in Tables
  BY <1>1, FinishedTableType DEF FinishCommit
<1>3. files' \in [File -> FileRow]
  BY <1>1 DEF FinishCommit, TypeOK
<1>4. load' \in [User -> Work]
  <2>1. PICK lost : load' = [x \in User |-> IF x \in DOMAIN r.loads \ lost
                                            THEN r.loads[x] ELSE load[x]]
    BY DEF FinishCommit
  <2> QED
    BY <1>1, <2>1 DEF TypeOK, LoadsOK
<1>5. DOMAIN req' = Worker /\ \A x \in Worker : RequestOK(req'[x])
  BY RequestEnded DEF FinishCommit
<1>6. /\ job' \in {job, "finished"} /\ reported' = reported /\ admin' = admin
  BY DEF FinishCommit
<1> QED
  BY <1>2, <1>3, <1>4, <1>5, <1>6 DEF TypeOK, Tables

\* A rollback keeps the types.
LEMMA AbandonType ==
    ASSUME TypeOK, NEW w \in Worker, FinishFails(w) \/ Abandon(w)
    PROVE  TypeOK'
<1>1. /\ req' = [req EXCEPT ![w] = Idle]
      /\ reported' \in {reported, "finished"}
      /\ UNCHANGED <<tasks, files, load, job, admin>>
  BY DEF FinishFails, Abandon
<1>2. DOMAIN req' = Worker /\ \A x \in Worker : RequestOK(req'[x])
  BY <1>1, RequestEnded
<1> QED
  BY <1>1, <1>2 DEF TypeOK

(* The manager's operations *)

\* The manager's calls stay within their bound.
LEMMA ManageType ==
    ASSUME TypeOK, NEW op, Manage(op)
    PROVE  admin' \in 0..MaxAdmin
BY BoundAssumption DEF TypeOK, Manage

\* post_task keeps the types.
LEMMA PostTaskType ==
    ASSUME TypeOK, NEW f \in File, NEW ps \in SUBSET Page, NEW u \in User,
           NEW vld \in BOOLEAN, PostTask(f, ps, u, vld)
    PROVE  TypeOK'
<1> DEFINE new == {NewTask(f, ps, u, vld, "pending")}
<1>1. new \subseteq Task
  BY NewTaskType DEF FileTasks, Status
<1>2. Numberings(new) # {} /\ InsertTasks(NumberedRows(new))
  BY DEF PostTask
<1> HIDE DEF new
<1>3. tasks' \in Tables /\ files' \in [File -> FileRow] /\ load' \in [User -> Work]
  BY <1>1, <1>2, NumberedRowsOK, InsertTasksType
<1>4. admin' \in 0..MaxAdmin /\ UNCHANGED <<job, reported, req>>
  BY ManageType DEF PostTask
<1> QED
  BY <1>3, <1>4, RequestsUnchanged DEF TypeOK, Tables

\* post_tasks keeps the types.
LEMMA PostTasksType ==
    ASSUME TypeOK, NEW fs \in SUBSET File, NEW us \in SUBSET User,
           PostTasks(fs, us)
    PROVE  TypeOK'
<1> DEFINE options == [f \in fs |->
               Distribute(f, Page, Page, us \cap Annotator, us \cap Validator, 1)]
<1>1. PICK new \in Batches(fs, options) :
          Numberings(new) # {} /\ InsertTasks(NumberedRows(new))
  BY DEF PostTasks
<1>2. \A f \in fs : \A x \in options[f] : x \subseteq FileTasks(f)
  BY DistributeType
<1> HIDE DEF options
<1>3. RowsOK(NumberedRows(new))
  BY <1>1, <1>2, BatchRows
<1>4. tasks' \in Tables /\ files' \in [File -> FileRow] /\ load' \in [User -> Work]
  BY <1>1, <1>3, InsertTasksType
<1>5. admin' \in 0..MaxAdmin /\ UNCHANGED <<job, reported, req>>
  BY ManageType DEF PostTasks
<1> QED
  BY <1>4, <1>5, RequestsUnchanged DEF TypeOK, Tables

\* update_task keeps the types.
LEMMA UpdateTaskType ==
    ASSUME TypeOK, NEW t \in TaskId, NEW f \in File, NEW ps \in SUBSET Page,
           NEW u \in User, NEW vld \in BOOLEAN, UpdateTask(t, f, ps, u, vld)
    PROVE  TypeOK'
<1> DEFINE old == tasks[t]
           new == [old EXCEPT !.file = f, !.pages = ps, !.user = u, !.validation = vld]
           tt == [tasks EXCEPT ![t] = new]
           left == [files EXCEPT ![old.file] = RecalculateFile(files[old.file], old.file, tt)]
<1>1. old \in Task /\ new \in Task
  BY LiveStatus DEF UpdateTask, Task
<1>2. tt \in Tables
  BY <1>1 DEF TypeOK, Tables
<1>3. RowsOK([x \in {t} |-> new])
  BY <1>1 DEF RowsOK
<1> HIDE DEF new, tt
<1>4. left \in [File -> FileRow]
  BY <1>1, <1>2, RecalculateFileType DEF TypeOK, Task
<1>5. files' \in [File -> FileRow]
  <2>1. files' = IF f = old.file THEN left
                 ELSE [left EXCEPT ![f] = UpdateFile(left[f], f, [x \in {t} |-> new])]
    BY DEF UpdateTask, new, tt
  <2> HIDE DEF left
  <2>2. UpdateFile(left[f], f, [x \in {t} |-> new]) \in FileRow
    BY <1>3, <1>4, UpdateFileType
  <2> QED
    BY <1>4, <2>1, <2>2
<1>6. tasks' \in Tables
  BY <1>2 DEF UpdateTask, tt, new
<1>7. load' \in [User -> Work]
  BY UpdateLoadType DEF UpdateTask
<1>8. admin' \in 0..MaxAdmin /\ UNCHANGED <<job, reported, req>>
  BY ManageType DEF UpdateTask
<1> QED
  BY <1>5, <1>6, <1>7, <1>8, RequestsUnchanged DEF TypeOK, Tables

\* delete_task and delete_batch_tasks keep the types.
LEMMA DeleteTasksType ==
    ASSUME TypeOK, NEW ts \in SUBSET Live, DeleteTasks(ts), admin' \in 0..MaxAdmin
    PROVE  TypeOK'
<1> DEFINE tt == [t \in TaskId |-> IF t \in ts THEN [tasks[t] EXCEPT !.status = "deleted"]
                                   ELSE tasks[t]]
<1>1. tt \in Tables
  <2>1. ASSUME NEW t \in ts
        PROVE  [tasks[t] EXCEPT !.status = "deleted"] \in Task
    BY LiveStatus, TaskEdit
  <2> QED
    BY <2>1 DEF TypeOK, Tables
<1> HIDE DEF tt
<1>2. \A f \in File : RecalculateFile(files[f], f, tt) \in FileRow
  BY <1>1, RecalculateFileType DEF TypeOK
<1>3. files' = [f \in File |-> IF f \in {tasks[t].file : t \in ts}
                               THEN RecalculateFile(files[f], f, tt) ELSE files[f]]
  BY DEF DeleteTasks, tt
<1>4. files' \in [File -> FileRow]
  BY <1>2, <1>3 DEF TypeOK
<1>5. tasks' \in Tables
  BY <1>1 DEF DeleteTasks, tt
<1>6. load' \in [User -> Work]
  BY UpdateLoadType DEF DeleteTasks
<1>7. UNCHANGED <<job, reported, req>>
  BY DEF DeleteTasks
<1> QED
  BY <1>4, <1>5, <1>6, <1>7, RequestsUnchanged DEF TypeOK, Tables

\* post_tasks_for_unassigned_files keeps the types when it reads ...
LEMMA FindUnassignedType ==
    ASSUME TypeOK, NEW w \in Worker, FindUnassigned(w)
    PROVE  TypeOK'
<1> DEFINE r == [pc |-> "distributing", rows |-> files]
<1>1. RequestOK(r)
  BY DEF RequestOK, TypeOK
<1>2. req' = [req EXCEPT ![w] = r] /\ UNCHANGED <<tasks, files, load, job, reported>>
  BY DEF FindUnassigned
<1> HIDE DEF r
<1>3. DOMAIN req' = Worker /\ \A x \in Worker : RequestOK(req'[x])
  BY <1>1, <1>2, RequestReplaced
<1>4. admin' \in 0..MaxAdmin
  BY ManageType DEF FindUnassigned
<1> QED
  BY <1>2, <1>3, <1>4 DEF TypeOK

\* ... and when it writes.
LEMMA DistributeUnassignedType ==
    ASSUME TypeOK, NEW w \in Worker, DistributeUnassigned(w)
    PROVE  TypeOK'
<1> DEFINE rows == req[w].rows
           options == [f \in File |->
               Distribute(f, Page \ rows[f].distributed_annotating,
                          Page \ rows[f].distributed_validating,
                          Annotator, Validator, 1)]
           grown(r, f) == UpdateFile(rows[f], f, r)
<1>1. PICK new \in Batches(File, options) :
          /\ Numberings(new) # {}
          /\ tasks' = With(NumberedRows(new))
          /\ load' = UpdateLoad(With(NumberedRows(new)), UsersOf(NumberedRows(new)))
          /\ files' = [f \in File |->
                IF f \notin {n.file : n \in new} THEN files[f]
                ELSE [files[f] EXCEPT
                    !.distributed_annotating =
                        IF grown(NumberedRows(new), f).distributed_annotating
                             # rows[f].distributed_annotating
                        THEN grown(NumberedRows(new), f).distributed_annotating ELSE @,
                    !.distributed_validating =
                        IF grown(NumberedRows(new), f).distributed_validating
                             # rows[f].distributed_validating
                        THEN grown(NumberedRows(new), f).distributed_validating ELSE @]]
  BY DEF DistributeUnassigned
<1>2. \A f \in File : \A x \in options[f] : x \subseteq FileTasks(f)
  BY DistributeType
<1> HIDE DEF options
<1>3. RowsOK(NumberedRows(new))
  BY <1>1, <1>2, BatchRows
<1>4. rows \in [File -> FileRow]
  BY DEF DistributeUnassigned, TypeOK, RequestOK
<1>5. \A f \in File : grown(NumberedRows(new), f) \in FileRow
  BY <1>3, <1>4, UpdateFileType
<1> HIDE DEF grown
<1>6. files' \in [File -> FileRow]
  <2> DEFINE row(f) ==
          [files[f] EXCEPT
             !.distributed_annotating =
                IF grown(NumberedRows(new), f).distributed_annotating
                     # rows[f].distributed_annotating
                THEN grown(NumberedRows(new), f).distributed_annotating ELSE @,
             !.distributed_validating =
                IF grown(NumberedRows(new), f).distributed_validating
                     # rows[f].distributed_validating
                THEN grown(NumberedRows(new), f).distributed_validating ELSE @]
  <2>1. ASSUME NEW f \in File
        PROVE  row(f) \in FileRow
    <3>1. files[f] \in FileRow /\ grown(NumberedRows(new), f) \in FileRow
      BY <1>5 DEF TypeOK
    <3> QED
      BY <3>1 DEF FileRow
  <2>2. files' = [f \in File |-> IF f \notin {n.file : n \in new} THEN files[f]
                                 ELSE row(f)]
    BY <1>1
  <2> HIDE DEF row
  <2> QED
    BY <2>1, <2>2 DEF TypeOK
<1>7. tasks' \in Tables /\ load' \in [User -> Work]
  BY <1>1, <1>3, WithType, UpdateLoadType
<1>8. req' = [req EXCEPT ![w] = Idle] /\ UNCHANGED <<job, reported, admin>>
  BY DEF DistributeUnassigned
<1>9. DOMAIN req' = Worker /\ \A x \in Worker : RequestOK(req'[x])
  BY <1>8, RequestEnded
<1> QED
  BY <1>6, <1>7, <1>8, <1>9 DEF TypeOK, Tables

-----------------------------------------------------------------------------
(***************************************************************************)
(* The inductive invariant.  TypeOK is not inductive alone: that the rows  *)
(* a request commits are well typed needs its task to exist still.  What   *)
(* follows is what a request of finish_task relies on between its steps,   *)
(* and what the locks and the task statuses make other requests respect.   *)
(***************************************************************************)

\* The task is no longer pending, so update_task does not move it; and what
\* start_job has locked is there, and of the kind it was.
TaskSettled(w) ==
    /\ req[w].pc \in {"checked", "counted", "reported", "applied"} =>
           /\ tasks[req[w].task].status \notin {"absent", "pending"}
           /\ tasks[req[w].task].file = req[w].file
    /\ Starting(w) =>
           \A t \in req[w].started :
               /\ t \in Live
               /\ tasks[t].validation = (ValidationType = "validation_only")

\* The ids of the rows it has inserted are nobody else's.
CreatedApart(w) ==
    Writing(w) =>
        \A t \in DOMAIN req[w].created :
            /\ tasks[t].status = "absent"
            /\ req[w].created[t].file = req[w].file
            /\ req[w].created[t].status \in Status

\* What it read under the File row's lock still holds.
ReadyToCommit(w) ==
    req[w].pc = "applied" =>
        /\ req[w].task \in Live
        /\ \A s \in DOMAIN req[w].unblocked :
               /\ s \in Live /\ tasks[s].file = req[w].file
               /\ req[w].unblocked[s].status \in Status \ {"pending"}
               /\ req[w].unblocked[s].file = tasks[s].file
               /\ req[w].unblocked[s].pages = tasks[s].pages
               /\ req[w].unblocked[s].validation = tasks[s].validation
        /\ req[w].row.distributed_annotating =
               files[req[w].file].distributed_annotating
                   \cup PagesOf(req[w].created, req[w].file, FALSE)
        /\ req[w].row.distributed_validating =
               files[req[w].file].distributed_validating
                   \cup PagesOf(req[w].created, req[w].file, TRUE)

\* A File row is locked by one request at a time.
FileLockExclusive ==
    \A w, x \in Worker, f \in File :
        HoldsFile(w, f) /\ HoldsFile(x, f) => w = x

CreatedDisjoint ==
    \A w, x \in Worker :
        w # x /\ Writing(w) /\ Writing(x) =>
            DOMAIN req[w].created \cap DOMAIN req[x].created = {}

Inv ==
    /\ TypeOK
    /\ \A w \in Worker : TaskSettled(w) /\ CreatedApart(w) /\ ReadyToCommit(w)
    /\ CreatedDisjoint
    /\ FileLockExclusive

\* A step that leaves alone what request w relies on.
Undisturbed(w) ==
    /\ req'[w] = req[w]
    /\ req[w].pc \in {"checked", "counted", "reported", "applied"} =>
           /\ tasks'[req[w].task].status \notin {"absent", "pending"}
           /\ tasks'[req[w].task].file = tasks[req[w].task].file
    /\ Writing(w) => \A t \in DOMAIN req[w].created : tasks'[t].status = "absent"
    /\ req[w].pc = "applied" =>
           /\ \A t \in Live :
                  tasks[t].file = req[w].file =>
                      /\ t \in Live'
                      /\ tasks'[t].file = tasks[t].file
                      /\ tasks'[t].pages = tasks[t].pages
                      /\ tasks'[t].validation = tasks[t].validation
           /\ files'[req[w].file].distributed_annotating =
                  files[req[w].file].distributed_annotating
           /\ files'[req[w].file].distributed_validating =
                  files[req[w].file].distributed_validating
    /\ Starting(w) =>
           \A t \in req[w].started :
               t \in Live' /\ tasks'[t].validation = tasks[t].validation

\* What a request relies on survives a step that leaves it alone.
LEMMA UndisturbedKeeps ==
    ASSUME Inv, NEW w \in Worker, Undisturbed(w)
    PROVE  TaskSettled(w)' /\ CreatedApart(w)' /\ ReadyToCommit(w)'
<1>1. TaskSettled(w) /\ CreatedApart(w) /\ ReadyToCommit(w) /\ RequestOK(req[w])
  BY DEF Inv, TypeOK
<1>2. req'[w] = req[w]
  BY DEF Undisturbed
<1>3. TaskSettled(w)'
  BY <1>1, <1>2 DEF TaskSettled, Undisturbed, Starting
<1>4. CreatedApart(w)'
  BY <1>1, <1>2 DEF CreatedApart, Undisturbed, Writing
<1>5. ReadyToCommit(w)'
  <2>1. SUFFICES ASSUME req[w].pc = "applied"
                 PROVE  ReadyToCommit(w)'
    BY <1>2 DEF ReadyToCommit
  <2>2. /\ req[w].task \in Live /\ tasks[req[w].task].file = req[w].file
    BY <1>1, <2>1 DEF ReadyToCommit, TaskSettled
  <2>3. req[w].task \in Live'
    BY <2>1, <2>2 DEF Undisturbed
  <2>4. \A s \in DOMAIN req[w].unblocked :
               /\ s \in Live' /\ tasks'[s].file = req[w].file
               /\ req[w].unblocked[s].status \in Status \ {"pending"}
               /\ req[w].unblocked[s].file = tasks'[s].file
               /\ req[w].unblocked[s].pages = tasks'[s].pages
               /\ req[w].unblocked[s].validation = tasks'[s].validation
    BY <1>1, <2>1 DEF Undisturbed, ReadyToCommit
  <2>5. /\ files'[req[w].file].distributed_annotating =
               files[req[w].file].distributed_annotating
        /\ files'[req[w].file].distributed_validating =
               files[req[w].file].distributed_validating
    BY <1>1, <2>1 DEF Undisturbed, ReadyToCommit
  <2>6. /\ req[w].row.distributed_annotating =
               files'[req[w].file].distributed_annotating
                   \cup PagesOf(req[w].created, req[w].file, FALSE)
        /\ req[w].row.distributed_validating =
               files'[req[w].file].distributed_validating
                   \cup PagesOf(req[w].created, req[w].file, TRUE)
    BY <1>1, <2>1, <2>5 DEF ReadyToCommit
  <2> HIDE DEF Status
  <2> QED
    BY <1>2, <2>3, <2>4, <2>5, <2>6 DEF ReadyToCommit, PagesOf
<1> QED
  BY <1>3, <1>4, <1>5

\* Handlers without a request of their own add no lock.
LEMMA LocksUnchanged ==
    ASSUME Inv, req' = req
    PROVE  CreatedDisjoint' /\ FileLockExclusive'
BY DEF Inv, CreatedDisjoint, FileLockExclusive, HoldsFile, Writing

\* A request that ends, or that is not writing rows, adds no lock.
LEMMA LocksReleased ==
    ASSUME Inv, NEW w \in Worker, NEW r, req' = [req EXCEPT ![w] = r],
           r.pc \notin {"counted", "reported", "applied"}
    PROVE  CreatedDisjoint' /\ FileLockExclusive'
<1>1. \A x \in Worker : Writing(x)' => Writing(x) /\ req'[x] = req[x]
  BY DEF Writing, Inv, TypeOK
<1> QED
  BY <1>1 DEF Inv, CreatedDisjoint, FileLockExclusive, HoldsFile

\* An insert disturbs nobody: its ids are fresh and the files are not locked.
LEMMA InsertUndisturbing ==
    ASSUME Inv, NEW r, DOMAIN r \subseteq Fresh, tasks' = With(r),
           NEW w \in Worker, req'[w] = req[w],
           HoldsFile(w, req[w].file) =>
               /\ files'[req[w].file].distributed_annotating =
                      files[req[w].file].distributed_annotating
               /\ files'[req[w].file].distributed_validating =
                      files[req[w].file].distributed_validating
    PROVE  Undisturbed(w)
<1>1. \A t \in TaskId : t \notin DOMAIN r => tasks'[t] = tasks[t]
  BY DEF With
<1>2. \A t \in DOMAIN r : tasks[t].status = "absent"
  BY DEF Fresh
<1>3. \A t \in TaskId : tasks[t].status # "absent" => tasks'[t] = tasks[t]
  BY <1>1, <1>2
<1>4. \A t \in Live : t \in Live' /\ tasks'[t] = tasks[t]
  BY <1>3 DEF Live, Status
<1>5. TaskSettled(w) /\ CreatedApart(w) /\ RequestOK(req[w])
  BY DEF Inv, TypeOK
<1>6. ASSUME Writing(w), NEW t \in DOMAIN req[w].created
      PROVE  tasks'[t].status = "absent"
  <2>1. t \notin DOMAIN r
    BY <1>6 DEF Fresh
  <2>2. t \in TaskId
    BY <1>5, <1>6 DEF RequestOK, Writing, RowsOK
  <2> QED
    BY <1>1, <1>5, <1>6, <2>1, <2>2 DEF CreatedApart
<1>7. req[w].pc \in {"checked", "counted", "reported", "applied"} =>
           /\ tasks'[req[w].task].status \notin {"absent", "pending"}
           /\ tasks'[req[w].task].file = tasks[req[w].task].file
  BY <1>3, <1>5 DEF TaskSettled, RequestOK
<1>8. req[w].pc = "applied" => HoldsFile(w, req[w].file)
  BY DEF HoldsFile, Writing
<1>9. Starting(w) => \A t \in req[w].started :
                         t \in Live' /\ tasks'[t].validation = tasks[t].validation
  BY <1>4, <1>5 DEF TaskSettled
<1> QED
  BY <1>4, <1>6, <1>7, <1>8, <1>9 DEF Undisturbed

\* Rows of other files have no page of file f.
LEMMA PagesOfNone ==
    ASSUME NEW r, NEW f, NEW vld, \A t \in DOMAIN r : r[t].file # f
    PROVE  PagesOf(r, f, vld) = {}
BY DEF PagesOf

\* create_tasks with its locks disturbs nobody.
LEMMA InsertTasksUndisturbing ==
    ASSUME Inv, NEW r, RowsOK(r), DOMAIN r \subseteq Fresh, InsertTasks(r),
           NEW w \in Worker, req'[w] = req[w]
    PROVE  Undisturbed(w)
<1>1. SUFFICES ASSUME HoldsFile(w, req[w].file)
               PROVE  /\ files'[req[w].file].distributed_annotating =
                             files[req[w].file].distributed_annotating
                      /\ files'[req[w].file].distributed_validating =
                             files[req[w].file].distributed_validating
  BY InsertUndisturbing DEF InsertTasks
<1> DEFINE f == req[w].file
<1>2. f \in File /\ files[f] \in FileRow
  BY <1>1 DEF HoldsFile, Writing, Inv, TypeOK, RequestOK
<1>3. \A t \in DOMAIN r : r[t].file # f
  BY <1>1 DEF InsertTasks, FileLocked
<1> HIDE DEF f
<1>4. PagesOf(r, f, FALSE) = {} /\ PagesOf(r, f, TRUE) = {}
  BY <1>3, PagesOfNone
<1>5. files'[f] = UpdateFile(files[f], f, r)
  BY <1>2 DEF InsertTasks
<1>6. /\ files'[f].distributed_annotating = files[f].distributed_annotating \cup {}
      /\ files'[f].distributed_validating = files[f].distributed_validating \cup {}
  BY <1>2, <1>4, <1>5 DEF UpdateFile, FileRow
<1> QED
  BY <1>6 DEF f

\* A handler that only moves live tasks to "ready" or "in_progress".
LEMMA StatusUndisturbing ==
    ASSUME Inv, UNCHANGED files,
           \A t \in TaskId :
               \/ tasks'[t] = tasks[t]
               \/ /\ t \in Live
                  /\ tasks'[t].status \in {"ready", "in_progress"}
                  /\ tasks'[t].file = tasks[t].file
                  /\ tasks'[t].pages = tasks[t].pages
                  /\ tasks'[t].validation = tasks[t].validation,
           NEW w \in Worker, req'[w] = req[w]
    PROVE  Undisturbed(w)
<1>1. TaskSettled(w) /\ CreatedApart(w) /\ RequestOK(req[w])
  BY DEF Inv, TypeOK
<1>2. \A t \in Live : /\ t \in Live' /\ tasks'[t].file = tasks[t].file
                      /\ tasks'[t].pages = tasks[t].pages
                      /\ tasks'[t].validation = tasks[t].validation
  BY DEF Live, Status
<1>3. \A t \in TaskId : tasks[t].status = "absent" => tasks'[t].status = "absent"
  BY DEF Live, Status
<1>4. Writing(w) => \A t \in DOMAIN req[w].created : tasks'[t].status = "absent"
  BY <1>1, <1>3 DEF CreatedApart, RequestOK, Writing, RowsOK
<1>5. req[w].pc \in {"checked", "counted", "reported", "applied"} =>
           /\ tasks'[req[w].task].status \notin {"absent", "pending"}
           /\ tasks'[req[w].task].file = tasks[req[w].task].file
  BY <1>1 DEF TaskSettled, RequestOK
<1>6. Starting(w) => \A t \in req[w].started :
                         t \in Live' /\ tasks'[t].validation = tasks[t].validation
  BY <1>1, <1>2 DEF TaskSettled
<1> QED
  BY <1>2, <1>4, <1>5, <1>6 DEF Undisturbed

\* Nothing but the request itself and what the jobs service was told.
LEMMA SilentUndisturbing ==
    ASSUME Inv, UNCHANGED <<tasks, files>>,
           NEW w \in Worker, req'[w] = req[w]
    PROVE  Undisturbed(w)
<1>1. TaskSettled(w) /\ CreatedApart(w)
  BY DEF Inv
<1>2. Live' = Live
  BY DEF Live
<1> QED
  BY <1>1, <1>2 DEF Undisturbed, TaskSettled, CreatedApart

\* update_task moves a pending task between files nobody has locked.
LEMMA UpdateTaskUndisturbing ==
    ASSUME Inv, NEW t \in TaskId, NEW f \in File, NEW ps \in SUBSET Page,
           NEW u \in User, NEW vld \in BOOLEAN, UpdateTask(t, f, ps, u, vld),
           NEW w \in Worker
    PROVE  Undisturbed(w)
<1>1. TaskSettled(w) /\ CreatedApart(w) /\ RequestOK(req[w])
  BY DEF Inv, TypeOK
<1>2. /\ t \in Live /\ tasks[t].status = "pending"
      /\ ~FileLocked(tasks[t].file) /\ ~FileLocked(f) /\ ~TaskLocked(t)
      /\ UNCHANGED <<job, reported, req>>
  BY DEF UpdateTask
<1>3. \A s \in TaskId \ {t} : tasks'[s] = tasks[s]
  BY DEF UpdateTask, Inv, TypeOK
<1>4. tasks[t].file \in File
  BY <1>2, LiveStatus DEF Inv, Task
<1>5. \A g \in File : g # f /\ g # tasks[t].file => files'[g] = files[g]
  BY <1>4 DEF UpdateTask, Inv, TypeOK
<1>6. req[w].pc = "applied" => req[w].file # f /\ req[w].file # tasks[t].file
  BY <1>2 DEF FileLocked, HoldsFile, Writing
<1>7. req[w].pc = "applied" =>
          \A s \in Live : tasks[s].file = req[w].file =>
                              s \in Live' /\ tasks'[s] = tasks[s]
  BY <1>3, <1>6 DEF Live
<1>8. Writing(w) => \A s \in DOMAIN req[w].created : tasks'[s].status = "absent"
  BY <1>1, <1>2, <1>3 DEF CreatedApart, RequestOK, Writing, RowsOK
<1>9. req[w].pc \in {"checked", "counted", "reported", "applied"} =>
          req[w].task \in TaskId \ {t} /\ req[w].file \in File
  BY <1>1, <1>2 DEF TaskSettled, RequestOK
<1>10. Starting(w) => \A s \in req[w].started :
                          s \in Live' /\ tasks'[s].validation = tasks[s].validation
  BY <1>1, <1>2, <1>3 DEF TaskSettled, TaskLocked, Live
<1> QED
  BY <1>1, <1>2, <1>3, <1>5, <1>6, <1>7, <1>8, <1>9, <1>10 DEF Undisturbed, TaskSettled

\* Nor are tasks of a locked file deleted.
LEMMA DeleteTasksUndisturbing ==
    ASSUME Inv, NEW ts \in SUBSET Live, DeleteTasks(ts), NEW w \in Worker
    PROVE  Undisturbed(w)
<1>1. TaskSettled(w) /\ CreatedApart(w) /\ RequestOK(req[w])
  BY DEF Inv, TypeOK
<1>2. /\ \A t \in ts : ~FileLocked(tasks[t].file) /\ ~TaskLocked(t)
      /\ UNCHANGED <<job, reported, req>>
  BY DEF DeleteTasks
<1>3. /\ \A s \in TaskId \ ts : tasks'[s] = tasks[s]
      /\ \A s \in ts : tasks'[s] = [tasks[s] EXCEPT !.status = "deleted"]
  BY DEF DeleteTasks, Live
<1>4. \A s \in ts : tasks'[s].status = "deleted" /\ tasks'[s].file = tasks[s].file
  <2>1. \A s \in ts : tasks[s] \in Task
    BY LiveStatus DEF Inv
  <2> QED
    BY <1>3, <2>1 DEF Task
<1>5. \A g \in File : g \notin {tasks[t].file : t \in ts} => files'[g] = files[g]
  BY DEF DeleteTasks
<1>6. req[w].pc = "applied" => \A t \in ts : tasks[t].file # req[w].file
  BY <1>2 DEF FileLocked, HoldsFile, Writing
<1>7. req[w].pc = "applied" =>
          \A s \in Live : tasks[s].file = req[w].file =>
                              s \in Live' /\ tasks'[s] = tasks[s]
  BY <1>3, <1>6 DEF Live
<1>8. Writing(w) => \A s \in DOMAIN req[w].created : tasks'[s].status = "absent"
  <2>1. \A s \in ts : tasks[s].status # "absent"
    BY DEF Live, Status
  <2> QED
    BY <1>1, <1>3, <2>1 DEF CreatedApart, RequestOK, Writing, RowsOK
<1>9. req[w].pc \in {"checked", "counted", "reported", "applied"} =>
          /\ tasks'[req[w].task].status \notin {"absent", "pending"}
          /\ tasks'[req[w].task].file = tasks[req[w].task].file
  BY <1>1, <1>3, <1>4 DEF TaskSettled, RequestOK
<1>10. req[w].pc = "applied" => files'[req[w].file] = files[req[w].file]
  BY <1>1, <1>5, <1>6 DEF RequestOK
<1>11. Starting(w) => \A s \in req[w].started :
                          s \in Live' /\ tasks'[s].validation = tasks[s].validation
  BY <1>1, <1>2, <1>3 DEF TaskSettled, TaskLocked, Live
<1> QED
  BY <1>2, <1>7, <1>8, <1>9, <1>10, <1>11 DEF Undisturbed

\* A commit's rows, and what the others see of them.
LEMMA CommittedRows ==
    ASSUME Inv, NEW w \in Worker, FinishCommit(w)
    PROVE  /\ \A t \in DOMAIN req[w].created : tasks'[t] = req[w].created[t]
           /\ \A t \in TaskId \ DOMAIN req[w].created :
                  \/ tasks'[t] = tasks[t]
                  \/ /\ t \in Live
                     /\ tasks'[t].status \in Status \ {"pending"}
                     /\ tasks'[t].file = tasks[t].file
                     /\ tasks'[t].pages = tasks[t].pages
                     /\ tasks'[t].validation = tasks[t].validation
<1> DEFINE r == req[w]
<1>1. /\ r.pc = "applied" /\ RequestOK(r)
      /\ TaskSettled(w) /\ CreatedApart(w) /\ ReadyToCommit(w)
  BY DEF FinishCommit, Inv, TypeOK
<1>2. tasks' = FinishedTable(r, r.unblocked)
  BY DEF FinishCommit
<1>3. \A t \in DOMAIN r.created : t \in TaskId
  BY <1>1 DEF RequestOK, RowsOK
<1>4. ASSUME NEW t \in TaskId, t \notin DOMAIN r.created, t \notin DOMAIN r.unblocked,
             t = r.task
      PROVE  /\ t \in Live
             /\ tasks'[t].status \in Status \ {"pending"}
             /\ tasks'[t].file = tasks[t].file
             /\ tasks'[t].pages = tasks[t].pages
             /\ tasks'[t].validation = tasks[t].validation
  <2>1. t \in Live /\ tasks[t] \in Task
    BY <1>1, <1>4, LiveStatus DEF ReadyToCommit, Inv
  <2>2. tasks'[t] = [tasks[t] EXCEPT !.status = "finished"]
    BY <1>2, <1>4 DEF FinishedTable
  <2> QED
    BY <2>1, <2>2 DEF Task, Status
<1>5. ASSUME NEW t \in TaskId, t \notin DOMAIN r.created, t \in DOMAIN r.unblocked
      PROVE  /\ t \in Live
             /\ tasks'[t].status \in Status \ {"pending"}
             /\ tasks'[t].file = tasks[t].file
             /\ tasks'[t].pages = tasks[t].pages
             /\ tasks'[t].validation = tasks[t].validation
  <2>1. tasks'[t] = r.unblocked[t]
    BY <1>2, <1>5 DEF FinishedTable
  <2> QED
    BY <1>1, <1>5, <2>1 DEF ReadyToCommit
<1>6. \A t \in TaskId : t \notin DOMAIN r.created /\ t \notin DOMAIN r.unblocked
                            /\ t # r.task => tasks'[t] = tasks[t]
  BY <1>2 DEF FinishedTable
<1>7. \A t \in DOMAIN r.created : tasks'[t] = r.created[t]
  BY <1>2, <1>3 DEF FinishedTable
<1> QED
  BY <1>4, <1>5, <1>6, <1>7

\* A commit of finish_task disturbs no other request.
LEMMA CommitUndisturbing ==
    ASSUME Inv, NEW w \in Worker, FinishCommit(w), NEW x \in Worker \ {w}
    PROVE  Undisturbed(x)
<1>1. TaskSettled(x) /\ CreatedApart(x) /\ CreatedApart(w) /\ RequestOK(req[x])
      /\ RequestOK(req[w])
  BY DEF Inv, TypeOK
<1>2. /\ req[w].pc = "applied" /\ req' = [req EXCEPT ![w] = Idle]
      /\ files' = [files EXCEPT ![req[w].file] = req[w].row]
  BY DEF FinishCommit
<1>3. req'[x] = req[x]
  BY <1>2 DEF Inv, TypeOK
<1>4. \A t \in DOMAIN req[w].created : tasks[t].status = "absent"
  BY <1>1, <1>2 DEF CreatedApart, Writing
<1>5. \A t \in Live : /\ t \in Live'
                      /\ tasks'[t].file = tasks[t].file
                      /\ tasks'[t].pages = tasks[t].pages
                      /\ tasks'[t].validation = tasks[t].validation
  BY <1>4, CommittedRows DEF Live, Status
<1>6. req[x].pc \in {"checked", "counted", "reported", "applied"} =>
          /\ tasks'[req[x].task].status \notin {"absent", "pending"}
          /\ tasks'[req[x].task].file = tasks[req[x].task].file
  BY <1>1, <1>4, CommittedRows DEF TaskSettled, RequestOK, Status
<1>7. ASSUME Writing(x), NEW t \in DOMAIN req[x].created
      PROVE  tasks'[t].status = "absent"
  <2>1. t \notin DOMAIN req[w].created
    BY <1>2, <1>7 DEF Inv, CreatedDisjoint, Writing
  <2>2. t \in TaskId /\ tasks[t].status = "absent"
    BY <1>1, <1>7 DEF RequestOK, Writing, RowsOK, CreatedApart
  <2>3. t \notin Live
    BY <2>2 DEF Live, Status
  <2> QED
    BY <2>1, <2>2, <2>3, CommittedRows
<1>8. req[x].pc = "applied" => req[x].file # req[w].file
  BY <1>1, <1>2 DEF Inv, FileLockExclusive, HoldsFile, Writing, RequestOK
<1>9. req[x].pc = "applied" => files'[req[x].file] = files[req[x].file]
  BY <1>1, <1>2, <1>8 DEF RequestOK, Inv, TypeOK
<1>10. Starting(x) => \A t \in req[x].started :
                          t \in Live' /\ tasks'[t].validation = tasks[t].validation
  BY <1>1, <1>5 DEF TaskSettled
<1> QED
  BY <1>2, <1>3, <1>5, <1>6, <1>7, <1>9, <1>10 DEF Undisturbed

\* How a step of one request preserves the invariant.
LEMMA RequestStep ==
    ASSUME Inv, TypeOK', CreatedDisjoint', FileLockExclusive', NEW w \in Worker,
           \A x \in Worker \ {w} : Undisturbed(x),
           TaskSettled(w)' /\ CreatedApart(w)' /\ ReadyToCommit(w)'
    PROVE  Inv'
BY UndisturbedKeeps DEF Inv

\* How a step of a handler that is one action preserves it.
LEMMA HandlerStep ==
    ASSUME Inv, TypeOK', req' = req, \A x \in Worker : Undisturbed(x)
    PROVE  Inv'
BY UndisturbedKeeps, LocksUnchanged DEF Inv

\* Requests that have nothing at stake.
LEMMA NothingAtStake ==
    ASSUME NEW w \in Worker, req'[w].pc \in {"idle", "distributing"}
    PROVE  TaskSettled(w)' /\ CreatedApart(w)' /\ ReadyToCommit(w)'
BY DEF TaskSettled, CreatedApart, ReadyToCommit, Writing, Starting

\* finish_task up to validate_user_actions preserves the invariant.
LEMMA FinishCheckStep ==
    ASSUME Inv, NEW w \in Worker, NEW t \in TaskId, FinishCheck(w, t)
    PROVE  Inv'
<1>1. TypeOK'
  BY FinishCheckType DEF Inv
<1> DEFINE marked(m) == {p \in tasks[t].pages :
                            tasks[t].validation /\ tasks[t].marks[p] = m}
           r == [pc |-> "checked", task |-> t, file |-> tasks[t].file,
                 validated |-> marked("validated"), failed |-> marked("failed"),
                 edited |-> marked("annotated")]
<1>2. req' = [req EXCEPT ![w] = r]
  BY DEF FinishCheck
<1>8. r.pc = "checked" /\ r.task = t /\ r.file = tasks[t].file
  OBVIOUS
<1> HIDE DEF r
<1>3. tasks[t].status = "in_progress" /\ UNCHANGED <<tasks, files, reported>>
  BY DEF FinishCheck
<1>4. CreatedDisjoint' /\ FileLockExclusive'
  BY <1>2, <1>8, LocksReleased
<1>5. \A x \in Worker \ {w} : Undisturbed(x)
  BY <1>2, <1>3, SilentUndisturbing DEF Inv, TypeOK
<1>6. req'[w] = r
  BY <1>2 DEF Inv, TypeOK
<1>7. TaskSettled(w)' /\ CreatedApart(w)' /\ ReadyToCommit(w)'
  BY <1>3, <1>6, <1>8 DEF TaskSettled, CreatedApart, ReadyToCommit, Writing, Starting
<1> QED
  BY <1>1, <1>4, <1>5, <1>7, RequestStep

\* Inserting the follow-up tasks preserves it: fresh ids, and the lock.
LEMMA FinishPrepareStep ==
    ASSUME Inv, NEW w \in Worker, FinishPrepare(w)
    PROVE  Inv'
<1>1. TypeOK'
  BY FinishPrepareType DEF Inv
<1>2. req[w].pc = "checked" /\ UNCHANGED <<tasks, files, reported>>
  BY DEF FinishPrepare
<1> DEFINE counted == {p \in Page :
                         AnnotationsOf(req[w].task, req[w].file, p) = Coverage}
           after(new) ==
               [pc |-> "counted", task |-> req[w].task, file |-> req[w].file,
                validated |-> req[w].validated, created |-> NumberedRows(new),
                finished_pages |-> counted,
                last |-> AllFinishedBut1(new),
                loads |-> [u \in UsersOf(NumberedRows(new)) |->
                               RemainingWork(With(NumberedRows(new)), u)]]
<1>14. PICK new \in FollowUps(req[w]) :
          /\ Numberings(new) # {}
          /\ new # {} => ~FileLocked(req[w].file)
          /\ req' = [req EXCEPT ![w] = after(new)]
  BY DEF FinishPrepare
<1> DEFINE r == after(new)
<1>3. /\ Numberings(new) # {}
      /\ new # {} => ~FileLocked(req[w].file)
      /\ req' = [req EXCEPT ![w] = r]
      /\ r.pc = "counted" /\ r.task = req[w].task /\ r.file = req[w].file
      /\ r.created = NumberedRows(new)
  BY <1>14
<1> HIDE DEF r, after
<1>4. req'[w] = r /\ \A x \in Worker \ {w} : req'[x] = req[x]
  BY <1>3 DEF Inv, TypeOK
<1>5. \A t \in DOMAIN r.created : t \in Fresh /\ r.created[t] \in FileTasks(r.file)
  BY <1>2, <1>3, NumberedRowsType, FollowUpsType DEF Inv
<1>6. DOMAIN r.created # {} => ~FileLocked(r.file)
  BY <1>3, NumberedRowsType
<1>7. \A x \in Worker \ {w} : Undisturbed(x)
  BY <1>2, <1>4, SilentUndisturbing
<1>8. CreatedDisjoint'
  <2>1. \A x \in Worker \ {w} : Writing(x) => DOMAIN r.created \cap DOMAIN req[x].created = {}
    BY <1>5 DEF Fresh
  <2> QED
    BY <1>4, <2>1 DEF CreatedDisjoint, Inv, Writing
<1>9. FileLockExclusive'
  BY <1>3, <1>4, <1>6 DEF FileLockExclusive, Inv, Writing, HoldsFile, FileLocked
<1>10. TaskSettled(w) 
  BY DEF Inv
<1>11. TaskSettled(w)'
  BY <1>2, <1>3, <1>4, <1>10 DEF TaskSettled, Starting
<1>12. CreatedApart(w)'
  BY <1>2, <1>4, <1>5 DEF CreatedApart, Fresh, FileTasks
<1>13. ReadyToCommit(w)'
  BY <1>3, <1>4 DEF ReadyToCommit
<1> QED
  BY <1>1, <1>7, <1>8, <1>9, <1>11, <1>12, <1>13, RequestStep

\* The row finish_task writes has the distributed pages update_files gave it.
LEMMA FinishedRowPages ==
    ASSUME TypeOK, NEW w \in Worker, ReadyToApply(req[w])
    PROVE  /\ FinishedRow(req[w]).distributed_annotating =
                  files[req[w].file].distributed_annotating
                      \cup PagesOf(req[w].created, req[w].file, FALSE)
           /\ FinishedRow(req[w]).distributed_validating =
                  files[req[w].file].distributed_validating
                      \cup PagesOf(req[w].created, req[w].file, TRUE)
<1> DEFINE r == req[w]
           row == UpdateFile(files[r.file], r.file, r.created)
<1>1. r.file \in File /\ RowsOK(r.created) /\ files[r.file] \in FileRow
  BY DEF TypeOK, RequestOK, ReadyToApply
<1>2. row \in FileRow
  BY <1>1, UpdateFileType
<1>3. /\ row.distributed_annotating =
             files[r.file].distributed_annotating \cup PagesOf(r.created, r.file, FALSE)
      /\ row.distributed_validating =
             files[r.file].distributed_validating \cup PagesOf(r.created, r.file, TRUE)
  BY <1>1 DEF UpdateFile, FileRow
<1> HIDE DEF row
<1>4. /\ FinishedRow(r).distributed_annotating = row.distributed_annotating
      /\ FinishedRow(r).distributed_validating = row.distributed_validating
  BY <1>2 DEF FinishedRow, FileRow, row
<1> QED
  BY <1>3, <1>4

\* Telling the jobs service, under the file's lock, preserves the invariant.
LEMMA FinishReportStep ==
    ASSUME Inv, NEW w \in Worker, FinishReport(w)
    PROVE  Inv'
<1> DEFINE r == req[w]
<1>1. TypeOK'
  BY FinishReportType DEF Inv
<1>2. /\ r.pc = "counted" /\ UNCHANGED <<tasks, files>>
      /\ \A x \in Worker \ {w} : ~HoldsFile(x, r.file)
  BY DEF FinishReport
<1>3. PICK new : /\ req' = [req EXCEPT ![w] = new]
                 /\ new.pc = "reported" /\ new.task = r.task /\ new.file = r.file
                 /\ new.created = r.created
  <2> DEFINE n == [pc |-> "reported", task |-> r.task, file |-> r.file,
                   validated |-> r.validated, created |-> r.created,
                   finished_pages |-> r.finished_pages, last |-> TRUE,
                   loads |-> r.loads]
  <2>1. req' = [req EXCEPT ![w] = n]
    BY DEF FinishReport
  <2>2. n.pc = "reported" /\ n.task = r.task /\ n.file = r.file /\ n.created = r.created
    OBVIOUS
  <2> HIDE DEF n
  <2> QED
    BY <2>1, <2>2
<1>4. req'[w] = new /\ \A x \in Worker \ {w} : req'[x] = req[x]
  BY <1>3 DEF Inv, TypeOK
<1>5. \A x \in Worker \ {w} : Undisturbed(x)
  BY <1>2, <1>4, SilentUndisturbing
<1>6. CreatedDisjoint'
  BY <1>2, <1>3, <1>4 DEF CreatedDisjoint, Inv, Writing
<1>7. FileLockExclusive'
  BY <1>2, <1>3, <1>4 DEF FileLockExclusive, Inv, Writing, HoldsFile
<1>8. TaskSettled(w) /\ CreatedApart(w)
  BY DEF Inv
<1>9. TaskSettled(w)'
  BY <1>2, <1>3, <1>4, <1>8 DEF TaskSettled, Starting
<1>10. CreatedApart(w)' /\ ReadyToCommit(w)'
  BY <1>2, <1>3, <1>4, <1>8 DEF CreatedApart, ReadyToCommit, Writing
<1> QED
  BY <1>1, <1>5, <1>6, <1>7, <1>9, <1>10, RequestStep

\* Writing the rows under the file's lock preserves the invariant.
LEMMA FinishApplyStep ==
    ASSUME Inv, NEW w \in Worker, FinishApply(w)
    PROVE  Inv'
<1> DEFINE r == req[w]
<1>1. TypeOK'
  BY FinishApplyType DEF Inv
<1>2. /\ ReadyToApply(r) /\ r.pc \in {"counted", "reported"} /\ r.task \in Live
      /\ \A x \in Worker \ {w} : ~HoldsFile(x, r.file)
      /\ UNCHANGED <<tasks, files>>
  BY DEF FinishApply, ReadyToApply
<1>3. PICK unblocked, new :
          /\ DOMAIN unblocked = UnblockedTasks(r)
          /\ \A s \in UnblockedTasks(r) : unblocked[s] \in Unblocked(s)
          /\ req' = [req EXCEPT ![w] = new]
          /\ new.pc = "applied" /\ new.task = r.task /\ new.file = r.file
          /\ new.created = r.created /\ new.row = FinishedRow(r)
          /\ new.unblocked = unblocked /\ new.last = r.last
  BY DEF FinishApply
<1>4. req'[w] = new /\ \A x \in Worker \ {w} : req'[x] = req[x]
  BY <1>3 DEF Inv, TypeOK
<1>5. \A x \in Worker \ {w} : Undisturbed(x)
  BY <1>2, <1>4, SilentUndisturbing
<1>6. CreatedDisjoint'
  BY <1>2, <1>3, <1>4 DEF CreatedDisjoint, Inv, Writing
<1>7. FileLockExclusive'
  BY <1>2, <1>3, <1>4 DEF FileLockExclusive, Inv, Writing, HoldsFile
<1>8. TaskSettled(w) /\ CreatedApart(w)
  BY DEF Inv
<1>9. TaskSettled(w)'
  BY <1>2, <1>3, <1>4, <1>8 DEF TaskSettled, Starting
<1>10. CreatedApart(w)'
  BY <1>2, <1>3, <1>4, <1>8 DEF CreatedApart, Writing
<1>11. ReadyToCommit(w)'
  <2>1. \A s \in UnblockedTasks(r) : s \in Live /\ tasks[s].file = r.file
    BY DEF UnblockedTasks, TasksOf
  <2>2. \A s \in UnblockedTasks(r) :
            /\ unblocked[s].status \in Status \ {"pending"}
            /\ unblocked[s].file = tasks[s].file
            /\ unblocked[s].pages = tasks[s].pages
            /\ unblocked[s].validation = tasks[s].validation
    <3>1. ASSUME NEW s \in UnblockedTasks(r)
          PROVE  unblocked[s].status \in {"ready", "in_progress"}
      <4>1. tasks[s] \in Task
        BY <2>1, LiveStatus DEF Inv
      <4>2. unblocked[s] \in Unblocked(s)
        BY <1>3
      <4> QED
        BY <4>1, <4>2 DEF Unblocked, Task
    <3> QED
      BY <1>3, <2>1, <3>1, UnblockedType DEF Inv, Status
  <2>3. /\ new.row.distributed_annotating =
               files[r.file].distributed_annotating
                   \cup PagesOf(r.created, r.file, FALSE)
        /\ new.row.distributed_validating =
               files[r.file].distributed_validating
                   \cup PagesOf(r.created, r.file, TRUE)
    BY <1>2, <1>3, FinishedRowPages DEF Inv
  <2>4. Live' = Live
    BY <1>2 DEF Live
  <2>5. PagesOf(r.created, r.file, FALSE) = PagesOf(new.created, new.file, FALSE)
        /\ PagesOf(r.created, r.file, TRUE) = PagesOf(new.created, new.file, TRUE)
    BY <1>3
  <2> QED
    BY <1>2, <1>3, <1>4, <2>1, <2>2, <2>3, <2>4, <2>5 DEF ReadyToCommit, PagesOf
<1> QED
  BY <1>1, <1>5, <1>6, <1>7, <1>9, <1>10, <1>11, RequestStep

\* The commit preserves the invariant.
LEMMA FinishCommitStep ==
    ASSUME Inv, NEW w \in Worker, FinishCommit(w)
    PROVE  Inv'
<1>1. req[w].pc = "applied" /\ req' = [req EXCEPT ![w] = Idle]
  BY DEF FinishCommit
<1>2. tasks[req[w].task].status # "absent"
  BY <1>1 DEF Inv, TaskSettled
<1>3. TypeOK'
  BY <1>2, FinishCommitType DEF Inv
<1>4. Idle.pc = "idle"
  BY DEF Idle
<1>5. CreatedDisjoint' /\ FileLockExclusive'
  BY <1>1, <1>4, LocksReleased
<1>6. \A x \in Worker \ {w} : Undisturbed(x)
  BY CommitUndisturbing
<1>7. req'[w].pc = "idle"
  BY <1>1, <1>4 DEF Inv, TypeOK
<1> QED
  BY <1>3, <1>5, <1>6, <1>7, NothingAtStake, RequestStep

\* A rollback preserves the invariant.
LEMMA AbandonStep ==
    ASSUME Inv, NEW w \in Worker, FinishFails(w) \/ Abandon(w)
    PROVE  Inv'
<1>1. /\ req' = [req EXCEPT ![w] = Idle]
      /\ UNCHANGED <<tasks, files>>
  BY DEF FinishFails, Abandon
<1>2. TypeOK'
  BY AbandonType DEF Inv
<1>3. Idle.pc = "idle"
  BY DEF Idle
<1>4. CreatedDisjoint' /\ FileLockExclusive'
  BY <1>1, <1>3, LocksReleased
<1>5. \A x \in Worker \ {w} : Undisturbed(x)
  BY <1>1, SilentUndisturbing DEF Inv, TypeOK
<1>6. req'[w].pc = "idle"
  BY <1>1, <1>3 DEF Inv, TypeOK
<1> QED
  BY <1>2, <1>4, <1>5, <1>6, NothingAtStake, RequestStep

\* The update of start_job preserves the invariant.
LEMMA StartJobStep ==
    ASSUME Inv, NEW w \in Worker, StartJob(w), admin' \in 0..MaxAdmin
    PROVE  Inv'
<1> DEFINE r == [pc |-> "starting", started |-> LeadingTasks]
<1>1. TypeOK'
  BY StartJobType DEF Inv
<1>2. req' = [req EXCEPT ![w] = r] /\ UNCHANGED <<tasks, files>>
  BY DEF StartJob
<1>3. r.pc = "starting" /\ r.started = LeadingTasks
  OBVIOUS
<1> HIDE DEF r
<1>4. CreatedDisjoint' /\ FileLockExclusive'
  BY <1>2, <1>3, LocksReleased
<1>5. \A x \in Worker \ {w} : Undisturbed(x)
  BY <1>2, SilentUndisturbing DEF Inv, TypeOK
<1>6. req'[w] = r
  BY <1>2 DEF Inv, TypeOK
<1>7. \A t \in LeadingTasks :
          t \in Live' /\ tasks'[t].validation = (ValidationType = "validation_only")
  BY <1>2 DEF LeadingTasks, Live
<1>8. TaskSettled(w)' /\ CreatedApart(w)' /\ ReadyToCommit(w)'
  BY <1>3, <1>6, <1>7 DEF TaskSettled, CreatedApart, ReadyToCommit, Writing
<1> QED
  BY <1>1, <1>4, <1>5, <1>8, RequestStep

\* So does what the jobs service answers.
LEMMA StartReportStep ==
    ASSUME Inv, NEW w \in Worker, StartReport(w)
    PROVE  Inv'
<1>1. TypeOK'
  BY StartReportType DEF Inv
<1>2. PICK r : /\ req' = [req EXCEPT ![w] = r]
               /\ \/ r.pc = "idle"
                  \/ r.pc = "started" /\ r.started = req[w].started
  <2> DEFINE n == [pc |-> "started", started |-> req[w].started]
  <2>1. req' = [req EXCEPT ![w] = n] \/ req' = [req EXCEPT ![w] = Idle]
    BY DEF StartReport
  <2>2. n.pc = "started" /\ n.started = req[w].started /\ Idle.pc = "idle"
    BY DEF Idle
  <2> HIDE DEF n
  <2> QED
    BY <2>1, <2>2
<1>3. Starting(w) /\ UNCHANGED <<tasks, files>>
  BY DEF StartReport, Starting
<1>4. CreatedDisjoint' /\ FileLockExclusive'
  BY <1>2, LocksReleased
<1>5. \A x \in Worker \ {w} : Undisturbed(x)
  BY <1>2, <1>3, SilentUndisturbing DEF Inv, TypeOK
<1>6. req'[w] = r
  BY <1>2 DEF Inv, TypeOK
<1>7. TaskSettled(w)
  BY DEF Inv
<1>8. Live' = Live
  BY <1>3 DEF Live
<1>9. TaskSettled(w)'
  BY <1>2, <1>3, <1>6, <1>7, <1>8 DEF TaskSettled, Starting
<1>10. CreatedApart(w)' /\ ReadyToCommit(w)'
  BY <1>2, <1>6 DEF CreatedApart, ReadyToCommit, Writing
<1> QED
  BY <1>1, <1>4, <1>5, <1>9, <1>10, RequestStep

\* The commit of start_job preserves it.
LEMMA StartCommitStep ==
    ASSUME Inv, NEW w \in Worker, StartCommit(w)
    PROVE  Inv'
<1>1. /\ req' = [req EXCEPT ![w] = Idle] /\ UNCHANGED files
      /\ tasks' = StartedTasks(req[w].started)
  BY DEF StartCommit
<1>2. req[w].started \subseteq Live
  BY DEF Inv, TaskSettled, Starting, StartCommit
<1>3. TypeOK'
  BY <1>2, StartCommitType DEF Inv
<1>4. \A t \in TaskId :
         \/ tasks'[t] = tasks[t]
         \/ /\ t \in Live
            /\ tasks'[t].status \in {"ready", "in_progress"}
            /\ tasks'[t].file = tasks[t].file
            /\ tasks'[t].pages = tasks[t].pages
            /\ tasks'[t].validation = tasks[t].validation
  <2>1. SUFFICES ASSUME NEW t \in TaskId
                 PROVE  \/ tasks'[t] = tasks[t]
                        \/ /\ t \in Live
                           /\ tasks'[t].status \in {"ready", "in_progress"}
                           /\ tasks'[t].file = tasks[t].file
                           /\ tasks'[t].pages = tasks[t].pages
                           /\ tasks'[t].validation = tasks[t].validation
    OBVIOUS
  <2>2. TypeOK
    BY DEF Inv
  <2>3. CASE t \in req[w].started
    BY <1>1, <1>2, <2>2, <2>3, StartedRows
  <2>4. CASE t \notin req[w].started
    BY <1>1, <2>4 DEF StartedTasks
  <2> QED
    BY <2>3, <2>4
<1>5. Idle.pc = "idle"
  BY DEF Idle
<1>6. CreatedDisjoint' /\ FileLockExclusive'
  BY <1>1, <1>5, LocksReleased
<1>7. \A x \in Worker \ {w} : Undisturbed(x)
  <2>1. \A x \in Worker \ {w} : req'[x] = req[x]
    BY <1>1 DEF Inv, TypeOK
  <2> QED
    BY <1>1, <1>4, <2>1, StatusUndisturbing
<1>8. req'[w].pc = "idle"
  BY <1>1, <1>5 DEF Inv, TypeOK
<1> QED
  BY <1>3, <1>6, <1>7, <1>8, NothingAtStake, RequestStep

\* Working on a task preserves the invariant.
LEMMA WorkStep ==
    ASSUME Inv,
           \/ \E u \in User : NextAnnotationTask(u)
           \/ \E t \in TaskId, ann, val, fail \in SUBSET Page :
                  SaveAnnotation(t, ann, val, fail)
    PROVE  Inv'
<1>1. TypeOK'
  BY WorkType DEF Inv
<1>2. UNCHANGED <<files, req, reported>>
  BY DEF NextAnnotationTask, SaveAnnotation
<1> DEFINE Moved(t) ==
        \/ tasks'[t] = tasks[t]
        \/ /\ t \in Live
           /\ tasks'[t].status \in {"ready", "in_progress"}
           /\ tasks'[t].file = tasks[t].file
           /\ tasks'[t].pages = tasks[t].pages
           /\ tasks'[t].validation = tasks[t].validation
<1>3. \A t \in TaskId : Moved(t)
  <2>1. ASSUME NEW u \in User, NextAnnotationTask(u)
        PROVE  \A s \in TaskId : Moved(s)
    <3>1. PICK t \in Live : tasks' = [tasks EXCEPT ![t].status = "in_progress"]
      BY <2>1 DEF NextAnnotationTask
    <3>2. tasks[t] \in Task
      BY LiveStatus DEF Inv
    <3> QED
      BY <3>1, <3>2 DEF Task, Inv, TypeOK
  <2>2. ASSUME NEW t \in TaskId, NEW ann \in SUBSET Page, NEW val \in SUBSET Page,
               NEW fail \in SUBSET Page, SaveAnnotation(t, ann, val, fail)
        PROVE  \A s \in TaskId : Moved(s)
    <3>1. t \in Live /\ tasks[t] \in Task
      BY <2>2, LiveStatus DEF SaveAnnotation, Inv
    <3> DEFINE mark(p) == IF p \in ann THEN "annotated"
                          ELSE IF p \in val THEN "validated"
                          ELSE IF p \in fail THEN "failed" ELSE tasks[t].marks[p]
               marks == [p \in Page |-> mark(p)]
    <3>2. tasks' = [tasks EXCEPT ![t].status = "in_progress",
                                 ![t].marks = marks, ![t].edited = @ \cup ann]
      BY <2>2 DEF SaveAnnotation
    <3> HIDE DEF marks
    <3> QED
      BY <3>1, <3>2 DEF Task, Inv, TypeOK
  <2> QED
    BY <2>1, <2>2
<1>4. \A w \in Worker : Undisturbed(w)
  BY <1>2, <1>3, StatusUndisturbing
<1> QED
  BY <1>1, <1>2, <1>4, HandlerStep

\* A handler that inserts rows preserves the invariant.
LEMMA InsertStep ==
    ASSUME Inv, TypeOK', UNCHANGED <<req, reported>>,
           NEW new, Numberings(new) # {}, RowsOK(NumberedRows(new)),
           InsertTasks(NumberedRows(new))
    PROVE  Inv'
<1>1. DOMAIN NumberedRows(new) \subseteq Fresh
  BY NumberedRowsType
<1>2. \A w \in Worker : Undisturbed(w)
  BY <1>1, InsertTasksUndisturbing
<1> QED
  BY <1>2, HandlerStep

\* post_job preserves the invariant.
LEMMA PostJobStep ==
    ASSUME Inv, PostJob
    PROVE  Inv'
<1> DEFINE k == IF ValidationType = "extensive_coverage" THEN Coverage ELSE 1
           options == [f \in File |-> Distribute(f, Page, Page, Annotator, Validator, k)]
<1>1. PICK new \in {{}} \cup Batches(File, options) :
          Numberings(new) # {} /\ InsertTasks(NumberedRows(new))
  BY DEF PostJob
<1>2. RowsOK(NumberedRows(new))
  <2>1. CASE new = {}
    BY <1>1, <2>1, NumberedRowsOK
  <2>2. CASE new \in Batches(File, options)
    <3>1. \A f \in File : \A x \in options[f] : x \subseteq FileTasks(f)
      BY DistributeType
    <3> HIDE DEF options
    <3> QED
      BY <1>1, <2>2, <3>1, BatchRows
  <2> QED
    BY <1>1, <2>1, <2>2
<1>3. TypeOK' /\ UNCHANGED <<req, reported>>
  BY PostJobType DEF Inv, PostJob
<1> QED
  BY <1>1, <1>2, <1>3, InsertStep

\* post_task preserves the invariant.
LEMMA PostTaskStep ==
    ASSUME Inv, NEW f \in File, NEW ps \in SUBSET Page, NEW u \in User,
           NEW vld \in BOOLEAN, PostTask(f, ps, u, vld)
    PROVE  Inv'
<1> DEFINE new == {NewTask(f, ps, u, vld, "pending")}
<1>1. new \subseteq Task
  BY NewTaskType DEF FileTasks, Status
<1>2. Numberings(new) # {} /\ InsertTasks(NumberedRows(new))
  BY DEF PostTask
<1> HIDE DEF new
<1>3. TypeOK' /\ UNCHANGED <<req, reported>>
  BY PostTaskType DEF Inv, PostTask
<1> QED
  BY <1>1, <1>2, <1>3, NumberedRowsOK, InsertStep

\* post_tasks preserves the invariant.
LEMMA PostTasksStep ==
    ASSUME Inv, NEW fs \in SUBSET File, NEW us \in SUBSET User,
           PostTasks(fs, us)
    PROVE  Inv'
<1> DEFINE options == [f \in fs |->
               Distribute(f, Page, Page, us \cap Annotator, us \cap Validator, 1)]
<1>1. PICK new \in Batches(fs, options) :
          Numberings(new) # {} /\ InsertTasks(NumberedRows(new))
  BY DEF PostTasks
<1>2. \A f \in fs : \A x \in options[f] : x \subseteq FileTasks(f)
  BY DistributeType
<1> HIDE DEF options
<1>3. RowsOK(NumberedRows(new))
  BY <1>1, <1>2, BatchRows
<1>4. TypeOK' /\ UNCHANGED <<req, reported>>
  BY PostTasksType DEF Inv, PostTasks
<1> QED
  BY <1>1, <1>3, <1>4, InsertStep

\* update_task preserves the invariant.
LEMMA UpdateTaskStep ==
    ASSUME Inv, NEW t \in TaskId, NEW f \in File, NEW ps \in SUBSET Page,
           NEW u \in User, NEW vld \in BOOLEAN, UpdateTask(t, f, ps, u, vld)
    PROVE  Inv'
<1>1. TypeOK' /\ req' = req
  BY UpdateTaskType DEF Inv, UpdateTask
<1> QED
  BY <1>1, UpdateTaskUndisturbing, HandlerStep

\* Deleting tasks preserves the invariant.
LEMMA DeleteTasksStep ==
    ASSUME Inv, NEW ts \in SUBSET Live, DeleteTasks(ts), admin' \in 0..MaxAdmin
    PROVE  Inv'
<1>1. TypeOK' /\ req' = req
  BY DeleteTasksType DEF Inv, DeleteTasks
<1> QED
  BY <1>1, DeleteTasksUndisturbing, HandlerStep

\* Reading the files of the job preserves the invariant.
LEMMA FindUnassignedStep ==
    ASSUME Inv, NEW w \in Worker, FindUnassigned(w)
    PROVE  Inv'
<1> DEFINE r == [pc |-> "distributing", rows |-> files]
<1>1. r.pc = "distributing"
  OBVIOUS
<1>2. req' = [req EXCEPT ![w] = r] /\ UNCHANGED <<tasks, files, reported>>
  BY DEF FindUnassigned
<1> HIDE DEF r
<1>3. TypeOK'
  BY FindUnassignedType DEF Inv
<1>4. CreatedDisjoint' /\ FileLockExclusive'
  BY <1>1, <1>2, LocksReleased
<1>5. \A x \in Worker \ {w} : Undisturbed(x)
  BY <1>2, SilentUndisturbing DEF Inv, TypeOK
<1>6. req'[w].pc = "distributing"
  BY <1>1, <1>2 DEF Inv, TypeOK
<1> QED
  BY <1>3, <1>4, <1>5, <1>6, NothingAtStake, RequestStep

\* Distributing what they lacked preserves the invariant.
LEMMA DistributeUnassignedStep ==
    ASSUME Inv, NEW w \in Worker, DistributeUnassigned(w)
    PROVE  Inv'
<1>1. /\ req' = [req EXCEPT ![w] = Idle] /\ reported' = reported
  BY DEF DistributeUnassigned
<1>2. PICK new : /\ Numberings(new) # {}
                 /\ tasks' = With(NumberedRows(new))
                 /\ \A f \in {n.file : n \in new} : ~FileLocked(f)
                 /\ \A f \in File : f \notin {n.file : n \in new} =>
                                        files'[f] = files[f]
  BY DEF DistributeUnassigned
<1>3. DOMAIN NumberedRows(new) \subseteq Fresh
  BY <1>2, NumberedRowsType
<1>4. TypeOK'
  BY DistributeUnassignedType DEF Inv
<1>5. Idle.pc = "idle"
  BY DEF Idle
<1>6. CreatedDisjoint' /\ FileLockExclusive'
  BY <1>1, <1>5, LocksReleased
<1>7. ASSUME NEW x \in Worker \ {w}
      PROVE  Undisturbed(x)
  <2>1. req'[x] = req[x]
    BY <1>1 DEF Inv, TypeOK
  <2>2. HoldsFile(x, req[x].file) => files'[req[x].file] = files[req[x].file]
    <3>1. HoldsFile(x, req[x].file) => req[x].file \in File
      BY DEF HoldsFile, Writing, Inv, TypeOK, RequestOK
    <3> QED
      BY <1>2, <3>1 DEF FileLocked
  <2> QED
    BY <1>1, <1>2, <1>3, <2>1, <2>2, InsertUndisturbing
<1>8. req'[w].pc = "idle"
  BY <1>1, <1>5 DEF Inv, TypeOK
<1> QED
  BY <1>4, <1>6, <1>7, <1>8, NothingAtStake, RequestStep

-----------------------------------------------------------------------------
(* The invariant and what follows from it *)

\* The invariant holds of an empty database.
LEMMA InitInv == Init => Inv
<1> SUFFICES ASSUME Init
             PROVE  Inv
  OBVIOUS
<1>1. NewFile \in FileRow
  BY DEF NewFile, FileRow
<1>2. \A w \in Worker : req[w] = Idle
  BY DEF Init
<1>3. \A w \in Worker : req[w].pc = "idle"
  BY <1>2 DEF Idle
<1>4. \A w \in Worker : RequestOK(req[w])
  BY <1>2 DEF RequestOK, Idle
<1>5. TypeOK
  BY <1>1, <1>4, BoundAssumption DEF Init, TypeOK, Work
<1>6. \A w \in Worker : TaskSettled(w) /\ CreatedApart(w) /\ ReadyToCommit(w)
  BY <1>3 DEF TaskSettled, Starting, CreatedApart, ReadyToCommit, Writing
<1>7. CreatedDisjoint /\ FileLockExclusive
  BY <1>3 DEF CreatedDisjoint, FileLockExclusive, HoldsFile, Writing
<1> QED
  BY <1>5, <1>6, <1>7 DEF Inv

\* The invariant speaks of the variables only.
LEMMA StutterInv == Inv /\ UNCHANGED vars => Inv'
<1> SUFFICES ASSUME Inv, UNCHANGED vars
             PROVE  Inv'
  OBVIOUS
<1>1. TypeOK' /\ UNCHANGED <<tasks, files, req, reported>>
  BY DEF vars, Inv, TypeOK
<1>2. \A w \in Worker : Undisturbed(w)
  BY <1>1, SilentUndisturbing
<1> QED
  BY <1>1, <1>2, HandlerStep

\* Every handler preserves the invariant.
LEMMA NextInv == Inv /\ Next => Inv'
<1> SUFFICES ASSUME Inv, Next
             PROVE  Inv'
  OBVIOUS
<1>1. CASE PostJob
  BY <1>1, PostJobStep
<1>2. ASSUME NEW w \in Worker,
             FirstStart(w) \/ Restart(w) \/ StartReport(w) \/ StartCommit(w)
      PROVE  Inv'
  <2>1. CASE FirstStart(w)
    BY <2>1, StartJobStep DEF FirstStart, Inv, TypeOK
  <2>2. CASE Restart(w)
    BY <2>2, StartJobStep, ManageType DEF Restart, Inv
  <2> QED
    BY <1>2, <2>1, <2>2, StartReportStep, StartCommitStep
<1>3. ASSUME NEW u \in User, NextAnnotationTask(u)
      PROVE  Inv'
  BY <1>3, WorkStep
<1>4. ASSUME NEW t \in TaskId, NEW ann \in SUBSET Page, NEW val \in SUBSET Page,
             NEW fail \in SUBSET Page, SaveAnnotation(t, ann, val, fail)
      PROVE  Inv'
  BY <1>4, WorkStep
<1>5. ASSUME NEW w \in Worker,
             \/ \E t \in TaskId : FinishCheck(w, t)
             \/ FinishPrepare(w)
             \/ FinishReport(w)
             \/ FinishApply(w)
             \/ FinishFails(w)
             \/ FinishCommit(w)
             \/ FindUnassigned(w)
             \/ DistributeUnassigned(w)
             \/ Abandon(w)
      PROVE  Inv'
  BY <1>5, FinishCheckStep, FinishPrepareStep, FinishReportStep, FinishApplyStep, AbandonStep,
     FinishCommitStep, FindUnassignedStep, DistributeUnassignedStep
<1>6. ASSUME NEW f \in File, NEW ps \in (SUBSET Page) \ {{}}, NEW u \in User,
             NEW vld \in BOOLEAN,
             \/ PostTask(f, ps, u, vld)
             \/ \E t \in TaskId : UpdateTask(t, f, ps, u, vld)
      PROVE  Inv'
  BY <1>6, PostTaskStep, UpdateTaskStep
<1>7. ASSUME NEW t \in TaskId, DeleteTask(t)
      PROVE  Inv'
  <2>1. t \in Live /\ DeleteTasks({t}) /\ admin' \in 0..MaxAdmin
    BY <1>7, ManageType DEF DeleteTask, Inv
  <2> QED
    BY <2>1, DeleteTasksStep
<1>8. ASSUME NEW ts \in SUBSET TaskId, DeleteBatch(ts)
      PROVE  Inv'
  <2>1. ts \subseteq Live /\ DeleteTasks(ts) /\ admin' \in 0..MaxAdmin
    BY <1>8, ManageType DEF DeleteBatch, Inv
  <2> QED
    BY <2>1, DeleteTasksStep
<1>9. ASSUME NEW fs \in (SUBSET File) \ {{}}, NEW us \in SUBSET User, PostTasks(fs, us)
      PROVE  Inv'
  BY <1>9, PostTasksStep
<1> QED
  BY <1>1, <1>2, <1>3, <1>4, <1>5, <1>6, <1>7, <1>8, <1>9 DEF Next

(***************************************************************************)
(* What the requests of finish_task rely on between their statements       *)
(* holds whatever the other handlers do: the inductive invariant.          *)
(***************************************************************************)
THEOREM InvHolds == Spec => []Inv
<1>1. Inv /\ [Next]_vars => Inv'
  BY NextInv, StutterInv
<1> QED
  BY InitInv, <1>1, PTL DEF Spec

(***************************************************************************)
(* Every table and every request in progress is well typed, whatever       *)
(* finish_task, distribution and the manager's handlers interleave.        *)
(***************************************************************************)
THEOREM TypeCorrect == Spec => []TypeOK
<1>1. Inv => TypeOK
  BY DEF Inv
<1> QED
  BY InvHolds, <1>1, PTL

-----------------------------------------------------------------------------
(***************************************************************************)
(* A file's distributed pages are those its tasks cover, as long as        *)
(* post_tasks_for_unassigned_files, which writes back what it read before  *)
(* it had the lock, is not called.                                         *)
(***************************************************************************)

\* What the tasks of file f in table tt cover.
Covered(tt, f, vld) ==
    UNION {tt[t].pages : t \in {s \in TaskId : /\ tt[s].status \in Status
                                               /\ tt[s].file = f
                                               /\ tt[s].validation = vld}}

Matches(tt, row, f) ==
    /\ row.distributed_annotating = Covered(tt, f, FALSE)
    /\ row.distributed_validating = Covered(tt, f, TRUE)

NoneDistributing == \A w \in Worker : req[w].pc # "distributing"

MatchInv ==
    /\ Inv
    /\ NoneDistributing
    /\ \A f \in File : ValidationType # "validation_only" => Matches(tasks, files[f], f)

\* The tasks of table tt keep their file and pages, and rows r come in.
GrownBy(tt, r) ==
    /\ DOMAIN r \subseteq TaskId
    /\ \A t \in DOMAIN r : /\ tasks[t].status = "absent"
                           /\ tt[t] = r[t] /\ r[t].status \in Status
    /\ \A t \in TaskId \ DOMAIN r :
           \/ tt[t] = tasks[t]
           \/ /\ t \in Live /\ tt[t].status \in Status
              /\ tt[t].file = tasks[t].file
              /\ tt[t].pages = tasks[t].pages
              /\ tt[t].validation = tasks[t].validation

\* Rows that come in add their pages to what a file covers ...
LEMMA CoveredGrown ==
    ASSUME NEW tt, NEW r, GrownBy(tt, r), NEW f, NEW vld
    PROVE  Covered(tt, f, vld) = Covered(tasks, f, vld) \cup PagesOf(r, f, vld)
<1> DEFINE In(s) == s.status \in Status /\ s.file = f /\ s.validation = vld
<1>1. \A t \in DOMAIN r : tasks[t].status \notin Status
  BY DEF GrownBy, Status
<1>2. \A t \in TaskId \ DOMAIN r :
          (In(tt[t]) <=> In(tasks[t])) /\ (In(tt[t]) => tt[t].pages = tasks[t].pages)
  BY DEF GrownBy, Live
<1>3. \A t \in DOMAIN r : In(tt[t]) <=> r[t].file = f /\ r[t].validation = vld
  BY DEF GrownBy
<1>4. \A t \in DOMAIN r : ~In(tasks[t]) /\ tt[t] = r[t] /\ t \in TaskId
  BY <1>1 DEF GrownBy
<1> HIDE DEF In
<1>5. Covered(tt, f, vld) = UNION {tt[t].pages : t \in {s \in TaskId : In(tt[s])}}
      /\ Covered(tasks, f, vld) = UNION {tasks[t].pages : t \in {s \in TaskId : In(tasks[s])}}
  BY DEF Covered, In
<1>6. ASSUME NEW p
      PROVE  p \in Covered(tt, f, vld)
                 <=> p \in Covered(tasks, f, vld) \cup PagesOf(r, f, vld)
  <2>1. p \in Covered(tt, f, vld) <=> \E t \in TaskId : In(tt[t]) /\ p \in tt[t].pages
    BY <1>5
  <2>2. p \in Covered(tasks, f, vld)
            <=> \E t \in TaskId : In(tasks[t]) /\ p \in tasks[t].pages
    BY <1>5
  <2>3. p \in PagesOf(r, f, vld)
            <=> \E t \in DOMAIN r : r[t].file = f /\ r[t].validation = vld
                                    /\ p \in r[t].pages
    BY DEF PagesOf
  <2> QED
    BY <1>2, <1>3, <1>4, <2>1, <2>2, <2>3
<1> QED
  BY <1>6

\* ... just as update_files does ...
LEMMA MatchesGrown ==
    ASSUME NEW tt, NEW r, GrownBy(tt, r), NEW f, NEW row \in FileRow,
           Matches(tasks, row, f)
    PROVE  Matches(tt, UpdateFile(row, f, r), f)
<1>1. /\ UpdateFile(row, f, r).distributed_annotating =
             row.distributed_annotating \cup PagesOf(r, f, FALSE)
      /\ UpdateFile(row, f, r).distributed_validating =
             row.distributed_validating \cup PagesOf(r, f, TRUE)
  BY DEF UpdateFile, FileRow
<1>2. \A vld : Covered(tt, f, vld) = Covered(tasks, f, vld) \cup PagesOf(r, f, vld)
  BY CoveredGrown
<1>3. /\ row.distributed_annotating = Covered(tasks, f, FALSE)
      /\ row.distributed_validating = Covered(tasks, f, TRUE)
  BY DEF Matches
<1> HIDE DEF Covered, PagesOf, UpdateFile
<1> QED
  BY <1>1, <1>2, <1>3 DEF Matches

\* ... and recalculate_file_pages starts from the table.
LEMMA MatchesRecalculated ==
    ASSUME NEW tt, NEW f, NEW row \in FileRow
    PROVE  Matches(tt, RecalculateFile(row, f, tt), f)
<1> DEFINE left == [t \in {s \in TaskId : tt[s].status \in Status} |-> tt[t]]
<1>1. \A vld : PagesOf(left, f, vld) = Covered(tt, f, vld)
  BY DEF PagesOf, Covered
<1>2. /\ RecalculateFile(row, f, tt).distributed_annotating = PagesOf(left, f, FALSE)
      /\ RecalculateFile(row, f, tt).distributed_validating = PagesOf(left, f, TRUE)
  BY DEF RecalculateFile, FileRow
<1> QED
  BY <1>1, <1>2 DEF Matches

\* A row whose tasks keep still covers them.
LEMMA MatchesKept ==
    ASSUME NEW tt, NEW f, NEW row, Matches(tasks, row, f),
           \A t \in TaskId :
               \/ tt[t] = tasks[t]
               \/ /\ tt[t].status \in Status => tt[t].file # f
                  /\ tasks[t].status \in Status => tasks[t].file # f
    PROVE  Matches(tt, row, f)
<1>1. ASSUME NEW vld
      PROVE  Covered(tt, f, vld) = Covered(tasks, f, vld)
  <2>1. ASSUME NEW p
        PROVE  p \in Covered(tt, f, vld) <=> p \in Covered(tasks, f, vld)
    BY DEF Covered
  <2> QED
    BY <2>1
<1> QED
  BY <1>1 DEF Matches

\* The rows of a distribution are not deleted ones.
LEMMA BatchRowsLive ==
    ASSUME NEW fs \in SUBSET File, NEW Options,
           \A f \in fs : \A new \in Options[f] : new \subseteq FileTasks(f),
           NEW batch \in Batches(fs, Options), Numberings(batch) # {}
    PROVE  \A t \in DOMAIN NumberedRows(batch) : NumberedRows(batch)[t].status \in Status
<1>1. \A n \in batch : \E f \in fs : n \in FileTasks(f)
  BY BatchesType
<1> QED
  BY <1>1, NumberedRowsType DEF FileTasks

\* The pages tables of a step that inserts rows.
FilesMatch(tt, ff) ==
    \A f \in File : ValidationType # "validation_only" => Matches(tt, ff[f], f)

\* create_tasks keeps the pages of the File rows equal to what is covered.
LEMMA InsertMatches ==
    ASSUME MatchInv, NEW new, Numberings(new) # {}, RowsOK(NumberedRows(new)),
           \A t \in DOMAIN NumberedRows(new) : NumberedRows(new)[t].status \in Status,
           InsertTasks(NumberedRows(new))
    PROVE  FilesMatch(tasks', files')
<1> DEFINE r == NumberedRows(new)
<1>1. DOMAIN r \subseteq Fresh
  BY NumberedRowsType
<1>2. GrownBy(With(r), r)
  BY <1>1 DEF GrownBy, With, Fresh, RowsOK
<1> HIDE DEF r
<1>3. ASSUME NEW f \in File, ValidationType # "validation_only"
      PROVE  Matches(With(r), UpdateFile(files[f], f, r), f)
  <2>1. files[f] \in FileRow /\ Matches(tasks, files[f], f)
    BY <1>3 DEF MatchInv, Inv, TypeOK
  <2> QED
    BY <1>2, <2>1, MatchesGrown
<1>4. tasks' = With(r) /\ files' = [f \in File |-> UpdateFile(files[f], f, r)]
  BY DEF InsertTasks, r
<1> QED
  BY <1>3, <1>4 DEF FilesMatch

\* So does a change of status ...
LEMMA StatusMatches ==
    ASSUME MatchInv, files' = files,
           \A t \in TaskId :
               \/ tasks'[t] = tasks[t]
               \/ /\ t \in Live /\ tasks'[t].status \in Status
                  /\ tasks'[t].file = tasks[t].file
                  /\ tasks'[t].pages = tasks[t].pages
                  /\ tasks'[t].validation = tasks[t].validation
    PROVE  FilesMatch(tasks', files')
<1> DEFINE none == [t \in {} |-> Absent]
<1>1. GrownBy(tasks', none)
  BY DEF GrownBy
<1>2. \A f, vld : PagesOf(none, f, vld) = {}
  BY PagesOfNone
<1>3. ASSUME NEW f, NEW vld
      PROVE  Covered(tasks', f, vld) = Covered(tasks, f, vld)
  <2>1. Covered(tasks', f, vld) = Covered(tasks, f, vld) \cup PagesOf(none, f, vld)
    BY <1>1, CoveredGrown
  <2> QED
    BY <1>2, <2>1
<1> QED
  BY <1>3 DEF MatchInv, FilesMatch, Matches

\* ... the commit of finish_task ...
LEMMA CommitMatches ==
    ASSUME MatchInv, NEW w \in Worker, FinishCommit(w)
    PROVE  FilesMatch(tasks', files')
<1> DEFINE r == req[w]
<1>1. /\ r.pc = "applied" /\ RequestOK(r) /\ CreatedApart(w) /\ ReadyToCommit(w)
      /\ files' = [files EXCEPT ![r.file] = r.row]
  BY DEF FinishCommit, MatchInv, Inv, TypeOK
<1>2. GrownBy(tasks', r.created)
  <2>1. DOMAIN r.created \subseteq TaskId
    BY <1>1 DEF RequestOK, RowsOK
  <2>2. \A t \in DOMAIN r.created : /\ tasks[t].status = "absent"
                                    /\ r.created[t].status \in Status
    BY <1>1 DEF CreatedApart, Writing
  <2> QED
    BY <2>1, <2>2, CommittedRows DEF GrownBy, MatchInv
<1>3. ASSUME NEW f \in File, ValidationType # "validation_only"
      PROVE  Matches(tasks', files'[f], f)
  <2>1. Matches(tasks, files[f], f) /\ files[f] \in FileRow
    BY <1>3 DEF MatchInv, Inv, TypeOK
  <2>2. \A vld : Covered(tasks', f, vld)
                     = Covered(tasks, f, vld) \cup PagesOf(r.created, f, vld)
    BY <1>2, CoveredGrown
  <2>3. CASE f = r.file
    <3>1. files'[f] = r.row
      BY <1>1, <2>3 DEF MatchInv, Inv, TypeOK
    <3>2. /\ r.row.distributed_annotating =
                 files[f].distributed_annotating \cup PagesOf(r.created, f, FALSE)
          /\ r.row.distributed_validating =
                 files[f].distributed_validating \cup PagesOf(r.created, f, TRUE)
      BY <1>1, <2>3 DEF ReadyToCommit
    <3> QED
      BY <2>1, <2>2, <3>1, <3>2 DEF Matches
  <2>4. CASE f # r.file
    <3>1. files'[f] = files[f]
      BY <1>1, <2>4 DEF MatchInv, Inv, TypeOK
    <3>2. \A t \in DOMAIN r.created : r.created[t].file # f
      BY <1>1, <2>4 DEF CreatedApart, Writing
    <3>3. \A vld : PagesOf(r.created, f, vld) = {}
      BY <3>2, PagesOfNone
    <3> QED
      BY <2>1, <2>2, <3>1, <3>3 DEF Matches
  <2> QED
    BY <2>3, <2>4
<1> QED
  BY <1>3 DEF FilesMatch

\* ... the deletion of tasks ...
LEMMA DeleteMatches ==
    ASSUME MatchInv, NEW ts \in SUBSET Live, DeleteTasks(ts)
    PROVE  FilesMatch(tasks', files')
<1>1. ASSUME NEW f \in File, ValidationType # "validation_only"
      PROVE  Matches(tasks', files'[f], f)
  <2>1. files[f] \in FileRow /\ Matches(tasks, files[f], f)
    BY <1>1 DEF MatchInv, Inv, TypeOK
  <2>2. CASE f \in {tasks[t].file : t \in ts}
    <3>1. files'[f] = RecalculateFile(files[f], f, tasks')
      BY <2>2 DEF DeleteTasks
    <3> QED
      BY <2>1, <3>1, MatchesRecalculated
  <2>3. CASE f \notin {tasks[t].file : t \in ts}
    <3>1. files'[f] = files[f]
      BY <2>3 DEF DeleteTasks
    <3>2. \A t \in TaskId \ ts : tasks'[t] = tasks[t]
      BY DEF DeleteTasks
    <3>3. \A t \in ts : /\ tasks[t].file # f
                        /\ tasks'[t] = [tasks[t] EXCEPT !.status = "deleted"]
      BY <2>3 DEF DeleteTasks, Live
    <3>4. \A t \in ts : tasks[t] \in Task
      BY LiveStatus DEF MatchInv, Inv
    <3>5. \A t \in ts : tasks'[t].file = tasks[t].file
      BY <3>3, <3>4 DEF Task
    <3>6. \A t \in TaskId :
              \/ tasks'[t] = tasks[t]
              \/ tasks'[t].file # f /\ tasks[t].file # f
      BY <3>2, <3>3, <3>5
    <3>7. Matches(tasks', files[f], f)
      BY <2>1, <3>6, MatchesKept
    <3> QED
      BY <3>1, <3>7
  <2> QED
    BY <2>2, <2>3
<1> QED
  BY <1>1 DEF FilesMatch

\* ... and update_task.
LEMMA UpdateMatches ==
    ASSUME MatchInv, NEW t \in TaskId, NEW f \in File, NEW ps \in SUBSET Page,
           NEW u \in User, NEW vld \in BOOLEAN, UpdateTask(t, f, ps, u, vld)
    PROVE  FilesMatch(tasks', files')
<1> DEFINE old == tasks[t]
           new == [old EXCEPT !.file = f, !.pages = ps, !.user = u, !.validation = vld]
<1>1. /\ t \in Live /\ old \in Task /\ tasks' = [tasks EXCEPT ![t] = new]
      /\ files \in [File -> FileRow] /\ old.file \in File
  BY LiveStatus DEF UpdateTask, MatchInv, Inv, TypeOK, Task
<1> DEFINE left == [files EXCEPT ![old.file] = RecalculateFile(files[old.file], old.file, tasks')]
<1>2. files' = IF f = old.file THEN left
               ELSE [left EXCEPT ![f] = UpdateFile(left[f], f, [x \in {t} |-> new])]
  BY <1>1 DEF UpdateTask
<1>3. /\ tasks'[t] = new /\ \A s \in TaskId \ {t} : tasks'[s] = tasks[s]
      /\ new.file = f /\ new.pages = ps /\ new.validation = vld
      /\ new.status = old.status /\ old.status \in Status
  BY <1>1, LiveStatus DEF MatchInv, Inv, TypeOK, Task
<1>4. ASSUME NEW g \in File, ValidationType # "validation_only"
      PROVE  Matches(tasks', files'[g], g)
  <2>1. files[g] \in FileRow /\ Matches(tasks, files[g], g)
    BY <1>1, <1>4 DEF MatchInv
  <2>2. CASE g = old.file
    <3>1. files'[g] = RecalculateFile(files[g], g, tasks')
      BY <1>1, <1>2, <2>2
    <3> QED
      BY <2>1, <3>1, MatchesRecalculated
  <2>3. CASE g # old.file /\ g # f
    <3>1. files'[g] = files[g]
      BY <1>1, <1>2, <2>3
    <3> QED
      BY <1>3, <2>1, <2>3, <3>1, MatchesKept
  <2>4. CASE g # old.file /\ g = f
    <3> DEFINE r == [x \in {t} |-> new]
    <3>1. files'[g] = UpdateFile(files[g], g, r)
      BY <1>1, <1>2, <2>4
    <3>2. ASSUME NEW b
          PROVE  Covered(tasks', g, b) = Covered(tasks, g, b) \cup PagesOf(r, g, b)
      <4>1. ASSUME NEW p
            PROVE  p \in Covered(tasks', g, b)
                       <=> p \in Covered(tasks, g, b) \cup PagesOf(r, g, b)
        <5>1. p \in Covered(tasks', g, b)
                  <=> \E s \in TaskId : /\ tasks'[s].status \in Status
                                        /\ tasks'[s].file = g
                                        /\ tasks'[s].validation = b
                                        /\ p \in tasks'[s].pages
          BY DEF Covered
        <5>2. p \in Covered(tasks, g, b)
                  <=> \E s \in TaskId : /\ tasks[s].status \in Status
                                        /\ tasks[s].file = g
                                        /\ tasks[s].validation = b
                                        /\ p \in tasks[s].pages
          BY DEF Covered
        <5>3. p \in PagesOf(r, g, b)
                  <=> new.file = g /\ new.validation = b /\ p \in new.pages
          BY DEF PagesOf
        <5> HIDE DEF new, r, Status
        <5> QED
          BY <1>3, <2>4, <5>1, <5>2, <5>3
      <4> QED
        BY <4>1
    <3>3. /\ UpdateFile(files[g], g, r).distributed_annotating =
                 files[g].distributed_annotating \cup PagesOf(r, g, FALSE)
          /\ UpdateFile(files[g], g, r).distributed_validating =
                 files[g].distributed_validating \cup PagesOf(r, g, TRUE)
      BY <2>1 DEF UpdateFile, FileRow
    <3> HIDE DEF r
    <3> QED
      BY <2>1, <3>1, <3>2, <3>3 DEF Matches
  <2> QED
    BY <2>2, <2>3, <2>4
<1> QED
  BY <1>4 DEF FilesMatch

\* A handler that is not enabled is never in progress.
LEMMA NoneDistributingKept ==
    ASSUME MatchInv, Next, "unassigned" \notin AdminOps
    PROVE  NoneDistributing'
<1>1. \A w \in Worker : ~FindUnassigned(w)
  BY DEF FindUnassigned, Manage
<1>2. ASSUME req' = req
      PROVE  NoneDistributing'
  BY <1>2 DEF MatchInv, NoneDistributing
<1>3. ASSUME NEW w \in Worker, NEW r, req' = [req EXCEPT ![w] = r], r.pc # "distributing"
      PROVE  NoneDistributing'
  BY <1>3 DEF MatchInv, NoneDistributing, Inv, TypeOK
<1>4. PostJob => req' = req
  BY DEF PostJob
<1>14. ASSUME NEW w \in Worker,
              StartJob(w) \/ StartReport(w) \/ StartCommit(w) \/ FinishReport(w)
       PROVE  NoneDistributing'
  <2>1. \A x \in Worker \ {w} : req'[x] = req[x]
    BY <1>14 DEF StartJob, StartReport, StartCommit, FinishReport, MatchInv, Inv, TypeOK
  <2>2. req'[w].pc # "distributing"
    BY <1>14 DEF StartJob, StartReport, StartCommit, FinishReport, MatchInv, Inv, TypeOK, Idle
  <2> QED
    BY <2>1, <2>2 DEF NoneDistributing, MatchInv
<1>12. ASSUME NEW u \in User, NextAnnotationTask(u)
       PROVE  req' = req
  BY <1>12 DEF NextAnnotationTask
<1>13. ASSUME NEW t \in TaskId, NEW ann \in SUBSET Page, NEW val \in SUBSET Page,
              NEW fail \in SUBSET Page, SaveAnnotation(t, ann, val, fail)
       PROVE  req' = req
  BY <1>13 DEF SaveAnnotation
<1>9. ASSUME NEW f \in File, NEW ps \in (SUBSET Page) \ {{}}, NEW u \in User,
             NEW vld \in BOOLEAN,
             \/ PostTask(f, ps, u, vld)
             \/ \E t \in TaskId : UpdateTask(t, f, ps, u, vld)
      PROVE  req' = req
  BY <1>9 DEF PostTask, UpdateTask
<1>10. ASSUME NEW ts, DeleteTasks(ts)
       PROVE  req' = req
  BY <1>10 DEF DeleteTasks
<1>11. ASSUME NEW fs \in (SUBSET File) \ {{}}, NEW us \in SUBSET User, PostTasks(fs, us)
       PROVE  req' = req
  BY <1>11 DEF PostTasks
<1>5. ASSUME NEW w \in Worker, NEW t \in TaskId, FinishCheck(w, t)
      PROVE  NoneDistributing'
  <2> DEFINE marked(m) == {p \in tasks[t].pages :
                              tasks[t].validation /\ tasks[t].marks[p] = m}
             r == [pc |-> "checked", task |-> t, file |-> tasks[t].file,
                   validated |-> marked("validated"), failed |-> marked("failed"),
                   edited |-> marked("annotated")]
  <2>1. req' = [req EXCEPT ![w] = r]
    BY <1>5 DEF FinishCheck
  <2>2. r.pc = "checked"
    OBVIOUS
  <2> HIDE DEF r
  <2> QED
    BY <1>3, <2>1, <2>2
<1>6. ASSUME NEW w \in Worker, FinishPrepare(w)
      PROVE  NoneDistributing'
  <2>1. \A x \in Worker \ {w} : req'[x] = req[x]
    BY <1>6 DEF FinishPrepare, MatchInv, Inv, TypeOK
  <2>2. req'[w].pc = "counted"
    BY <1>6 DEF FinishPrepare, MatchInv, Inv, TypeOK
  <2> QED
    BY <2>1, <2>2 DEF NoneDistributing, MatchInv
<1>7. ASSUME NEW w \in Worker, FinishApply(w)
      PROVE  NoneDistributing'
  <2>1. \A x \in Worker \ {w} : req'[x] = req[x]
    BY <1>7 DEF FinishApply, MatchInv, Inv, TypeOK
  <2>2. req'[w].pc = "applied"
    BY <1>7 DEF FinishApply, MatchInv, Inv, TypeOK
  <2> QED
    BY <2>1, <2>2 DEF NoneDistributing, MatchInv
<1>8. ASSUME NEW w \in Worker,
             FinishFails(w) \/ FinishCommit(w) \/ Abandon(w) \/ DistributeUnassigned(w)
      PROVE  NoneDistributing'
  <2>1. req' = [req EXCEPT ![w] = Idle] /\ Idle.pc = "idle"
    BY <1>8 DEF FinishFails, FinishCommit, Abandon, DistributeUnassigned, Idle
  <2> QED
    BY <1>3, <2>1
<1> QED
  BY <1>1, <1>2, <1>4, <1>5, <1>6, <1>7, <1>8, <1>9, <1>10, <1>11,
     <1>12, <1>13, <1>14 DEF Next, FirstStart, Restart, DeleteTask, DeleteBatch

\* Every handler but post_tasks_for_unassigned_files keeps them equal.
LEMMA NextMatches ==
    ASSUME MatchInv, Next, "unassigned" \notin AdminOps
    PROVE  FilesMatch(tasks', files')
<1>1. CASE PostJob
  <2> DEFINE k == IF ValidationType = "extensive_coverage" THEN Coverage ELSE 1
             options == [f \in File |-> Distribute(f, Page, Page, Annotator, Validator, k)]
  <2>1. PICK new \in {{}} \cup Batches(File, options) :
            Numberings(new) # {} /\ InsertTasks(NumberedRows(new))
    BY <1>1 DEF PostJob
  <2>2. /\ RowsOK(NumberedRows(new))
        /\ \A t \in DOMAIN NumberedRows(new) : NumberedRows(new)[t].status \in Status
    <3>1. CASE new = {}
      BY <2>1, <3>1, NumberedRowsOK, NumberedRowsType
    <3>2. CASE new \in Batches(File, options)
      <4>1. \A f \in File : \A x \in options[f] : x \subseteq FileTasks(f)
        BY DistributeType
      <4> HIDE DEF options
      <4> QED
        BY <2>1, <3>2, <4>1, BatchRows, BatchRowsLive
    <3> QED
      BY <2>1, <3>1, <3>2
  <2> QED
    BY <2>1, <2>2, InsertMatches
<1>2. ASSUME NEW w \in Worker, StartCommit(w)
      PROVE  FilesMatch(tasks', files')
  <2>1. files' = files /\ tasks' = StartedTasks(req[w].started)
    BY <1>2 DEF StartCommit
  <2>4. req[w].started \subseteq Live
    BY <1>2 DEF StartCommit, MatchInv, Inv, TaskSettled, Starting
  <2>2. \A t \in Live : tasks[t] \in Task
    BY LiveStatus DEF MatchInv, Inv
  <2>3. \A t \in TaskId :
            \/ tasks'[t] = tasks[t]
            \/ /\ t \in Live /\ tasks'[t].status \in Status
               /\ tasks'[t].file = tasks[t].file
               /\ tasks'[t].pages = tasks[t].pages
               /\ tasks'[t].validation = tasks[t].validation
    BY <2>1, <2>2, <2>4 DEF StartedTasks, Task, Status
  <2> QED
    BY <2>1, <2>3, StatusMatches
<1>3. ASSUME NEW u \in User, NextAnnotationTask(u)
      PROVE  FilesMatch(tasks', files')
  <2>1. PICK t \in Live : tasks' = [tasks EXCEPT ![t].status = "in_progress"]
    BY <1>3 DEF NextAnnotationTask
  <2>2. tasks[t] \in Task /\ files' = files
    BY <1>3, LiveStatus DEF MatchInv, Inv, NextAnnotationTask
  <2>3. \A s \in TaskId :
            \/ tasks'[s] = tasks[s]
            \/ /\ s \in Live /\ tasks'[s].status \in Status
               /\ tasks'[s].file = tasks[s].file
               /\ tasks'[s].pages = tasks[s].pages
               /\ tasks'[s].validation = tasks[s].validation
    BY <2>1, <2>2 DEF Task, Status, MatchInv, Inv, TypeOK
  <2> QED
    BY <2>2, <2>3, StatusMatches
<1>4. ASSUME NEW t \in TaskId, NEW ann \in SUBSET Page, NEW val \in SUBSET Page,
             NEW fail \in SUBSET Page, SaveAnnotation(t, ann, val, fail)
      PROVE  FilesMatch(tasks', files')
  <2> DEFINE mark(p) == IF p \in ann THEN "annotated"
                        ELSE IF p \in val THEN "validated"
                        ELSE IF p \in fail THEN "failed" ELSE tasks[t].marks[p]
             marks == [p \in Page |-> mark(p)]
  <2>1. tasks' = [tasks EXCEPT ![t].status = "in_progress",
                               ![t].marks = marks, ![t].edited = @ \cup ann]
    BY <1>4 DEF SaveAnnotation
  <2>2. t \in Live /\ tasks[t] \in Task /\ files' = files
    BY <1>4, LiveStatus DEF MatchInv, Inv, SaveAnnotation
  <2> HIDE DEF marks
  <2>3. \A s \in TaskId :
            \/ tasks'[s] = tasks[s]
            \/ /\ s \in Live /\ tasks'[s].status \in Status
               /\ tasks'[s].file = tasks[s].file
               /\ tasks'[s].pages = tasks[s].pages
               /\ tasks'[s].validation = tasks[s].validation
    BY <2>1, <2>2 DEF Task, Status, MatchInv, Inv, TypeOK
  <2> QED
    BY <2>2, <2>3, StatusMatches
<1>5. ASSUME UNCHANGED <<tasks, files>>
      PROVE  FilesMatch(tasks', files')
  BY <1>5 DEF MatchInv, FilesMatch
<1>6. ASSUME NEW w \in Worker,
             \/ \E t \in TaskId : FinishCheck(w, t)
             \/ FinishPrepare(w) \/ FinishReport(w) \/ FinishApply(w) \/ FinishFails(w)
             \/ StartJob(w) \/ StartReport(w)
             \/ FindUnassigned(w) \/ Abandon(w)
      PROVE  FilesMatch(tasks', files')
  BY <1>5, <1>6 DEF FinishCheck, FinishPrepare, FinishReport, FinishApply, FinishFails,
     StartJob, StartReport, FindUnassigned, Abandon
<1>7. ASSUME NEW w \in Worker
      PROVE  ~DistributeUnassigned(w)
  BY DEF DistributeUnassigned, MatchInv, NoneDistributing
<1>8. ASSUME NEW f \in File, NEW ps \in (SUBSET Page) \ {{}}, NEW u \in User,
             NEW vld \in BOOLEAN, PostTask(f, ps, u, vld)
      PROVE  FilesMatch(tasks', files')
  <2> DEFINE new == {NewTask(f, ps, u, vld, "pending")}
  <2>1. new \subseteq FileTasks(f)
    BY NewTaskType DEF Status
  <2>2. Numberings(new) # {} /\ InsertTasks(NumberedRows(new))
    BY <1>8 DEF PostTask
  <2> HIDE DEF new
  <2>3. \A t \in DOMAIN NumberedRows(new) : NumberedRows(new)[t].status \in Status
    BY <2>1, <2>2, NumberedRowsType DEF FileTasks
  <2>4. RowsOK(NumberedRows(new))
    BY <2>1, <2>2, NumberedRowsOK DEF FileTasks
  <2> QED
    BY <2>2, <2>3, <2>4, InsertMatches
<1>9. ASSUME NEW fs \in (SUBSET File) \ {{}}, NEW us \in SUBSET User, PostTasks(fs, us)
      PROVE  FilesMatch(tasks', files')
  <2> DEFINE options == [f \in fs |->
                 Distribute(f, Page, Page, us \cap Annotator, us \cap Validator, 1)]
  <2>1. PICK new \in Batches(fs, options) :
            Numberings(new) # {} /\ InsertTasks(NumberedRows(new))
    BY <1>9 DEF PostTasks
  <2>2. \A f \in fs : \A x \in options[f] : x \subseteq FileTasks(f)
    BY DistributeType
  <2> HIDE DEF options
  <2>3. /\ RowsOK(NumberedRows(new))
        /\ \A t \in DOMAIN NumberedRows(new) : NumberedRows(new)[t].status \in Status
    BY <2>1, <2>2, BatchRows, BatchRowsLive
  <2> QED
    BY <2>1, <2>3, InsertMatches
<1>10. ASSUME NEW ts \in SUBSET Live, DeleteTasks(ts)
       PROVE  FilesMatch(tasks', files')
  BY <1>10, DeleteMatches
<1>11. ASSUME NEW w \in Worker, FinishCommit(w)
       PROVE  FilesMatch(tasks', files')
  BY <1>11, CommitMatches
<1>12. ASSUME NEW t \in TaskId, NEW f \in File, NEW ps \in SUBSET Page,
              NEW u \in User, NEW vld \in BOOLEAN, UpdateTask(t, f, ps, u, vld)
       PROVE  FilesMatch(tasks', files')
  BY <1>12, UpdateMatches
<1>13. ASSUME NEW t \in TaskId, DeleteTask(t)
       PROVE  FilesMatch(tasks', files')
  <2>1. {t} \in SUBSET Live /\ DeleteTasks({t})
    BY <1>13 DEF DeleteTask
  <2> QED
    BY <2>1, <1>10
<1>14. ASSUME NEW ts \in SUBSET TaskId, DeleteBatch(ts)
       PROVE  FilesMatch(tasks', files')
  <2>1. ts \in SUBSET Live /\ DeleteTasks(ts)
    BY <1>14 DEF DeleteBatch
  <2> QED
    BY <2>1, <1>10
<1> QED
  BY <1>1, <1>2, <1>3, <1>4, <1>6, <1>7, <1>8, <1>9, <1>11, <1>12, <1>13, <1>14
     DEF Next, FirstStart, Restart

\* They are equal in an empty database.
LEMMA InitMatches == Init => MatchInv
<1> SUFFICES ASSUME Init
             PROVE  MatchInv
  OBVIOUS
<1>1. NoneDistributing
  BY DEF Init, NoneDistributing, Idle
<1>2. ASSUME NEW f \in File, ValidationType # "validation_only"
      PROVE  Matches(tasks, files[f], f)
  <2>1. \A vld : Covered(tasks, f, vld) = {}
    BY DEF Covered, Init, Absent, Status
  <2>2. files[f] = NewFile
    BY DEF Init
  <2>3. NewFile.distributed_annotating = {} /\ NewFile.distributed_validating = {}
    BY <1>2 DEF NewFile
  <2> QED
    BY <2>1, <2>2, <2>3 DEF Matches
<1> QED
  BY <1>1, <1>2, InitInv DEF MatchInv

\* The invariant with the pages of the File rows.
LEMMA MatchInvIsInvariant ==
    ASSUME "unassigned" \notin AdminOps
    PROVE  Spec => []MatchInv
<1>1. ASSUME MatchInv, Next
      PROVE  MatchInv'
  BY <1>1, NextInv, NextMatches, NoneDistributingKept DEF MatchInv, FilesMatch
<1>2. ASSUME MatchInv, UNCHANGED vars
      PROVE  MatchInv'
  <2>1. Inv'
    BY <1>2, StutterInv DEF MatchInv
  <2>2. tasks' = tasks /\ files' = files /\ req' = req
    BY <1>2 DEF vars
  <2>3. NoneDistributing'
    BY <1>2, <2>2 DEF MatchInv, NoneDistributing
  <2>4. \A f \in File : ValidationType # "validation_only" =>
                            Matches(tasks', files'[f], f)
    BY <1>2, <2>2 DEF MatchInv
  <2> QED
    BY <2>1, <2>3, <2>4 DEF MatchInv
<1>3. MatchInv /\ [Next]_vars => MatchInv'
  BY <1>1, <1>2
<1> QED
  BY InitMatches, <1>3, PTL DEF Spec

(***************************************************************************)
(* As long as post_tasks_for_unassigned_files is not called, the           *)
(* distributed pages of a file are those its tasks cover, for any number   *)
(* of concurrent finish_task requests, insertions, moves and deletions.    *)
(***************************************************************************)
THEOREM DistributedPagesMatch ==
    ASSUME "unassigned" \notin AdminOps
    PROVE  Spec => []DistributedPagesMatchTasks
<1>1. MatchInv => DistributedPagesMatchTasks
  BY DEF MatchInv, Matches, Covered, DistributedPagesMatchTasks, TasksOf, Live
<1> QED
  BY MatchInvIsInvariant, <1>1, PTL

-----------------------------------------------------------------------------
(* The rows of a batch *)

\* A set of users who share pages is finite.
LEMMA UsersFinite ==
    ASSUME NEW us \in SUBSET User
    PROVE  IsFiniteSet(us) /\ Cardinality(us) \in Nat
BY FS_Subset, FS_CardinalityType, JobAssumption

\* A new row of file f, as a distribution makes it.
Row(n, f, vld, s) == n = NewTask(f, n.pages, n.user, vld, s) /\ n.pages # {}

\* A task of a distribution has the pages its user was given.
LEMMA TasksForRows ==
    ASSUME NEW f, NEW c, NEW vld \in BOOLEAN, NEW s, NEW n \in TasksFor(f, c, vld, s)
    PROVE  /\ Row(n, f, vld, s)
           /\ n.pages = {p \in DOMAIN c : n.user \in c[p]}
<1>1. PICK u \in UNION {c[p] : p \in DOMAIN c} :
          n = NewTask(f, {p \in DOMAIN c : u \in c[p]}, u, vld, s)
  BY DEF TasksFor
<1>2. n.pages = {p \in DOMAIN c : u \in c[p]} /\ n.user = u
  BY <1>1 DEF NewTask
<1>3. n.pages # {}
  BY <1>1, <1>2
<1> QED
  BY <1>1, <1>2, <1>3 DEF Row

\* A page that is given to one user is in one task.
LEMMA OneUserEach ==
    ASSUME NEW f, NEW e, NEW c \in Shares(e, 1), NEW vld \in BOOLEAN, NEW s,
           NEW m \in TasksFor(f, c, vld, s), NEW n \in TasksFor(f, c, vld, s),
           m.pages \cap n.pages # {}
    PROVE  m = n
<1>1. PICK p \in DOMAIN c : m.user \in c[p] /\ n.user \in c[p]
  BY TasksForRows
<1>2. c[p] \in SUBSET User /\ Cardinality(c[p]) = 1
  <2>1. p \in DOMAIN e /\ c[p] \in SUBSET User
    BY <1>1 DEF Shares
  <2>2. Cardinality(c[p]) = IF e[p] = {} THEN 0 ELSE 1
    BY <2>1 DEF Shares
  <2>3. Cardinality(c[p]) # 0
    BY <1>1, <2>1, UsersFinite, FS_EmptySet
  <2> QED
    BY <2>1, <2>2, <2>3
<1>3. \E x : c[p] = {x}
  BY <1>2, UsersFinite, FS_Singleton
<1>4. m.user = n.user
  BY <1>1, <1>3
<1>5. m.pages = n.pages
  <2>1. m.pages = {q \in DOMAIN c : m.user \in c[q]}
    BY TasksForRows
  <2>2. n.pages = {q \in DOMAIN c : n.user \in c[q]}
    BY TasksForRows
  <2> QED
    BY <1>4, <2>1, <2>2
<1>6. m = NewTask(f, m.pages, m.user, vld, s) /\ n = NewTask(f, n.pages, n.user, vld, s)
  BY TasksForRows DEF Row
<1> QED
  BY <1>4, <1>5, <1>6

\* A page somebody is eligible for is given to him or to another.
LEMMA PageGiven ==
    ASSUME NEW f, NEW e, NEW c \in Shares(e, 1), NEW vld \in BOOLEAN, NEW s,
           NEW p \in DOMAIN e, e[p] # {}
    PROVE  \E n \in TasksFor(f, c, vld, s) : p \in n.pages
<1>1. c[p] \in SUBSET User /\ Cardinality(c[p]) = 1 /\ DOMAIN c = DOMAIN e
  BY DEF Shares
<1>2. PICK u : u \in c[p]
  BY <1>1, FS_EmptySet
<1> DEFINE ps == {q \in DOMAIN c : u \in c[q]}
           n == NewTask(f, ps, u, vld, s)
<1>3. p \in ps /\ u \in UNION {c[q] : q \in DOMAIN c}
  BY <1>1, <1>2
<1>4. n \in TasksFor(f, c, vld, s)
  BY <1>3 DEF TasksFor
<1>5. n.pages = ps
  BY DEF NewTask
<1> QED
  BY <1>3, <1>4, <1>5

(* What the rows of a batch are; the lemmas hand these on unexpanded. *)

RowsToAnnotate(new, f, s, ps) ==
    \A n \in new : /\ n.file = f /\ ~n.validation /\ n.status = s
                   /\ n.pages # {} /\ n.pages \subseteq ps

RowsToValidate(new, f, s, ps) ==
    \A n \in new : /\ n.file = f /\ n.validation /\ n.status = s
                   /\ n.pages # {} /\ n.pages \subseteq ps

\* No two of them share a page.
Apart(new) == \A m, n \in new : m.pages \cap n.pages # {} => m = n

\* No two of them that validate share a page.
ReviewApart(new) ==
    \A m, n \in new : m.validation /\ n.validation
                      /\ m.pages \cap n.pages # {} => m = n

\* Each page with anybody eligible for it is in one of them.
Gives(new, e) == \A p \in DOMAIN e : e[p] # {} => \E n \in new : p \in n.pages

\* The rows of one kind that a distribution makes.
LEMMA DistributionRows ==
    ASSUME NEW f, NEW e, NEW k, NEW vld \in BOOLEAN, NEW s,
           NEW new \in Distributions(f, e, k, vld, s)
    PROVE  \A n \in new : Row(n, f, vld, s) /\ n.pages \subseteq DOMAIN e
<1>1. PICK c \in Shares(e, k) : new = TasksFor(f, c, vld, s)
  BY DEF Distributions
<1>2. DOMAIN c = DOMAIN e
  BY DEF Shares
<1> QED
  BY <1>1, <1>2, TasksForRows

\* Those that give a page to one user each.
LEMMA OneEachRows ==
    ASSUME NEW f, NEW e, NEW vld \in BOOLEAN, NEW s,
           NEW new \in Distributions(f, e, 1, vld, s)
    PROVE  Apart(new) /\ Gives(new, e)
<1>1. PICK c \in Shares(e, 1) : new = TasksFor(f, c, vld, s)
  BY DEF Distributions
<1>2. \A m, n \in new : m.pages \cap n.pages # {} => m = n
  BY <1>1, OneUserEach
<1>3. \A p \in DOMAIN e : e[p] # {} => \E n \in new : p \in n.pages
  BY <1>1, PageGiven
<1>4. Apart(new)
  BY <1>2 DEF Apart
<1>5. Gives(new, e)
  BY <1>3 DEF Gives
<1> QED
  BY <1>4, <1>5

\* Those made to validate.
LEMMA ToValidateRows ==
    ASSUME NEW f, NEW e, NEW k, NEW s, NEW new \in Distributions(f, e, k, TRUE, s)
    PROVE  RowsToValidate(new, f, s, DOMAIN e) /\ (k = 1 => Apart(new) /\ Gives(new, e))
<1>1. PICK vld \in BOOLEAN : vld = TRUE
  OBVIOUS
<1>2. new \in Distributions(f, e, k, vld, s)
  BY <1>1
<1>3. \A n \in new : Row(n, f, vld, s) /\ n.pages \subseteq DOMAIN e
  BY <1>2, DistributionRows
<1>4. ASSUME NEW n \in new
      PROVE  n.file = f /\ n.validation /\ n.status = s /\ n.pages # {}
  <2>1. n = NewTask(f, n.pages, n.user, TRUE, s)
    BY <1>1, <1>3 DEF Row
  <2>2. n.pages # {}
    BY <1>3 DEF Row
  <2>3. NewTask(f, n.pages, n.user, TRUE, s).file = f
    BY DEF NewTask
  <2>4. NewTask(f, n.pages, n.user, TRUE, s).validation
    BY DEF NewTask
  <2>5. NewTask(f, n.pages, n.user, TRUE, s).status = s
    BY DEF NewTask
  <2> QED
    BY <2>1, <2>2, <2>3, <2>4, <2>5, Zenon
<1>5. RowsToValidate(new, f, s, DOMAIN e)
  BY <1>3, <1>4 DEF RowsToValidate
<1>6. k = 1 => Apart(new) /\ Gives(new, e)
  BY <1>2, OneEachRows
<1> QED
  BY <1>5, <1>6

\* Those made to annotate.
LEMMA ToAnnotateRows ==
    ASSUME NEW f, NEW e, NEW k, NEW s, NEW new \in Distributions(f, e, k, FALSE, s)
    PROVE  RowsToAnnotate(new, f, s, DOMAIN e) /\ (k = 1 => Apart(new) /\ Gives(new, e))
<1>1. PICK vld \in BOOLEAN : vld = FALSE
  OBVIOUS
<1>2. new \in Distributions(f, e, k, vld, s)
  BY <1>1
<1>3. \A n \in new : Row(n, f, vld, s) /\ n.pages \subseteq DOMAIN e
  BY <1>2, DistributionRows
<1>4. ASSUME NEW n \in new
      PROVE  n.file = f /\ ~n.validation /\ n.status = s /\ n.pages # {}
  <2>1. n = NewTask(f, n.pages, n.user, FALSE, s)
    BY <1>1, <1>3 DEF Row
  <2>2. n.pages # {}
    BY <1>3 DEF Row
  <2>3. NewTask(f, n.pages, n.user, FALSE, s).file = f
    BY DEF NewTask
  <2>4. ~NewTask(f, n.pages, n.user, FALSE, s).validation
    BY DEF NewTask
  <2>5. NewTask(f, n.pages, n.user, FALSE, s).status = s
    BY DEF NewTask
  <2> QED
    BY <2>1, <2>2, <2>3, <2>4, <2>5, Zenon
<1>5. RowsToAnnotate(new, f, s, DOMAIN e)
  BY <1>3, <1>4 DEF RowsToAnnotate
<1>6. k = 1 => Apart(new) /\ Gives(new, e)
  BY <1>2, OneEachRows
<1> QED
  BY <1>5, <1>6

\* A batch with the validation tasks it gets.
LEMMA WithValidationRows ==
    ASSUME NEW batch, NEW f, NEW ps, NEW as, NEW vs,
           \A n \in batch : ~n.validation,
           NEW new \in WithValidation(batch, f, ps, as, vs)
    PROVE  /\ batch \subseteq new
           /\ RowsToValidate(new \ batch, f, "pending", ps)
           /\ ReviewApart(new)
<1> DEFINE e == [p \in ps |-> Reviewers(batch, p, as, vs)]
<1>1. PICK val \in Distributions(f, e, 1, TRUE, "pending") : new = batch \cup val
  BY DEF WithValidation
<1>2. DOMAIN e = ps
  OBVIOUS
<1> HIDE DEF e
<1>3. RowsToValidate(val, f, "pending", ps) /\ Apart(val)
  BY <1>1, <1>2, ToValidateRows
<1>4. RowsToValidate(new \ batch, f, "pending", ps)
  BY <1>1, <1>3 DEF RowsToValidate
<1>5. \A n \in new : n.validation => n \in val
  BY <1>1
<1>6. ReviewApart(new)
  BY <1>3, <1>5 DEF Apart, ReviewApart
<1> QED
  BY <1>1, <1>4, <1>6

\* The tasks a distribution of a file's pages makes.
LEMMA DistributeRows ==
    ASSUME NEW f, NEW annotate, NEW validate, NEW as, NEW vs, NEW k,
           NEW new \in Distribute(f, annotate, validate, as, vs, k)
    PROVE  /\ \A n \in new : /\ n.file = f /\ n.status = "pending" /\ n.pages # {}
                             /\ ~n.validation => as # {}
           /\ ReviewApart(new)
<1> DEFINE e == [p \in annotate |-> as]
<1>1. PICK ann \in Distributions(f, e, k, FALSE, "pending") :
          new \in WithValidation(ann, f, validate, as, vs)
  BY DEF Distribute
<1>2. DOMAIN e = annotate /\ \A p \in DOMAIN e : e[p] = as
  OBVIOUS
<1> HIDE DEF e
<1>3. RowsToAnnotate(ann, f, "pending", annotate)
  BY <1>1, <1>2, ToAnnotateRows
<1>4. \A n \in ann : ~n.validation
  BY <1>3 DEF RowsToAnnotate
<1>5. ann # {} => as # {}
  <2>1. PICK c \in Shares(e, k) : ann = TasksFor(f, c, FALSE, "pending")
    BY <1>1 DEF Distributions
  <2>2. \A p \in DOMAIN c : c[p] \subseteq as
    <3>1. DOMAIN c = DOMAIN e /\ \A p \in DOMAIN e : c[p] \subseteq e[p]
      BY DEF Shares
    <3> QED
      BY <1>2, <3>1
  <2>3. as = {} => UNION {c[p] : p \in DOMAIN c} = {}
    BY <2>2
  <2>4. UNION {c[p] : p \in DOMAIN c} = {} => ann = {}
    BY <2>1 DEF TasksFor
  <2> QED
    BY <2>3, <2>4
<1>6. RowsToValidate(new \ ann, f, "pending", validate) /\ ReviewApart(new)
  BY <1>1, <1>4, WithValidationRows
<1>7. ASSUME NEW n \in new
      PROVE  /\ n.file = f /\ n.status = "pending" /\ n.pages # {}
             /\ ~n.validation => as # {}
  <2>1. CASE n \in ann
    BY <1>3, <1>5, <2>1 DEF RowsToAnnotate
  <2>2. CASE n \in new \ ann
    BY <1>6, <2>2 DEF RowsToValidate
  <2> QED
    BY <2>1, <2>2
<1> QED
  BY <1>6, <1>7

\* The pages of failed that somebody edited are each in one of them to annotate.
Reworked(new, t, f, failed) ==
    \A p \in failed : Editors(t, f, p) # {} => \E n \in new : ~n.validation /\ p \in n.pages

\* What finish_task opens for the pages a validator failed: ready tasks to
\* annotate, pending ones to validate.
RowsOfRework(new, f, failed) ==
    \A n \in new : /\ n.file = f /\ n.pages # {} /\ n.pages \subseteq failed
                   /\ n.validation => n.status = "pending"
                   /\ ~n.validation => n.status = "ready"

\* The annotation tasks for the pages a validator failed, and the tasks to
\* validate them again.
LEMMA ReworkRows ==
    ASSUME NEW t, NEW f, NEW failed, NEW new \in Rework(t, f, failed)
    PROVE  /\ RowsOfRework(new, f, failed) /\ ReviewApart(new)
           /\ new # {} => ValidationType # "validation_only"
           /\ ValidationType # "validation_only" => Reworked(new, t, f, failed)
<1>1. CASE failed = {} \/ ValidationType = "validation_only"
  <2>1. new = {}
    BY <1>1 DEF Rework
  <2> QED
    BY <1>1, <2>1 DEF RowsOfRework, ReviewApart, Reworked
<1>2. CASE ~(failed = {} \/ ValidationType = "validation_only")
  <2>1. PICK e \in Reworkers(t, f, failed) :
            \E d \in Distributions(f, e, 1, FALSE, "ready") :
                new \in WithValidation(d, f, failed, Annotator, Validator)
    BY <1>2 DEF Rework
  <2>2. PICK ann \in Distributions(f, e, 1, FALSE, "ready") :
            new \in WithValidation(ann, f, failed, Annotator, Validator)
    BY <2>1
  <2>3. DOMAIN e = failed
    BY DEF Reworkers
  <2>4. RowsToAnnotate(ann, f, "ready", failed) /\ Gives(ann, e)
    BY <2>2, <2>3, ToAnnotateRows
  <2>5. \A n \in ann : ~n.validation
    BY <2>4 DEF RowsToAnnotate
  <2>6. /\ ann \subseteq new /\ ReviewApart(new)
        /\ RowsToValidate(new \ ann, f, "pending", failed)
    BY <2>2, <2>5, WithValidationRows
  <2>7. RowsOfRework(new, f, failed)
    BY <2>4, <2>6 DEF RowsOfRework, RowsToAnnotate, RowsToValidate
  <2>8. Annotator # {}
    <3>1. Cardinality({}) = 0
      BY FS_EmptySet
    <3> QED
      BY <1>2, <3>1, JobAssumption DEF ValidationTypes
  <2>9. ASSUME NEW p \in failed, Editors(t, f, p) # {} PROVE e[p] # {}
    BY <2>8, <2>9 DEF Reworkers
  <2>10. Reworked(new, t, f, failed)
    BY <2>3, <2>4, <2>5, <2>6, <2>9 DEF Reworked, Gives
  <2> QED
    BY <1>2, <2>6, <2>7, <2>10
<1> QED
  BY <1>1, <1>2

\* The tasks to validate the pages a validator edited.
LEMMA RecheckRows ==
    ASSUME NEW u, NEW f, NEW edited, NEW new \in Recheck(u, f, edited)
    PROVE  RowsToValidate(new, f, "ready", edited) /\ Apart(new)
<1>1. CASE new = {}
  BY <1>1 DEF RowsToValidate, Apart
<1>2. CASE new # {}
  <2>1. PICK e \in Checkers(u, edited) : new \in Distributions(f, e, 1, TRUE, "ready")
    BY <1>2 DEF Recheck
  <2>2. DOMAIN e = edited
    BY DEF Checkers
  <2> QED
    BY <2>1, <2>2, ToValidateRows
<1> QED
  BY <1>1, <1>2

\* What finish_task may open for a task of file f.
FollowUp(n, f, failed, edited) ==
    /\ n.file = f /\ n.pages # {}
    /\ ~n.validation => /\ n.status = "ready" /\ n.pages \subseteq failed
                        /\ ValidationType # "validation_only"
    /\ n.validation =>
           \/ n.status = "pending" /\ n.pages \subseteq failed
              /\ ValidationType # "validation_only"
           \/ n.status = "ready" /\ n.pages \subseteq edited

\* All that finish_task opens.
LEMMA FollowUpRows ==
    ASSUME NEW r, NEW new \in FollowUps(r), r.failed \cap r.edited = {}
    PROVE  /\ \A n \in new : FollowUp(n, r.file, r.failed, r.edited)
           /\ ReviewApart(new)
           /\ ValidationType # "validation_only" => Reworked(new, r.task, r.file, r.failed)
<1>1. PICK a \in Rework(r.task, r.file, r.failed),
           b \in Recheck(tasks[r.task].user, r.file, r.edited) : new = a \cup b
  BY DEF FollowUps
<1>2. /\ RowsOfRework(a, r.file, r.failed) /\ ReviewApart(a)
      /\ a # {} => ValidationType # "validation_only"
      /\ ValidationType # "validation_only" => Reworked(a, r.task, r.file, r.failed)
  BY ReworkRows
<1>3. RowsToValidate(b, r.file, "ready", r.edited) /\ Apart(b)
  BY RecheckRows
<1>4. ASSUME NEW n \in new PROVE FollowUp(n, r.file, r.failed, r.edited)
  <2>1. CASE n \in a
    BY <1>2, <2>1 DEF RowsOfRework, FollowUp
  <2>2. CASE n \in b
    BY <1>3, <2>2 DEF RowsToValidate, FollowUp
  <2> QED
    BY <1>1, <2>1, <2>2
<1>5. \A m \in a, n \in b : m.pages \cap n.pages = {}
  BY <1>2, <1>3 DEF RowsOfRework, RowsToValidate
<1>6. ReviewApart(new)
  BY <1>1, <1>2, <1>3, <1>5 DEF ReviewApart, Apart
<1>7. ValidationType # "validation_only" => Reworked(new, r.task, r.file, r.failed)
  BY <1>1, <1>2 DEF Reworked
<1> QED
  BY <1>4, <1>6, <1>7

-----------------------------------------------------------------------------
(***************************************************************************)
(* What a request of finish_task has read is still so at its commit.  The  *)
(* operators take the tasks table tt, so that a step which leaves the      *)
(* table alone leaves them alone.                                          *)
(***************************************************************************)

LiveIn(tt) == {t \in TaskId : tt[t].status \in Status}

FinishedIn(tt) == {t \in TaskId : tt[t].status = "finished"}

\* The pages of validation task t whose latest mark is m.
Marked(tt, t, m) == {p \in tt[t].pages : tt[t].validation /\ tt[t].marks[p] = m}

\* The finished annotation tasks of file f with page p.
Annotating(tt, f, p) ==
    {s \in FinishedIn(tt) : /\ tt[s].file = f /\ ~tt[s].validation
                            /\ p \in tt[s].pages}

\* The pages that are done as often as asked for, with t's.
Done(tt, t) ==
    {p \in Page : Cardinality({s \in {t} : p \in tt[s].pages})
                  + Cardinality(Annotating(tt, tt[t].file, p)) = Coverage}

\* The validation tasks that t's last page was waited for by.
Waiting(tt, t) ==
    {s \in LiveIn(tt) : /\ ~tt[t].validation
                        /\ tt[s].file = tt[t].file /\ tt[s].validation
                        /\ tt[s].status = "pending" /\ tt[s].pages \subseteq Done(tt, t)}

\* Somebody put content on page p of t's file, in another task.
EditedElsewhere(tt, t, p) ==
    \E s \in TaskId \ {t} : /\ tt[s].status # "absent"
                            /\ tt[s].file = tt[t].file /\ p \in tt[s].edited

\* What finish_task opens when it closes t.
Opens(tt, t, new) ==
    /\ new \subseteq Task /\ ReviewApart(new)
    /\ \A n \in new : FollowUp(n, tt[t].file, Marked(tt, t, "failed"),
                               Marked(tt, t, "annotated"))
    /\ ValidationType # "validation_only" =>
           \A p \in Marked(tt, t, "failed") :
               EditedElsewhere(tt, t, p) => \E n \in new : ~n.validation /\ p \in n.pages

\* Rows r are the tasks of new, each under an id no task of the table has.
Lists(tt, r, new) ==
    /\ DOMAIN r \subseteq TaskId /\ r \in [DOMAIN r -> new]
    /\ \A t \in DOMAIN r : tt[t].status = "absent"
    /\ \A n \in new : \E t \in DOMAIN r : r[t] = n
    /\ \A s, t \in DOMAIN r : r[s] = r[t] => s = t

\* The job has one task left, those of new included.
LastTask(tt, new) ==
    Cardinality(LiveIn(tt)) + Cardinality(new) = Cardinality(FinishedIn(tt)) + 1

\* A validation task once it is open: started if annotators agree on it.
Opened(old, new) ==
    /\ new \in Task
    /\ new.file = old.file /\ new.pages = old.pages
    /\ new.user = old.user /\ new.validation = old.validation
    /\ new.status \in {"ready", "in_progress"}
    /\ ValidationType # "extensive_coverage" => new.status = "ready"

\* The table with rows r in it.
Grown(tt, r) == [t \in TaskId |-> IF t \in DOMAIN r THEN r[t] ELSE tt[t]]

\* The table once t is finished.
Closed(tt, t, created, unblocked) ==
    [s \in TaskId |->
        IF s \in DOMAIN created THEN created[s]
        ELSE IF s \in DOMAIN unblocked THEN unblocked[s]
        ELSE IF s = t THEN [tt[s] EXCEPT !.status = "finished"]
        ELSE tt[s]]

\* The tasks the job begins with.
Leaders(tt) ==
    {t \in LiveIn(tt) : tt[t].validation = (ValidationType = "validation_only")}

ServedBy(tt, ff, r) ==
    /\ r.pc \in {"checked", "counted", "reported", "applied"} =>
           /\ r.task \in TaskId /\ tt[r.task].status = "in_progress"
           /\ tt[r.task].file = r.file
    /\ r.pc = "checked" => /\ r.failed = Marked(tt, r.task, "failed")
                           /\ r.edited = Marked(tt, r.task, "annotated")
    /\ r.pc \in {"checked", "counted", "reported"} =>
           r.validated = Marked(tt, r.task, "validated")
    /\ r.pc \in {"counted", "reported", "applied"} =>
           \E new : /\ Opens(tt, r.task, new) /\ Lists(tt, r.created, new)
                    /\ r.last <=> LastTask(tt, new)
    /\ r.pc \in {"counted", "reported"} =>
           /\ r.finished_pages = Done(tt, r.task)
           /\ DOMAIN r.loads = UsersOf(r.created)
           /\ \A u \in DOMAIN r.loads :
                  r.loads[u] = RemainingWork(Grown(tt, r.created), u)
    /\ r.pc = "applied" =>
           /\ DOMAIN r.unblocked = Waiting(tt, r.task)
           /\ \A s \in DOMAIN r.unblocked : Opened(tt[s], r.unblocked[s])
           /\ r.row.validated_pages =
                  ff[r.file].validated_pages \cup Marked(tt, r.task, "validated")
           /\ DOMAIN r.loads = UsersOf(r.created) \cup {tt[r.task].user}
           /\ \A u \in DOMAIN r.loads :
                  r.loads[u] =
                      IF u = tt[r.task].user
                      THEN RemainingWork(Closed(tt, r.task, r.created, r.unblocked), u)
                      ELSE RemainingWork(Grown(tt, r.created), u)
    /\ r.pc \in {"starting", "started"} => r.started = Leaders(tt)

\* start_job is called for the first time, or again by the manager.
StartsAllowed ==
    \A w \in Worker : req[w].pc \in {"starting", "started"} =>
        job = "pending" \/ (job # "absent" /\ "start" \in AdminOps)

\* One request at a time.
OneServed ==
    \A w, x \in Worker : req[w] # Idle /\ req[x] # Idle => w = x

\* Before the job is started nobody can have worked on it.
Unstarted ==
    /\ job = "absent" => /\ \A t \in TaskId : tasks[t].status = "absent"
                         /\ \A w \in Worker : req[w] = Idle
    /\ job = "pending" =>
           \A t \in TaskId : tasks[t].status \in {"absent", "pending", "deleted"}
    /\ \A w \in Worker : req[w].pc = "distributing" => "unassigned" \in AdminOps

SerialInv ==
    /\ Inv
    /\ OneServed
    /\ \A w \in Worker : ServedBy(tasks, files, req[w])
    /\ StartsAllowed
    /\ Unstarted

-----------------------------------------------------------------------------
(* Ids *)

\* The rows NumberedRows numbers.
LEMMA NumberedRowsList ==
    ASSUME NEW new, Numberings(new) # {}
    PROVE  Lists(tasks, NumberedRows(new), new)
<1> DEFINE m == CHOOSE m \in Numberings(new) : TRUE
           ids == {m[n] : n \in new}
           r == NumberedRows(new)
<1>1. m \in [new -> Fresh] /\ \A a, b \in new : m[a] = m[b] => a = b
  BY DEF Numberings
<1> HIDE DEF m
<1>2. r = [t \in ids |-> CHOOSE n \in new : m[n] = t]
  BY DEF NumberedRows, m
<1> HIDE DEF r
<1>3. \A n \in new : m[n] \in DOMAIN r /\ r[m[n]] = n
  BY <1>1, <1>2
<1>4. \A t \in DOMAIN r : \E n \in new : t = m[n] /\ r[t] = n
  BY <1>2, <1>3
<1>5. DOMAIN r \subseteq Fresh /\ Fresh \subseteq TaskId
      /\ \A t \in Fresh : tasks[t].status = "absent"
  BY <1>1, <1>2 DEF Fresh
<1>6. r \in [DOMAIN r -> new]
  BY <1>2, <1>4
<1>7. Lists(tasks, r, new)
  BY <1>3, <1>4, <1>5, <1>6 DEF Lists
<1> QED
  BY <1>7 DEF r

\* The tasks of a batch can be counted.
LEMMA BatchFinite ==
    ASSUME NEW tt, NEW r, NEW new, Lists(tt, r, new)
    PROVE  IsFiniteSet(new) /\ Cardinality(new) \in Nat
           /\ (Cardinality(new) = 0 <=> new = {}) /\ (new = {} <=> DOMAIN r = {})
<1>1. IsFiniteSet(DOMAIN r)
  BY FS_Subset, BoundAssumption DEF Lists
<1>2. r \in Surjection(DOMAIN r, new)
  BY DEF Lists, Surjection
<1>3. IsFiniteSet(new)
  BY <1>1, <1>2, FS_Surjection
<1>4. new = {} <=> DOMAIN r = {}
  BY DEF Lists
<1> QED
  BY <1>3, <1>4, FS_CardinalityType, FS_EmptySet

\* So can any set of tasks.
LEMMA TasksFinite ==
    ASSUME NEW ts \in SUBSET TaskId
    PROVE  IsFiniteSet(ts) /\ Cardinality(ts) \in Nat
BY FS_Subset, FS_CardinalityType, BoundAssumption

-----------------------------------------------------------------------------
(* The tables by either name *)

\* The tasks of the job, those of them finished, and their sizes.
LEMMA LiveAre ==
    /\ Live = LiveIn(tasks) /\ FinishedTasks = FinishedIn(tasks)
    /\ FinishedIn(tasks) \subseteq LiveIn(tasks) /\ LiveIn(tasks) \subseteq TaskId
    /\ \A new : AllFinishedBut1(new) <=> LastTask(tasks, new)
<1>1. Live = LiveIn(tasks)
  BY DEF Live, LiveIn
<1>2. FinishedTasks = FinishedIn(tasks) /\ FinishedIn(tasks) \subseteq LiveIn(tasks)
      /\ LiveIn(tasks) \subseteq TaskId
  BY DEF FinishedTasks, Live, FinishedIn, LiveIn, Status
<1>3. ASSUME NEW new PROVE AllFinishedBut1(new) <=> LastTask(tasks, new)
  BY <1>1, <1>2 DEF AllFinishedBut1, LastTask
<1> QED
  BY <1>1, <1>2, <1>3

\* The pages a request finds done.
LEMMA DoneAre ==
    ASSUME TypeOK, NEW t \in TaskId, NEW p \in Page
    PROVE  p \in Done(tasks, t) <=> AnnotationsOf(t, tasks[t].file, p) = Coverage
<1> DEFINE f == tasks[t].file
<1>1. ASSUME NEW s \in FinishedTasks
      PROVE  tasks[s].validation \in BOOLEAN
  BY LiveStatus DEF FinishedTasks, Task
<1>2. {s \in TasksOf(f, FALSE) \cap FinishedTasks : p \in tasks[s].pages}
          = Annotating(tasks, f, p)
  BY <1>1, LiveAre DEF TasksOf, Annotating, FinishedTasks
<1> QED
  BY <1>2 DEF Done, AnnotationsOf

\* The table once a task is finished, and the one with new rows.
LEMMA TablesAre ==
    ASSUME NEW r
    PROVE  /\ With(r) = Grown(tasks, r)
           /\ \A x, unblocked : x.created = r =>
                  FinishedTable(x, unblocked) = Closed(tasks, x.task, r, unblocked)
BY DEF With, Grown, FinishedTable, Closed

\* The validation tasks a request unblocks.
LEMMA WaitingAre ==
    ASSUME TypeOK, NEW r, r.task \in TaskId, tasks[r.task].status = "in_progress",
           tasks[r.task].file = r.file, r.finished_pages = Done(tasks, r.task)
    PROVE  UnblockedTasks(r) = Waiting(tasks, r.task)
<1>1. \A s \in Live : tasks[s].validation \in BOOLEAN
  BY LiveStatus DEF Task
<1> QED
  BY <1>1, LiveAre DEF UnblockedTasks, Waiting, TasksOf

\* A handler that is not split runs with no request in progress.
LEMMA FreeIsIdle ==
    ASSUME ~Interleave, Free
    PROVE  \A w \in Worker : req[w] = Idle
BY DEF Free

-----------------------------------------------------------------------------
(* finish_task, step by step *)

\* The task of a request in progress.
LEMMA ServedTask ==
    ASSUME Inv, NEW w \in Worker, ServedBy(tasks, files, req[w]),
           req[w].pc \in {"checked", "counted", "reported", "applied"}
    PROVE  /\ req[w].task \in TaskId /\ req[w].task \in Live
           /\ tasks[req[w].task] \in Task /\ req[w].file \in File
           /\ tasks[req[w].task].status = "in_progress"
           /\ tasks[req[w].task].file = req[w].file
<1>1. /\ req[w].task \in TaskId /\ tasks[req[w].task].status = "in_progress"
      /\ tasks[req[w].task].file = req[w].file
  BY DEF ServedBy
<1>2. req[w].task \in Live
  BY <1>1 DEF Live, Status
<1>3. tasks[req[w].task] \in Task
  BY <1>2, LiveStatus DEF Inv
<1> QED
  BY <1>1, <1>2, <1>3 DEF Task

\* validate_user_actions reads the marks of the task's pages.
LEMMA CheckServed ==
    ASSUME Inv, NEW w \in Worker, NEW t \in TaskId, FinishCheck(w, t)
    PROVE  ServedBy(tasks', files', req'[w])
<1> DEFINE r == [pc |-> "checked", task |-> t, file |-> tasks[t].file,
                 validated |-> Marked(tasks, t, "validated"),
                 failed |-> Marked(tasks, t, "failed"),
                 edited |-> Marked(tasks, t, "annotated")]
<1>1. req' = [req EXCEPT ![w] = r]
  BY DEF FinishCheck, Marked
<1>2. /\ r.pc = "checked" /\ r.task = t /\ r.file = tasks[t].file
      /\ r.validated = Marked(tasks, t, "validated")
      /\ r.failed = Marked(tasks, t, "failed") /\ r.edited = Marked(tasks, t, "annotated")
  OBVIOUS
<1> HIDE DEF r
<1>3. req'[w] = r
  BY <1>1 DEF Inv, TypeOK
<1>4. tasks[t].status = "in_progress" /\ UNCHANGED <<tasks, files>>
  BY DEF FinishCheck
<1> QED
  BY <1>2, <1>3, <1>4 DEF ServedBy

\* What it opens for them.
LEMMA FollowUpsOpen ==
    ASSUME Inv, NEW w \in Worker, ServedBy(tasks, files, req[w]), req[w].pc = "checked",
           NEW new \in FollowUps(req[w])
    PROVE  Opens(tasks, req[w].task, new)
<1> DEFINE r == req[w]
           t == r.task
<1>1. /\ t \in TaskId /\ tasks[t].file = r.file /\ r.file \in File
      /\ r.failed = Marked(tasks, t, "failed") /\ r.edited = Marked(tasks, t, "annotated")
  BY ServedTask DEF ServedBy
<1>2. r.failed \cap r.edited = {}
  BY <1>1 DEF Marked
<1>3. /\ \A n \in new : FollowUp(n, r.file, r.failed, r.edited)
      /\ ReviewApart(new)
      /\ ValidationType # "validation_only" => Reworked(new, t, r.file, r.failed)
  BY <1>2, FollowUpRows
<1>4. new \subseteq Task
  BY FollowUpsType DEF Inv, FileTasks
<1>5. ASSUME NEW p, EditedElsewhere(tasks, t, p)
      PROVE  Editors(t, r.file, p) # {}
  BY <1>1, <1>5 DEF EditedElsewhere, Editors
<1>6. ValidationType # "validation_only" =>
          \A p \in Marked(tasks, t, "failed") :
              EditedElsewhere(tasks, t, p) => \E n \in new : ~n.validation /\ p \in n.pages
  BY <1>1, <1>3, <1>5 DEF Reworked
<1>7. \A n \in new : FollowUp(n, tasks[t].file, Marked(tasks, t, "failed"),
                              Marked(tasks, t, "annotated"))
  BY <1>1, <1>3
<1> QED
  BY <1>3, <1>4, <1>6, <1>7 DEF Opens

\* The follow-up tasks and the two counts.
LEMMA PrepareServed ==
    ASSUME Inv, NEW w \in Worker, ServedBy(tasks, files, req[w]), FinishPrepare(w)
    PROVE  ServedBy(tasks', files', req'[w])
<1> DEFINE t == req[w].task
           after(new) ==
               [pc |-> "counted", task |-> req[w].task, file |-> req[w].file,
                validated |-> req[w].validated, created |-> NumberedRows(new),
                finished_pages |->
                    {p \in Page : AnnotationsOf(req[w].task, req[w].file, p) = Coverage},
                last |-> AllFinishedBut1(new),
                loads |-> [u \in UsersOf(NumberedRows(new)) |->
                               RemainingWork(With(NumberedRows(new)), u)]]
<1>1. PICK new \in FollowUps(req[w]) :
          Numberings(new) # {} /\ req' = [req EXCEPT ![w] = after(new)]
  BY DEF FinishPrepare
<1> DEFINE r == after(new)
           created == NumberedRows(new)
<1>2. /\ r.pc = "counted" /\ r.task = t /\ r.file = req[w].file
      /\ r.validated = req[w].validated /\ r.created = created
      /\ r.loads = [u \in UsersOf(created) |-> RemainingWork(With(created), u)]
      /\ r.finished_pages =
             {p \in Page : AnnotationsOf(t, req[w].file, p) = Coverage}
  OBVIOUS
<1>3. r.last <=> AllFinishedBut1(new)
  OBVIOUS
<1> HIDE DEF r, created
<1>4. req'[w] = r /\ UNCHANGED <<tasks, files>> /\ req[w].pc = "checked"
  BY <1>1 DEF Inv, TypeOK, FinishPrepare, r
<1>5. /\ t \in TaskId /\ tasks[t].file = req[w].file
      /\ tasks[t].status = "in_progress"
      /\ req[w].validated = Marked(tasks, t, "validated")
  BY <1>4 DEF ServedBy
<1>6. Opens(tasks, t, new) /\ Lists(tasks, created, new)
  BY <1>1, <1>4, FollowUpsOpen, NumberedRowsList DEF created
<1>7. r.finished_pages = Done(tasks, t)
  <2>1. \A p \in Page : p \in Done(tasks, t) <=> AnnotationsOf(t, req[w].file, p) = Coverage
    BY <1>5, DoneAre DEF Inv
  <2>2. Done(tasks, t) \subseteq Page
    BY DEF Done
  <2> QED
    BY <1>2, <2>1, <2>2
<1>8. r.last <=> LastTask(tasks, new)
  BY <1>3, LiveAre
<1>9. /\ DOMAIN r.loads = UsersOf(r.created)
      /\ \A u \in DOMAIN r.loads : r.loads[u] = RemainingWork(Grown(tasks, r.created), u)
  BY <1>2, TablesAre
<1> HIDE DEF t
<1> QED
  BY <1>2, <1>4, <1>5, <1>6, <1>7, <1>8, <1>9 DEF ServedBy

\* A validation task as it is opened.
LEMMA UnblockedOpened ==
    ASSUME Inv, NEW s \in Live, tasks[s].status = "pending", NEW n \in Unblocked(s)
    PROVE  Opened(tasks[s], n)
<1> DEFINE marks == [p \in Page |-> IF p \in tasks[s].pages
                                    THEN "annotated" ELSE tasks[s].marks[p]]
           ready == [tasks[s] EXCEPT !.status = "ready"]
           started == [tasks[s] EXCEPT !.status = "in_progress",
                           !.edited = tasks[s].pages, !.marks = marks]
<1>1. tasks[s] \in Task /\ marks \in [Page -> Mark]
  BY LiveStatus DEF Inv, Task, Mark
<1>2. n \in {ready, started} /\ (ValidationType # "extensive_coverage" => n = ready)
  BY DEF Unblocked
<1> HIDE DEF marks
<1>3. Opened(tasks[s], ready)
  BY <1>1 DEF Opened, Task, Status
<1>4. ValidationType = "extensive_coverage" => Opened(tasks[s], started)
  BY <1>1 DEF Opened, Task, Status
<1> QED
  BY <1>2, <1>3, <1>4

\* The jobs service is told, and nothing else changes.
LEMMA ReportServed ==
    ASSUME Inv, NEW w \in Worker, ServedBy(tasks, files, req[w]), FinishReport(w)
    PROVE  ServedBy(tasks', files', req'[w])
<1> DEFINE r == req[w]
<1>1. /\ r.pc = "counted" /\ r.last /\ UNCHANGED <<tasks, files>>
      /\ req'[w] = [pc |-> "reported", task |-> r.task, file |-> r.file,
                    validated |-> r.validated, created |-> r.created,
                    finished_pages |-> r.finished_pages, last |-> TRUE,
                    loads |-> r.loads]
  BY DEF FinishReport, Inv, TypeOK
<1>2. /\ req'[w].pc = "reported" /\ req'[w].task = r.task /\ req'[w].file = r.file
      /\ req'[w].validated = r.validated /\ req'[w].created = r.created
      /\ req'[w].finished_pages = r.finished_pages /\ req'[w].last = r.last
      /\ req'[w].loads = r.loads
  BY <1>1 DEF Inv, TypeOK, RequestOK
<1>3. /\ r.task \in TaskId /\ tasks[r.task].status = "in_progress"
      /\ tasks[r.task].file = r.file
      /\ r.validated = Marked(tasks, r.task, "validated")
      /\ r.finished_pages = Done(tasks, r.task)
      /\ DOMAIN r.loads = UsersOf(r.created)
      /\ \A u \in DOMAIN r.loads : r.loads[u] = RemainingWork(Grown(tasks, r.created), u)
  BY <1>1 DEF ServedBy
<1>4. PICK new : /\ Opens(tasks, r.task, new) /\ Lists(tasks, r.created, new)
                 /\ r.last <=> LastTask(tasks, new)
  BY <1>1 DEF ServedBy
<1> HIDE DEF r
<1> QED
  BY <1>1, <1>2, <1>3, <1>4 DEF ServedBy

\* The rows it writes.
LEMMA ApplyServed ==
    ASSUME Inv, NEW w \in Worker, ServedBy(tasks, files, req[w]), FinishApply(w)
    PROVE  ServedBy(tasks', files', req'[w])
<1> DEFINE r == req[w]
           t == r.task
           u == tasks[t].user
<1>1. PICK unblocked \in [UnblockedTasks(r) -> UNION {Unblocked(s) : s \in UnblockedTasks(r)}] :
          /\ \A s \in UnblockedTasks(r) : unblocked[s] \in Unblocked(s)
          /\ req' = [req EXCEPT ![w] =
                 [pc |-> "applied", task |-> r.task, file |-> r.file,
                  created |-> r.created, row |-> FinishedRow(r),
                  unblocked |-> unblocked, last |-> r.last,
                  loads |-> [x \in DOMAIN r.loads \cup {u} |->
                      IF x = u THEN RemainingWork(FinishedTable(r, unblocked), u)
                      ELSE r.loads[x]]]]
  BY DEF FinishApply
<1> DEFINE loads == [x \in DOMAIN r.loads \cup {u} |->
                        IF x = u THEN RemainingWork(FinishedTable(r, unblocked), u)
                        ELSE r.loads[x]]
<1>2. DOMAIN unblocked = UnblockedTasks(r)
  OBVIOUS
<1>3. /\ req'[w].pc = "applied" /\ req'[w].task = t /\ req'[w].file = r.file
      /\ req'[w].created = r.created /\ req'[w].row = FinishedRow(r)
      /\ req'[w].unblocked = unblocked /\ req'[w].last = r.last
      /\ req'[w].loads = loads
  BY <1>1 DEF Inv, TypeOK
<1>4. r.pc \in {"counted", "reported"} /\ UNCHANGED <<tasks, files>>
  BY DEF FinishApply, ReadyToApply
<1>5. /\ t \in TaskId /\ tasks[t].file = r.file /\ tasks[t].status = "in_progress"
      /\ r.validated = Marked(tasks, t, "validated") /\ r.finished_pages = Done(tasks, t)
      /\ tasks[t] \in Task /\ r.file \in File
  BY <1>4, ServedTask DEF ServedBy
<1>6. DOMAIN unblocked = Waiting(tasks, t)
  BY <1>2, <1>5, WaitingAre DEF Inv
<1>7. ASSUME NEW s \in DOMAIN unblocked PROVE Opened(tasks[s], unblocked[s])
  <2>1. s \in Live /\ tasks[s].status = "pending"
    BY <1>6, <1>7, LiveAre DEF Waiting
  <2>2. unblocked[s] \in Unblocked(s)
    BY <1>1, <1>2
  <2> QED
    BY <2>1, <2>2, UnblockedOpened
<1>8. FinishedRow(r).validated_pages
          = files[r.file].validated_pages \cup Marked(tasks, t, "validated")
  <2> DEFINE row == UpdateFile(files[r.file], r.file, r.created)
  <2>1. files[r.file] \in FileRow
    BY <1>5 DEF Inv, TypeOK
  <2>2. row \in FileRow /\ row.validated_pages = files[r.file].validated_pages
    <3>1. RowsOK(r.created)
      BY <1>4 DEF Inv, TypeOK, RequestOK
    <3>2. row \in FileRow
      BY <2>1, <3>1, UpdateFileType
    <3> QED
      BY <2>1, <3>2 DEF UpdateFile, FileRow
  <2> HIDE DEF row
  <2>3. CASE tasks[t].validation
    <3>1. ApprovedPages(r) = Marked(tasks, t, "validated")
      BY <1>5 DEF ApprovedPages, Marked
    <3> QED
      BY <2>2, <2>3, <3>1 DEF FinishedRow, FileRow, row
  <2>4. CASE ~tasks[t].validation
    <3>1. Marked(tasks, t, "validated") = {}
      BY <2>4 DEF Marked
    <3> QED
      BY <2>2, <2>4, <3>1 DEF FinishedRow, FileRow, row
  <2> QED
    BY <2>3, <2>4
<1>9. /\ DOMAIN loads = UsersOf(r.created) \cup {u}
      /\ \A x \in DOMAIN loads :
             loads[x] = IF x = u THEN RemainingWork(Closed(tasks, t, r.created, unblocked), x)
                        ELSE RemainingWork(Grown(tasks, r.created), x)
  <2>1. FinishedTable(r, unblocked) = Closed(tasks, t, r.created, unblocked)
    BY TablesAre
  <2>2. /\ DOMAIN r.loads = UsersOf(r.created)
        /\ \A x \in DOMAIN r.loads : r.loads[x] = RemainingWork(Grown(tasks, r.created), x)
    BY <1>4 DEF ServedBy
  <2> QED
    BY <2>1, <2>2
<1>10. PICK new : /\ Opens(tasks, t, new) /\ Lists(tasks, r.created, new)
                  /\ r.last <=> LastTask(tasks, new)
  BY <1>4 DEF ServedBy
<1>11. /\ req'[w].task \in TaskId /\ tasks[req'[w].task].status = "in_progress"
       /\ tasks[req'[w].task].file = req'[w].file
  BY <1>3, <1>5
<1>12. /\ Opens(tasks, req'[w].task, new) /\ Lists(tasks, req'[w].created, new)
       /\ req'[w].last <=> LastTask(tasks, new)
  BY <1>3, <1>10
<1>13. /\ DOMAIN req'[w].unblocked = Waiting(tasks, req'[w].task)
       /\ \A s \in DOMAIN req'[w].unblocked : Opened(tasks[s], req'[w].unblocked[s])
       /\ req'[w].row.validated_pages = files[req'[w].file].validated_pages
                                            \cup Marked(tasks, req'[w].task, "validated")
  BY <1>3, <1>6, <1>7, <1>8
<1>14. /\ DOMAIN req'[w].loads = UsersOf(req'[w].created) \cup {tasks[req'[w].task].user}
       /\ \A x \in DOMAIN req'[w].loads :
              req'[w].loads[x] =
                  IF x = tasks[req'[w].task].user
                  THEN RemainingWork(Closed(tasks, req'[w].task, req'[w].created,
                                            req'[w].unblocked), x)
                  ELSE RemainingWork(Grown(tasks, req'[w].created), x)
  BY <1>3, <1>9
<1> HIDE DEF r, t, u, loads
<1> QED
  BY <1>3, <1>4, <1>11, <1>12, <1>13, <1>14 DEF ServedBy

\* A request that is over, or distributes, relies on nothing.
LEMMA NothingServed ==
    ASSUME NEW tt, NEW ff, NEW r, r.pc \in {"idle", "distributing"}
    PROVE  ServedBy(tt, ff, r)
BY DEF ServedBy

\* A step of a handler that runs alone.
LEMMA IdleStep ==
    ASSUME \A w \in Worker : req[w] = Idle, req' = req
    PROVE  /\ OneServed' /\ StartsAllowed'
           /\ \A w \in Worker : ServedBy(tasks', files', req'[w])
<1>1. Idle.pc = "idle"
  BY DEF Idle
<1> QED
  BY <1>1, NothingServed DEF OneServed, StartsAllowed

\* A step of the request that is served.
LEMMA ServedStep ==
    ASSUME Inv, NEW w \in Worker, NEW r, req' = [req EXCEPT ![w] = r],
           \A x \in Worker \ {w} : req[x] = Idle, ServedBy(tasks', files', r),
           \/ r.pc \notin {"starting", "started"} \/ job' = "pending"
           \/ job' # "absent" /\ "start" \in AdminOps
    PROVE  /\ OneServed' /\ StartsAllowed'
           /\ \A x \in Worker : ServedBy(tasks', files', req'[x])
<1>1. Idle.pc = "idle"
  BY DEF Idle
<1>2. req'[w] = r /\ \A x \in Worker \ {w} : req'[x] = Idle
  BY DEF Inv, TypeOK
<1> QED
  BY <1>1, <1>2, NothingServed DEF OneServed, StartsAllowed

\* The requests after a step.
LEMMA NextServed ==
    ASSUME SerialInv, ~Interleave, Next
    PROVE  /\ OneServed' /\ StartsAllowed'
           /\ \A w \in Worker : ServedBy(tasks', files', req'[w])
<1> DEFINE Goal == /\ OneServed' /\ StartsAllowed'
                   /\ \A x \in Worker : ServedBy(tasks', files', req'[x])
<1>1. Free => \A w \in Worker : req[w] = Idle
  BY FreeIsIdle
<1>2. ASSUME NEW w \in Worker, req[w].pc # "idle"
      PROVE  \A x \in Worker \ {w} : req[x] = Idle
  <2>1. req[w] # Idle
    BY <1>2 DEF Idle
  <2> QED
    BY <2>1 DEF SerialInv, OneServed
<1>3. ASSUME Free, req' = req PROVE Goal
  BY <1>1, <1>3, IdleStep
<1>4. ASSUME NEW w \in Worker, NEW t \in TaskId, FinishCheck(w, t)
      PROVE  Goal
  <2>1. PICK r : req' = [req EXCEPT ![w] = r]
    BY <1>4 DEF FinishCheck
  <2>2. req'[w] = r /\ r.pc = "checked"
    BY <1>4, <2>1 DEF SerialInv, Inv, TypeOK, FinishCheck
  <2>3. ServedBy(tasks', files', r)
    BY <1>4, <2>2, CheckServed DEF SerialInv
  <2>4. Free
    BY <1>4 DEF FinishCheck
  <2> QED
    BY <1>1, <2>1, <2>2, <2>3, <2>4, ServedStep DEF SerialInv
<1>5. ASSUME NEW w \in Worker, FinishPrepare(w)
      PROVE  Goal
  <2>1. PICK r : req' = [req EXCEPT ![w] = r]
    BY <1>5 DEF FinishPrepare
  <2>2. req'[w] = r /\ req[w].pc = "checked" /\ r.pc = "counted"
    BY <1>5, <2>1 DEF SerialInv, Inv, TypeOK, FinishPrepare
  <2>3. ServedBy(tasks', files', r)
    BY <1>5, <2>2, PrepareServed DEF SerialInv
  <2> QED
    BY <1>2, <2>1, <2>2, <2>3, ServedStep DEF SerialInv
<1>6. ASSUME NEW w \in Worker, FinishReport(w) \/ FinishApply(w)
      PROVE  Goal
  <2>1. PICK r : req' = [req EXCEPT ![w] = r]
    BY <1>6 DEF FinishReport, FinishApply
  <2>4. req'[w] = r /\ req[w].pc # "idle"
    BY <1>6, <2>1 DEF SerialInv, Inv, TypeOK, FinishReport, FinishApply, ReadyToApply
  <2>2. req'[w] = r /\ req[w].pc # "idle" /\ r.pc \in {"reported", "applied"}
    <3>1. FinishReport(w) => req'[w].pc = "reported"
      BY DEF SerialInv, Inv, TypeOK, FinishReport
    <3>2. FinishApply(w) => req'[w].pc = "applied"
      BY DEF SerialInv, Inv, TypeOK, FinishApply
    <3> QED
      BY <1>6, <2>4, <3>1, <3>2
  <2>3. ServedBy(tasks', files', r)
    BY <1>6, <2>2, ReportServed, ApplyServed DEF SerialInv
  <2> QED
    BY <1>2, <2>1, <2>2, <2>3, ServedStep DEF SerialInv
<1>7. ASSUME NEW w \in Worker,
             \/ FinishFails(w) \/ FinishCommit(w) \/ StartCommit(w)
             \/ DistributeUnassigned(w) \/ Abandon(w)
      PROVE  Goal
  <2>1. req' = [req EXCEPT ![w] = Idle] /\ Idle.pc = "idle"
    BY <1>7 DEF FinishFails, FinishCommit, StartCommit, DistributeUnassigned, Abandon, Idle
  <2>2. req[w].pc # "idle"
    BY <1>7 DEF FinishFails, FinishCommit, StartCommit, DistributeUnassigned, Abandon,
                SerialInv, Inv, TypeOK, RequestOK
  <2>3. ServedBy(tasks', files', Idle)
    BY <2>1, NothingServed
  <2> QED
    BY <1>2, <2>1, <2>2, <2>3, ServedStep DEF SerialInv
<1>8. ASSUME NEW w \in Worker, FindUnassigned(w)
      PROVE  Goal
  <2> DEFINE r == [pc |-> "distributing", rows |-> files]
  <2>1. req' = [req EXCEPT ![w] = r] /\ r.pc = "distributing" /\ Free
    BY <1>8 DEF FindUnassigned, Manage
  <2>2. ServedBy(tasks', files', r)
    BY <2>1, NothingServed
  <2> HIDE DEF r
  <2> QED
    BY <1>1, <2>1, <2>2, ServedStep DEF SerialInv
<1>9. ASSUME NEW u \in User, NextAnnotationTask(u)
      PROVE  Free /\ req' = req
  BY <1>9 DEF NextAnnotationTask
<1>10. ASSUME NEW t \in TaskId, NEW ann \in SUBSET Page, NEW val \in SUBSET Page,
              NEW fail \in SUBSET Page, SaveAnnotation(t, ann, val, fail)
       PROVE  Free /\ req' = req
  BY <1>10 DEF SaveAnnotation
<1>11. ASSUME NEW f \in File, NEW ps \in (SUBSET Page) \ {{}}, NEW u \in User,
              NEW vld \in BOOLEAN,
              \/ PostTask(f, ps, u, vld)
              \/ \E t \in TaskId : UpdateTask(t, f, ps, u, vld)
       PROVE  Free /\ req' = req
  BY <1>11 DEF PostTask, UpdateTask, Manage
<1>12. ASSUME NEW ts, DeleteBatch(ts) \/ DeleteTask(ts)
       PROVE  Free /\ req' = req
  BY <1>12 DEF DeleteBatch, DeleteTask, DeleteTasks, Manage
<1>13. ASSUME NEW fs, NEW us, PostTasks(fs, us)
       PROVE  Free /\ req' = req
  BY <1>13 DEF PostTasks, Manage
<1>14. PostJob => Free /\ req' = req
  BY DEF PostJob
<1>15. ASSUME NEW w \in Worker, FirstStart(w) \/ Restart(w)
       PROVE  Goal
  <2> DEFINE r == [pc |-> "starting", started |-> LeadingTasks]
  <2>1. /\ req' = [req EXCEPT ![w] = r] /\ Free /\ UNCHANGED <<tasks, files, job>>
        /\ job = "pending" \/ (job # "absent" /\ "start" \in AdminOps)
    BY <1>15 DEF FirstStart, Restart, StartJob, Manage
  <2>2. r.pc = "starting" /\ r.started = LeadingTasks
    OBVIOUS
  <2> HIDE DEF r
  <2>3. LeadingTasks = Leaders(tasks)
    BY LiveAre DEF LeadingTasks, Leaders
  <2>4. ServedBy(tasks', files', r)
    BY <2>1, <2>2, <2>3 DEF ServedBy
  <2> QED
    BY <1>1, <2>1, <2>4, ServedStep DEF SerialInv
<1>16. ASSUME NEW w \in Worker, StartReport(w)
       PROVE  Goal
  <2>1. PICK r : /\ req' = [req EXCEPT ![w] = r]
                 /\ r = Idle \/ r = [pc |-> "started", started |-> req[w].started]
    BY <1>16 DEF StartReport
  <2>2. r.pc \in {"idle", "started"} /\ (r.pc = "started" => r.started = req[w].started)
    BY <2>1 DEF Idle
  <2>3. req[w].pc = "starting" /\ UNCHANGED <<tasks, files, job>>
    BY <1>16 DEF StartReport
  <2>4. ServedBy(tasks, files, req[w]) /\ (job = "pending" \/ (job # "absent" /\ "start" \in AdminOps))
    BY <2>3 DEF SerialInv, StartsAllowed
  <2>5. ServedBy(tasks', files', r)
    BY <2>2, <2>3, <2>4 DEF ServedBy
  <2>6. \A x \in Worker \ {w} : req[x] = Idle
    BY <1>2, <2>3
  <2> QED
    BY <2>1, <2>3, <2>4, <2>5, <2>6, ServedStep DEF SerialInv
<1> HIDE DEF Goal
<1>17. Goal
  BY <1>3, <1>4, <1>5, <1>6, <1>7, <1>8, <1>9, <1>10, <1>11, <1>12, <1>13, <1>14,
     <1>15, <1>16 DEF Next
<1> QED
  BY <1>17 DEF Goal

-----------------------------------------------------------------------------
(***************************************************************************)
(* What a step of the job does to the tables, when requests do not         *)
(* overlap: a handler between two of its writes does nothing, and the      *)
(* other steps are those of the six predicates below.                      *)
(***************************************************************************)

Still == UNCHANGED <<tasks, files, load, job>>

SameApproval ==
    \A f \in File : files'[f].validated_pages = files[f].validated_pages

\* Rows r of a batch come in: post_job and the manager's distributions.
Inserts(new, r) ==
    /\ Lists(tasks, r, new) /\ new \subseteq Task
    /\ \A n \in new : n.status = "pending" /\ n.pages # {}
    /\ tasks' = Grown(tasks, r)
    /\ load' = UpdateLoad(tasks', UsersOf(r))
    /\ SameApproval
    /\ \/ /\ job = "absent" /\ job' = "pending"
          /\ \A m, n \in new : m.file = n.file /\ m.validation /\ n.validation
                               /\ m.pages \cap n.pages # {} => m = n
       \/ /\ job # "absent" /\ job' = job
          /\ AdminOps \cap {"post", "distribute", "unassigned"} # {}

\* start_job.
Starts ==
    /\ job = "pending" \/ "start" \in AdminOps
    /\ job # "absent" /\ job' = "in_progress"
    /\ tasks' = StartedTasks(LeadingTasks)
    /\ UNCHANGED <<files, load>>

\* A user takes or saves task t.
Works(t, n) ==
    /\ t \in Live /\ tasks[t].status \in {"ready", "in_progress"}
    /\ n \in Task /\ n.status = "in_progress"
    /\ n.file = tasks[t].file /\ n.pages = tasks[t].pages
    /\ n.user = tasks[t].user /\ n.validation = tasks[t].validation
    /\ tasks' = [tasks EXCEPT ![t] = n]
    /\ UNCHANGED <<files, load, job>>

\* finish_task closes task t.
Finishes(t, new, created, unblocked) ==
    /\ t \in Live /\ tasks[t].status = "in_progress"
    /\ Opens(tasks, t, new) /\ Lists(tasks, created, new)
    /\ DOMAIN unblocked = Waiting(tasks, t)
    /\ \A s \in DOMAIN unblocked : Opened(tasks[s], unblocked[s])
    /\ tasks' = Closed(tasks, t, created, unblocked)
    /\ job' = IF LastTask(tasks, new) THEN "finished" ELSE job
    /\ \A f \in File : f # tasks[t].file => files'[f] = files[f]
    /\ files'[tasks[t].file].validated_pages =
           files[tasks[t].file].validated_pages \cup Marked(tasks, t, "validated")
    /\ ValidationType # "extensive_coverage" =>
           \A u \in User :
               load'[u] = IF u = tasks[t].user THEN RemainingWork(tasks', u)
                          ELSE IF u \in UsersOf(created)
                          THEN RemainingWork(Grown(tasks, created), u)
                          ELSE load[u]

\* update_task moves pending task t.
Updates(t, n) ==
    /\ "update" \in AdminOps /\ job # "absent" /\ job' = job
    /\ t \in Live /\ tasks[t].status = "pending"
    /\ n \in Task /\ n.status = "pending"
    /\ tasks' = [tasks EXCEPT ![t] = n]
    /\ load' = UpdateLoad(tasks', {n.user, tasks[t].user})
    /\ SameApproval

\* delete_task and delete_batch_tasks.
Deletes(ts) ==
    /\ \/ "delete" \in AdminOps
       \/ /\ "delete_batch" \in AdminOps
          /\ \A t \in ts : tasks[t].status \in {"pending", "ready"}
    /\ job # "absent" /\ job' = job
    /\ ts \subseteq Live
    /\ tasks' = [t \in TaskId |-> IF t \in ts THEN [tasks[t] EXCEPT !.status = "deleted"]
                                  ELSE tasks[t]]
    /\ load' = UpdateLoad(tasks', {tasks[t].user : t \in ts})
    /\ SameApproval

Effect ==
    \/ Still
    \/ \E new, r : Inserts(new, r)
    \/ Starts
    \/ \E t, n : Works(t, n)
    \/ \E t, new, created, unblocked : Finishes(t, new, created, unblocked)
    \/ \E t, n : Updates(t, n)
    \/ \E ts : Deletes(ts)

\* The rows of a distribution of files are pending, and no two of one file
\* that validate share a page.
LEMMA BatchPending ==
    ASSUME NEW fs \in SUBSET File, NEW Options,
           \A f \in fs : \A x \in Options[f] :
               /\ x \subseteq FileTasks(f) /\ ReviewApart(x)
               /\ \A n \in x : n.status = "pending" /\ n.pages # {},
           NEW batch \in Batches(fs, Options)
    PROVE  /\ batch \subseteq Task
           /\ \A n \in batch : n.status = "pending" /\ n.pages # {}
           /\ \A m, n \in batch : m.file = n.file /\ m.validation /\ n.validation
                                  /\ m.pages \cap n.pages # {} => m = n
<1>1. PICK c : batch = UNION {c[f] : f \in fs} /\ \A f \in fs : c[f] \in Options[f]
  BY DEF Batches
<1>2. \A f \in fs : \A n \in c[f] : n \in Task /\ n.file = f
                                    /\ n.status = "pending" /\ n.pages # {}
  BY <1>1 DEF FileTasks
<1>3. ASSUME NEW m \in batch, NEW n \in batch, m.file = n.file,
             m.validation, n.validation, m.pages \cap n.pages # {}
      PROVE  m = n
  <2>1. PICK f \in fs : m \in c[f] /\ n \in c[f]
    BY <1>1, <1>2, <1>3
  <2>2. ReviewApart(c[f])
    BY <1>1
  <2> QED
    BY <1>3, <2>1, <2>2 DEF ReviewApart
<1> QED
  BY <1>1, <1>2, <1>3

\* So are those of one file.
LEMMA DistributePending ==
    ASSUME NEW f \in File, NEW annotate \in SUBSET Page, NEW validate \in SUBSET Page,
           NEW as \in SUBSET User, NEW vs \in SUBSET User, NEW k,
           NEW x \in Distribute(f, annotate, validate, as, vs, k)
    PROVE  /\ x \subseteq FileTasks(f) /\ ReviewApart(x)
           /\ \A n \in x : n.status = "pending" /\ n.pages # {}
<1>1. x \subseteq FileTasks(f)
  BY DistributeType
<1>2. /\ \A n \in x : /\ n.file = f /\ n.status = "pending" /\ n.pages # {}
                      /\ ~n.validation => as # {}
      /\ ReviewApart(x)
  BY DistributeRows
<1> QED
  BY <1>1, <1>2

\* Inserting rows leaves what is validated alone.
LEMMA InsertApproval ==
    ASSUME TypeOK, NEW r, RowsOK(r), InsertTasks(r)
    PROVE  SameApproval
<1>1. files' = [f \in File |-> UpdateFile(files[f], f, r)]
  BY DEF InsertTasks
<1>2. \A f \in File : files[f] \in FileRow
  BY DEF TypeOK
<1>3. \A f \in File : UpdateFile(files[f], f, r).validated_pages = files[f].validated_pages
  BY <1>2 DEF UpdateFile, FileRow
<1> QED
  BY <1>1, <1>3 DEF SameApproval

\* A batch of pending rows that a handler inserts.
LEMMA InsertEffect ==
    ASSUME Inv, NEW new, new \subseteq Task, Numberings(new) # {},
           \A n \in new : n.status = "pending" /\ n.pages # {},
           InsertTasks(NumberedRows(new)),
           \/ /\ job = "absent" /\ job' = "pending"
              /\ \A m, n \in new : m.file = n.file /\ m.validation /\ n.validation
                                   /\ m.pages \cap n.pages # {} => m = n
           \/ /\ job # "absent" /\ job' = job
              /\ AdminOps \cap {"post", "distribute", "unassigned"} # {}
    PROVE  Effect
<1> DEFINE r == NumberedRows(new)
<1>1. Lists(tasks, r, new)
  BY NumberedRowsList
<1>2. tasks' = Grown(tasks, r) /\ load' = UpdateLoad(tasks', UsersOf(r))
  BY TablesAre DEF InsertTasks
<1>3. SameApproval
  BY NumberedRowsOK, InsertApproval DEF Inv
<1> HIDE DEF r
<1>4. Inserts(new, r)
  BY <1>1, <1>2, <1>3 DEF Inserts
<1> QED
  BY <1>4 DEF Effect

\* post_job.
LEMMA PostJobEffect ==
    ASSUME Inv, PostJob
    PROVE  Effect
<1> DEFINE k == IF ValidationType = "extensive_coverage" THEN Coverage ELSE 1
           options == [f \in File |-> Distribute(f, Page, Page, Annotator, Validator, k)]
<1>1. PICK new \in {{}} \cup Batches(File, options) :
          Numberings(new) # {} /\ InsertTasks(NumberedRows(new))
  BY DEF PostJob
<1>2. /\ new \subseteq Task
      /\ \A n \in new : n.status = "pending" /\ n.pages # {}
      /\ \A m, n \in new : m.file = n.file /\ m.validation /\ n.validation
                           /\ m.pages \cap n.pages # {} => m = n
  <2>1. CASE new = {}
    BY <2>1
  <2>2. CASE new \in Batches(File, options)
    <3>1. Annotator \in SUBSET User /\ Validator \in SUBSET User /\ Page \in SUBSET Page
      BY JobAssumption
    <3> HIDE DEF k
    <3>2. \A f \in File : \A x \in options[f] :
              /\ x \subseteq FileTasks(f) /\ ReviewApart(x)
              /\ \A n \in x : n.status = "pending" /\ n.pages # {}
      BY <3>1, DistributePending
    <3> HIDE DEF options
    <3> QED
      BY <2>2, <3>2, BatchPending
  <2> QED
    BY <1>1, <2>1, <2>2
<1>3. job = "absent" /\ job' = "pending"
  BY DEF PostJob
<1> QED
  BY <1>1, <1>2, <1>3, InsertEffect

\* post_task.
LEMMA PostTaskEffect ==
    ASSUME Inv, NEW f \in File, NEW ps \in (SUBSET Page) \ {{}}, NEW u \in User,
           NEW vld \in BOOLEAN, PostTask(f, ps, u, vld)
    PROVE  Effect
<1> DEFINE n == NewTask(f, ps, u, vld, "pending")
           new == {n}
<1>1. Numberings(new) # {} /\ InsertTasks(NumberedRows(new))
  BY DEF PostTask
<1>2. n \in Task /\ n.status = "pending" /\ n.pages = ps
  <2>1. n \in FileTasks(f)
    BY NewTaskType DEF Status
  <2> QED
    BY <2>1 DEF FileTasks, NewTask
<1>3. job # "absent" /\ job' = job /\ AdminOps \cap {"post", "distribute", "unassigned"} # {}
  BY DEF PostTask, Manage
<1> HIDE DEF n
<1>4. new \subseteq Task /\ \A x \in new : x.status = "pending" /\ x.pages # {}
  BY <1>2
<1> HIDE DEF new
<1> QED
  BY <1>1, <1>3, <1>4, InsertEffect

\* post_tasks.
LEMMA PostTasksEffect ==
    ASSUME Inv, NEW fs \in (SUBSET File) \ {{}}, NEW us \in SUBSET User, PostTasks(fs, us)
    PROVE  Effect
<1> DEFINE options == [f \in fs |->
               Distribute(f, Page, Page, us \cap Annotator, us \cap Validator, 1)]
<1>1. PICK new \in Batches(fs, options) :
          Numberings(new) # {} /\ InsertTasks(NumberedRows(new))
  BY DEF PostTasks
<1>2. us \cap Annotator \in SUBSET User /\ us \cap Validator \in SUBSET User
  OBVIOUS
<1>3. \A f \in fs : \A x \in options[f] :
          /\ x \subseteq FileTasks(f) /\ ReviewApart(x)
          /\ \A n \in x : n.status = "pending" /\ n.pages # {}
  BY <1>2, DistributePending
<1> HIDE DEF options
<1>4. new \subseteq Task /\ \A n \in new : n.status = "pending" /\ n.pages # {}
  BY <1>1, <1>3, BatchPending
<1>5. job # "absent" /\ job' = job /\ AdminOps \cap {"post", "distribute", "unassigned"} # {}
  BY DEF PostTasks, Manage
<1> QED
  BY <1>1, <1>4, <1>5, InsertEffect

\* post_tasks_for_unassigned_files.
LEMMA DistributeUnassignedEffect ==
    ASSUME SerialInv, NEW w \in Worker, DistributeUnassigned(w)
    PROVE  Effect
<1> DEFINE rows == req[w].rows
           options == [f \in File |->
               Distribute(f, Page \ rows[f].distributed_annotating,
                          Page \ rows[f].distributed_validating,
                          Annotator, Validator, 1)]
<1>1. PICK new \in Batches(File, options) :
          /\ Numberings(new) # {} /\ tasks' = With(NumberedRows(new))
          /\ load' = UpdateLoad(With(NumberedRows(new)), UsersOf(NumberedRows(new)))
  BY DEF DistributeUnassigned
<1>2. \A f \in File : \A x \in options[f] :
          /\ x \subseteq FileTasks(f) /\ ReviewApart(x)
          /\ \A n \in x : n.status = "pending" /\ n.pages # {}
  <2>1. Annotator \in SUBSET User /\ Validator \in SUBSET User
    BY JobAssumption
  <2> QED
    BY <2>1, DistributePending
<1> HIDE DEF options
<1>3. new \subseteq Task /\ \A n \in new : n.status = "pending" /\ n.pages # {}
  BY <1>1, <1>2, BatchPending
<1>4. Lists(tasks, NumberedRows(new), new)
  BY <1>1, NumberedRowsList
<1>5. /\ tasks' = Grown(tasks, NumberedRows(new))
      /\ load' = UpdateLoad(tasks', UsersOf(NumberedRows(new)))
  BY <1>1, TablesAre
<1>6. SameApproval
  <2>1. \A f \in File : files[f] \in FileRow
    BY DEF SerialInv, Inv, TypeOK
  <2>2. PICK a, b :
            files' = [f \in File |->
                IF f \notin a THEN files[f]
                ELSE [files[f] EXCEPT !.distributed_annotating = b[f][1],
                                      !.distributed_validating = b[f][2]]]
    <3> DEFINE grown(r, f) == UpdateFile(rows[f], f, r)
               first(r, f) == IF grown(r, f).distributed_annotating
                                  # rows[f].distributed_annotating
                              THEN grown(r, f).distributed_annotating
                              ELSE files[f].distributed_annotating
               second(r, f) == IF grown(r, f).distributed_validating
                                   # rows[f].distributed_validating
                               THEN grown(r, f).distributed_validating
                               ELSE files[f].distributed_validating
    <3>1. PICK x : files' = [f \in File |->
                IF f \notin {n.file : n \in x} THEN files[f]
                ELSE [files[f] EXCEPT
                         !.distributed_annotating = first(NumberedRows(x), f),
                         !.distributed_validating = second(NumberedRows(x), f)]]
      BY DEF DistributeUnassigned
    <3> DEFINE b == [f \in File |-> <<first(NumberedRows(x), f), second(NumberedRows(x), f)>>]
    <3>2. \A f \in File : b[f][1] = first(NumberedRows(x), f)
                          /\ b[f][2] = second(NumberedRows(x), f)
      OBVIOUS
    <3> HIDE DEF b, first, second
    <3>3. files' = [f \in File |->
                IF f \notin {n.file : n \in x} THEN files[f]
                ELSE [files[f] EXCEPT !.distributed_annotating = b[f][1],
                                      !.distributed_validating = b[f][2]]]
      BY <3>1, <3>2
    <3> QED
      BY <3>3
  <2> QED
    BY <2>1, <2>2 DEF SameApproval, FileRow
<1>7. req[w].pc = "distributing" /\ job' = job
  BY DEF DistributeUnassigned
<1>8. req[w] # Idle
  BY <1>7 DEF Idle
<1>9. job # "absent" /\ "unassigned" \in AdminOps
  BY <1>7, <1>8 DEF SerialInv, Unstarted
<1>10. Inserts(new, NumberedRows(new))
  BY <1>3, <1>4, <1>5, <1>6, <1>7, <1>9 DEF Inserts
<1> QED
  BY <1>10 DEF Effect

\* start_job.
LEMMA StartCommitEffect ==
    ASSUME SerialInv, NEW w \in Worker, StartCommit(w)
    PROVE  Effect
<1>1. /\ req[w].pc = "started" /\ tasks' = StartedTasks(req[w].started)
      /\ job' = "in_progress" /\ UNCHANGED <<files, load>>
  BY DEF StartCommit
<1>2. job = "pending" \/ (job # "absent" /\ "start" \in AdminOps)
  BY <1>1 DEF SerialInv, StartsAllowed
<1>3. req[w].started = LeadingTasks
  <2>1. req[w].started = Leaders(tasks)
    BY <1>1 DEF SerialInv, ServedBy
  <2> QED
    BY <2>1, LiveAre DEF LeadingTasks, Leaders
<1>4. Starts
  BY <1>1, <1>2, <1>3 DEF Starts
<1> QED
  BY <1>4 DEF Effect

\* get_next_annotation_task and post_annotation_by_user.
LEMMA WorkEffect ==
    ASSUME Inv,
           \/ \E u \in User : NextAnnotationTask(u)
           \/ \E t \in TaskId, ann, val, fail \in SUBSET Page :
                  SaveAnnotation(t, ann, val, fail)
    PROVE  Effect
<1>1. CASE \E u \in User : NextAnnotationTask(u)
  <2>1. PICK t \in Live : /\ tasks[t].status = "ready"
                          /\ tasks' = [tasks EXCEPT ![t].status = "in_progress"]
                          /\ UNCHANGED <<files, load, job>>
    BY <1>1 DEF NextAnnotationTask
  <2>2. tasks[t] \in Task
    BY LiveStatus DEF Inv
  <2> DEFINE n == [tasks[t] EXCEPT !.status = "in_progress"]
  <2>3. /\ n \in Task /\ n.status = "in_progress"
        /\ n.file = tasks[t].file /\ n.pages = tasks[t].pages
        /\ n.user = tasks[t].user /\ n.validation = tasks[t].validation
    BY <2>2 DEF Task, Status
  <2>4. tasks' = [tasks EXCEPT ![t] = n]
    BY <2>1
  <2> HIDE DEF n
  <2>5. Works(t, n)
    BY <2>1, <2>3, <2>4 DEF Works
  <2> QED
    BY <2>5 DEF Effect
<1>2. ASSUME NEW t \in TaskId, NEW ann \in SUBSET Page, NEW val \in SUBSET Page,
             NEW fail \in SUBSET Page, SaveAnnotation(t, ann, val, fail)
      PROVE  Effect
  <2> DEFINE mark(p) == IF p \in ann THEN "annotated"
                        ELSE IF p \in val THEN "validated"
                        ELSE IF p \in fail THEN "failed" ELSE tasks[t].marks[p]
             marks == [p \in Page |-> mark(p)]
  <2>1. /\ t \in Live /\ tasks[t].status \in {"ready", "in_progress"}
        /\ tasks' = [tasks EXCEPT ![t].status = "in_progress",
                                  ![t].marks = marks, ![t].edited = @ \cup ann]
        /\ UNCHANGED <<files, load, job>>
    BY <1>2 DEF SaveAnnotation
  <2>2. tasks[t] \in Task
    BY <2>1, LiveStatus DEF Inv
  <2>3. marks \in [Page -> Mark]
    BY <2>2 DEF Task, Mark
  <2> HIDE DEF marks
  <2> DEFINE n == [tasks[t] EXCEPT !.status = "in_progress", !.marks = marks,
                                   !.edited = @ \cup ann]
  <2>4. /\ n \in Task /\ n.status = "in_progress"
        /\ n.file = tasks[t].file /\ n.pages = tasks[t].pages
        /\ n.user = tasks[t].user /\ n.validation = tasks[t].validation
    BY <2>2, <2>3 DEF Task, Status
  <2>5. tasks' = [tasks EXCEPT ![t] = n]
    BY <2>1
  <2> HIDE DEF n
  <2>6. Works(t, n)
    BY <2>1, <2>4, <2>5 DEF Works
  <2> QED
    BY <2>6 DEF Effect
<1> QED
  BY <1>1, <1>2

\* The commit of finish_task.
LEMMA CommitEffect ==
    ASSUME SerialInv, NEW w \in Worker, FinishCommit(w)
    PROVE  Effect
<1> DEFINE r == req[w]
           t == r.task
           u == tasks[t].user
<1>1. r.pc = "applied" /\ tasks' = FinishedTable(r, r.unblocked)
      /\ files' = [files EXCEPT ![r.file] = r.row]
      /\ job' = IF r.last THEN "finished" ELSE job
  BY DEF FinishCommit
<1>2. /\ t \in Live /\ tasks[t].status = "in_progress" /\ tasks[t].file = r.file
      /\ r.file \in File /\ ServedBy(tasks, files, r)
  BY <1>1, ServedTask DEF SerialInv
<1>3. PICK new : /\ Opens(tasks, t, new) /\ Lists(tasks, r.created, new)
                 /\ r.last <=> LastTask(tasks, new)
  BY <1>1, <1>2 DEF ServedBy
<1>4. /\ DOMAIN r.unblocked = Waiting(tasks, t)
      /\ \A s \in DOMAIN r.unblocked : Opened(tasks[s], r.unblocked[s])
      /\ r.row.validated_pages = files[r.file].validated_pages
                                     \cup Marked(tasks, t, "validated")
      /\ DOMAIN r.loads = UsersOf(r.created) \cup {u}
      /\ \A x \in DOMAIN r.loads :
             r.loads[x] = IF x = u
                          THEN RemainingWork(Closed(tasks, t, r.created, r.unblocked), x)
                          ELSE RemainingWork(Grown(tasks, r.created), x)
  BY <1>1, <1>2 DEF ServedBy
<1>5. tasks' = Closed(tasks, t, r.created, r.unblocked)
  BY <1>1, TablesAre
<1>6. job' = IF LastTask(tasks, new) THEN "finished" ELSE job
  BY <1>1, <1>3
<1>7. /\ \A f \in File : f # tasks[t].file => files'[f] = files[f]
      /\ files'[tasks[t].file].validated_pages =
             files[tasks[t].file].validated_pages \cup Marked(tasks, t, "validated")
  BY <1>1, <1>2, <1>4 DEF SerialInv, Inv, TypeOK
<1>8. ASSUME ValidationType # "extensive_coverage", NEW x \in User
      PROVE  load'[x] = IF x = u THEN RemainingWork(tasks', x)
                        ELSE IF x \in UsersOf(r.created)
                        THEN RemainingWork(Grown(tasks, r.created), x)
                        ELSE load[x]
  <2>1. \A s \in DOMAIN r.unblocked : r.unblocked[s].status # "in_progress"
    BY <1>4, <1>8 DEF Opened
  <2>2. load' = [y \in User |-> IF y \in DOMAIN r.loads THEN r.loads[y] ELSE load[y]]
    BY <2>1 DEF FinishCommit
  <2> QED
    BY <1>4, <1>5, <2>2
<1> DEFINE created == r.created
           unblocked == r.unblocked
<1>9. Finishes(t, new, created, unblocked)
  <2> HIDE DEF r, t, u
  <2>1. Opens(tasks, t, new) /\ Lists(tasks, created, new)
    BY <1>3
  <2>2. /\ DOMAIN unblocked = Waiting(tasks, t)
        /\ \A s \in DOMAIN unblocked : Opened(tasks[s], unblocked[s])
    BY <1>4
  <2>3. ValidationType # "extensive_coverage" =>
            \A x \in User :
                load'[x] = IF x = tasks[t].user THEN RemainingWork(tasks', x)
                           ELSE IF x \in UsersOf(created)
                           THEN RemainingWork(Grown(tasks, created), x)
                           ELSE load[x]
    BY <1>8 DEF u
  <2> QED
    BY <1>2, <1>5, <1>6, <1>7, <2>1, <2>2, <2>3 DEF Finishes
<1> QED
  BY <1>9 DEF Effect

\* update_task.
LEMMA UpdateEffect ==
    ASSUME Inv, NEW t \in TaskId, NEW f \in File, NEW ps \in SUBSET Page,
           NEW u \in User, NEW vld \in BOOLEAN, UpdateTask(t, f, ps, u, vld)
    PROVE  Effect
<1> DEFINE old == tasks[t]
           n == [old EXCEPT !.file = f, !.pages = ps, !.user = u, !.validation = vld]
<1>1. /\ t \in Live /\ old.status = "pending" /\ tasks' = [tasks EXCEPT ![t] = n]
      /\ job # "absent" /\ job' = job /\ "update" \in AdminOps
      /\ load' = UpdateLoad([tasks EXCEPT ![t] = n], {u, old.user})
  BY DEF UpdateTask, Manage
<1>2. old \in Task
  BY <1>1, LiveStatus DEF Inv
<1>3. n \in Task /\ n.status = "pending" /\ n.user = u
  BY <1>1, <1>2 DEF Task
<1>4. old.file \in File /\ \A g \in File : files[g] \in FileRow
  BY <1>2 DEF Task, Inv, TypeOK
<1> DEFINE left == [files EXCEPT ![old.file] = RecalculateFile(files[old.file], old.file, tasks')]
<1>5. files' = IF f = old.file THEN left
               ELSE [left EXCEPT ![f] = UpdateFile(left[f], f, [x \in {t} |-> n])]
  BY <1>1 DEF UpdateTask
<1>6. \A row \in FileRow : \A g, r :
          /\ RecalculateFile(row, g, tasks').validated_pages = row.validated_pages
          /\ UpdateFile(row, g, r).validated_pages = row.validated_pages
  BY DEF RecalculateFile, UpdateFile, FileRow
<1> HIDE DEF n
<1>7. SameApproval
  <2>1. DOMAIN files = File
    BY DEF Inv, TypeOK
  <2>2. ASSUME NEW g \in File
        PROVE  files'[g].validated_pages = files[g].validated_pages
    <3>1. CASE g = old.file
      BY <1>4, <1>5, <1>6, <2>1, <3>1
    <3>2. CASE g # old.file /\ g = f
      BY <1>4, <1>5, <1>6, <2>1, <3>2
    <3>3. CASE g # old.file /\ g # f
      BY <1>4, <1>5, <1>6, <2>1, <3>3
    <3> QED
      BY <3>1, <3>2, <3>3
  <2> QED
    BY <2>2 DEF SameApproval
<1>8. load' = UpdateLoad(tasks', {n.user, tasks[t].user})
  BY <1>1, <1>3
<1>9. Updates(t, n)
  BY <1>1, <1>3, <1>7, <1>8 DEF Updates
<1> QED
  BY <1>9 DEF Effect

\* delete_task and delete_batch_tasks.
LEMMA DeleteEffect ==
    ASSUME Inv, NEW ts \in SUBSET Live, DeleteTasks(ts), job # "absent",
           \/ "delete" \in AdminOps
           \/ /\ "delete_batch" \in AdminOps
              /\ \A t \in ts : tasks[t].status \in {"pending", "ready"}
    PROVE  Effect
<1>1. /\ tasks' = [t \in TaskId |-> IF t \in ts THEN [tasks[t] EXCEPT !.status = "deleted"]
                                    ELSE tasks[t]]
      /\ job' = job
  BY DEF DeleteTasks
<1>2. load' = UpdateLoad(tasks', {tasks[t].user : t \in ts})
  BY DEF DeleteTasks
<1>3. SameApproval
  <2>1. files' = [f \in File |-> IF f \in {tasks[t].file : t \in ts}
                                 THEN RecalculateFile(files[f], f, tasks') ELSE files[f]]
    BY DEF DeleteTasks
  <2>2. \A f \in File : files[f] \in FileRow
    BY DEF Inv, TypeOK
  <2>3. \A f \in File :
            RecalculateFile(files[f], f, tasks').validated_pages = files[f].validated_pages
    BY <2>2 DEF RecalculateFile, FileRow
  <2> QED
    BY <2>1, <2>3 DEF SameApproval
<1>4. Deletes(ts)
  BY <1>1, <1>2, <1>3 DEF Deletes
<1> QED
  BY <1>4 DEF Effect

\* Every step of the job is one of them.
LEMMA NextEffect ==
    ASSUME SerialInv, Next
    PROVE  Effect
<1>1. Inv
  BY DEF SerialInv
<1>2. PostJob => Effect
  BY <1>1, PostJobEffect
<1>3. ASSUME NEW w \in Worker, StartCommit(w) PROVE Effect
  BY <1>3, StartCommitEffect
<1>4. ASSUME \/ \E u \in User : NextAnnotationTask(u)
             \/ \E t \in TaskId, ann, val, fail \in SUBSET Page :
                    SaveAnnotation(t, ann, val, fail)
      PROVE  Effect
  BY <1>1, <1>4, WorkEffect
<1>5. ASSUME NEW w \in Worker,
             \/ \E t \in TaskId : FinishCheck(w, t)
             \/ FinishPrepare(w) \/ FinishReport(w) \/ FinishApply(w) \/ FinishFails(w)
             \/ FirstStart(w) \/ Restart(w) \/ StartReport(w)
             \/ FindUnassigned(w) \/ Abandon(w)
      PROVE  Effect
  <2>1. Still
    BY <1>5 DEF FinishCheck, FinishPrepare, FinishReport, FinishApply, FinishFails,
                FirstStart, Restart, StartJob, StartReport,
                FindUnassigned, Abandon, Still
  <2> QED
    BY <2>1 DEF Effect
<1>6. ASSUME NEW w \in Worker, FinishCommit(w) \/ DistributeUnassigned(w)
      PROVE  Effect
  BY <1>6, CommitEffect, DistributeUnassignedEffect
<1>7. ASSUME NEW f \in File, NEW ps \in (SUBSET Page) \ {{}}, NEW u \in User,
             NEW vld \in BOOLEAN,
             \/ PostTask(f, ps, u, vld)
             \/ \E t \in TaskId : UpdateTask(t, f, ps, u, vld)
      PROVE  Effect
  BY <1>1, <1>7, PostTaskEffect, UpdateEffect
<1>8. ASSUME NEW t \in TaskId, DeleteTask(t)
      PROVE  Effect
  <2>1. {t} \in SUBSET Live /\ DeleteTasks({t}) /\ job # "absent" /\ "delete" \in AdminOps
    BY <1>8 DEF DeleteTask, Manage
  <2> QED
    BY <1>1, <2>1, DeleteEffect
<1>9. ASSUME NEW ts \in SUBSET TaskId, DeleteBatch(ts)
      PROVE  Effect
  <2>1. /\ ts \in SUBSET Live /\ DeleteTasks(ts) /\ job # "absent"
        /\ "delete_batch" \in AdminOps
        /\ \A t \in ts : tasks[t].status \in {"pending", "ready"}
    BY <1>9 DEF DeleteBatch, Manage
  <2> QED
    BY <1>1, <2>1, DeleteEffect
<1>10. ASSUME NEW fs \in (SUBSET File) \ {{}}, NEW us \in SUBSET User, PostTasks(fs, us)
       PROVE  Effect
  BY <1>1, <1>10, PostTasksEffect
<1> QED
  BY <1>2, <1>3, <1>4, <1>5, <1>6, <1>7, <1>8, <1>9, <1>10 DEF Next

\* What becomes of request w in a step.
LEMMA NextRequest ==
    ASSUME SerialInv, Next, NEW w \in Worker
    PROVE  \/ req'[w] \in {req[w], Idle}
           \/ req'[w].pc # "distributing" /\ job # "absent"
           \/ "unassigned" \in AdminOps /\ job # "absent"
<1> DEFINE Fine == \/ req'[w] \in {req[w], Idle}
                   \/ req'[w].pc # "distributing" /\ job # "absent"
                   \/ "unassigned" \in AdminOps /\ job # "absent"
<1>1. /\ DOMAIN req = Worker /\ Unstarted
      /\ \A t \in Live : t \in TaskId /\ tasks[t].status # "absent"
  BY DEF SerialInv, Inv, TypeOK, Live, Status
<1>2. req' = req => Fine
  OBVIOUS
<1>3. ASSUME NEW x \in Worker, NEW r, req' = [req EXCEPT ![x] = r],
             \/ r = Idle
             \/ r.pc # "distributing" /\ job # "absent"
             \/ "unassigned" \in AdminOps /\ job # "absent"
      PROVE  Fine
  BY <1>1, <1>3
<1> HIDE DEF Fine
<1>4. ASSUME NEW x \in Worker, NEW t \in TaskId, FinishCheck(x, t) PROVE Fine
  <2> DEFINE marked(m) == {p \in tasks[t].pages :
                              tasks[t].validation /\ tasks[t].marks[p] = m}
             r == [pc |-> "checked", task |-> t, file |-> tasks[t].file,
                   validated |-> marked("validated"), failed |-> marked("failed"),
                   edited |-> marked("annotated")]
  <2>1. req' = [req EXCEPT ![x] = r] /\ t \in Live
    BY <1>4 DEF FinishCheck
  <2>2. r.pc = "checked"
    OBVIOUS
  <2> HIDE DEF r
  <2>3. job # "absent"
    BY <1>1, <2>1 DEF Unstarted
  <2> QED
    BY <1>3, <2>1, <2>2, <2>3
<1>5. ASSUME NEW x \in Worker,
             FinishPrepare(x) \/ FinishReport(x) \/ FinishApply(x) \/ StartReport(x)
      PROVE  Fine
  <2>1. PICK r : req' = [req EXCEPT ![x] = r]
    BY <1>5 DEF FinishPrepare, FinishReport, FinishApply, StartReport
  <2>2. req[x].pc # "idle" /\ req'[x].pc \in {"counted", "reported", "applied", "started", "idle"}
    BY <1>1, <1>5 DEF FinishPrepare, FinishReport, FinishApply, StartReport, ReadyToApply, Idle
  <2>3. r.pc # "distributing" /\ req[x] # Idle
    BY <1>1, <2>1, <2>2 DEF Idle
  <2>4. job # "absent"
    BY <1>1, <2>3 DEF Unstarted
  <2> QED
    BY <1>3, <2>1, <2>3, <2>4
<1>6. ASSUME NEW x \in Worker,
             \/ FinishFails(x) \/ FinishCommit(x) \/ StartCommit(x)
             \/ DistributeUnassigned(x) \/ Abandon(x)
      PROVE  Fine
  <2>1. req' = [req EXCEPT ![x] = Idle]
    BY <1>6 DEF FinishFails, FinishCommit, StartCommit, DistributeUnassigned, Abandon
  <2> QED
    BY <1>3, <2>1
<1>7. ASSUME NEW x \in Worker, FindUnassigned(x) PROVE Fine
  <2>1. PICK r : req' = [req EXCEPT ![x] = r]
    BY <1>7 DEF FindUnassigned
  <2>2. "unassigned" \in AdminOps /\ job # "absent"
    BY <1>7 DEF FindUnassigned, Manage
  <2> QED
    BY <1>3, <2>1, <2>2
<1>8. PostJob => req' = req
  BY DEF PostJob
<1>14. ASSUME NEW x \in Worker, FirstStart(x) \/ Restart(x) PROVE Fine
  <2> DEFINE r == [pc |-> "starting", started |-> LeadingTasks]
  <2>1. req' = [req EXCEPT ![x] = r] /\ job # "absent"
    BY <1>14 DEF FirstStart, Restart, StartJob
  <2>2. r.pc # "distributing"
    OBVIOUS
  <2> HIDE DEF r
  <2> QED
    BY <1>3, <2>1, <2>2
<1>9. ASSUME \/ \E u \in User : NextAnnotationTask(u)
             \/ \E t \in TaskId, ann, val, fail \in SUBSET Page :
                    SaveAnnotation(t, ann, val, fail)
      PROVE  req' = req
  BY <1>9 DEF NextAnnotationTask, SaveAnnotation
<1>10. ASSUME NEW f \in File, NEW ps \in (SUBSET Page) \ {{}}, NEW u \in User,
              NEW vld \in BOOLEAN,
              \/ PostTask(f, ps, u, vld)
              \/ \E t \in TaskId : UpdateTask(t, f, ps, u, vld)
       PROVE  req' = req
  BY <1>10 DEF PostTask, UpdateTask
<1>11. ASSUME NEW ts, DeleteBatch(ts) \/ DeleteTask(ts) PROVE req' = req
  BY <1>11 DEF DeleteBatch, DeleteTask, DeleteTasks
<1>12. ASSUME NEW fs, NEW us, PostTasks(fs, us) PROVE req' = req
  BY <1>12 DEF PostTasks
<1>13. Fine
  BY <1>2, <1>4, <1>5, <1>6, <1>7, <1>8, <1>9, <1>10, <1>11, <1>12, <1>14 DEF Next
<1> QED
  BY <1>13 DEF Fine

\* A step leaves an unstarted job untouched.
LEMMA NextUnstarted ==
    ASSUME SerialInv, Next, ~Interleave
    PROVE  Unstarted'
<1>1. Effect
  BY NextEffect
<1>2. /\ tasks \in Tables /\ \A t \in Live : tasks[t].status # "absent"
      /\ \A t \in Live : t \in TaskId
  BY DEF SerialInv, Inv, TypeOK, Tables, Live, Status
<1>3. Unstarted
  BY DEF SerialInv
<1>4. job' = "absent" => \A t \in TaskId : tasks'[t].status = "absent"
  <2>1. SUFFICES ASSUME job' = "absent"
                 PROVE  \A t \in TaskId : tasks'[t].status = "absent"
    OBVIOUS
  <2>2. Still => job = "absent" /\ tasks' = tasks
    BY <2>1 DEF Still
  <2>3. ASSUME NEW new, NEW r, Inserts(new, r) PROVE FALSE
    BY <2>1, <2>3 DEF Inserts
  <2>4. Starts => FALSE
    BY <2>1 DEF Starts
  <2>5. ASSUME NEW t, NEW n, Works(t, n) PROVE FALSE
    BY <1>2, <1>3, <2>1, <2>5 DEF Works, Unstarted
  <2>6. ASSUME NEW t, NEW new, NEW created, NEW unblocked,
               Finishes(t, new, created, unblocked)
        PROVE  FALSE
    BY <1>2, <1>3, <2>1, <2>6 DEF Finishes, Unstarted
  <2>7. ASSUME NEW t, NEW n, Updates(t, n) PROVE FALSE
    BY <2>1, <2>7 DEF Updates
  <2>8. ASSUME NEW ts, Deletes(ts) PROVE FALSE
    BY <2>1, <2>8 DEF Deletes
  <2> QED
    BY <1>1, <1>3, <2>2, <2>3, <2>4, <2>5, <2>6, <2>7, <2>8 DEF Effect, Unstarted
<1>5. job' = "pending" =>
          \A t \in TaskId : tasks'[t].status \in {"absent", "pending", "deleted"}
  <2>1. SUFFICES ASSUME job' = "pending", NEW s \in TaskId
                 PROVE  tasks'[s].status \in {"absent", "pending", "deleted"}
    OBVIOUS
  <2>2. Still => job = "pending" /\ tasks' = tasks
    BY <2>1 DEF Still
  <2>3. ASSUME NEW new, NEW r, Inserts(new, r)
        PROVE  tasks'[s].status \in {"absent", "pending", "deleted"}
    <3>1. tasks[s].status \in {"absent", "pending", "deleted"}
      BY <1>3, <2>1, <2>3 DEF Inserts, Unstarted
    <3>2. s \in DOMAIN r => r[s].status = "pending"
      BY <2>3 DEF Inserts, Lists
    <3>3. tasks'[s] = IF s \in DOMAIN r THEN r[s] ELSE tasks[s]
      BY <2>3 DEF Inserts, Grown
    <3> QED
      BY <3>1, <3>2, <3>3
  <2>4. Starts => FALSE
    BY <2>1 DEF Starts
  <2>5. ASSUME NEW t, NEW n, Works(t, n) PROVE FALSE
    BY <1>2, <1>3, <2>1, <2>5 DEF Works, Unstarted
  <2>6. ASSUME NEW t, NEW new, NEW created, NEW unblocked,
               Finishes(t, new, created, unblocked)
        PROVE  FALSE
    BY <1>2, <1>3, <2>1, <2>6 DEF Finishes, Unstarted
  <2>7. ASSUME NEW t, NEW n, Updates(t, n)
        PROVE  tasks'[s].status \in {"absent", "pending", "deleted"}
    <3>1. tasks'[s] = n \/ tasks'[s] = tasks[s]
      BY <1>2, <2>7 DEF Updates, Tables
    <3> QED
      BY <1>3, <2>1, <2>7, <3>1 DEF Updates, Unstarted
  <2>8. ASSUME NEW ts, Deletes(ts)
        PROVE  tasks'[s].status \in {"absent", "pending", "deleted"}
    <3>1. tasks[s].status \in {"absent", "pending", "deleted"}
      BY <1>3, <2>1, <2>8 DEF Deletes, Unstarted
    <3>2. s \in ts => tasks[s] \in Task
      BY <2>8, LiveStatus DEF Deletes, SerialInv, Inv
    <3>3. tasks'[s] = IF s \in ts THEN [tasks[s] EXCEPT !.status = "deleted"] ELSE tasks[s]
      BY <2>8 DEF Deletes
    <3> QED
      BY <3>1, <3>2, <3>3 DEF Task
  <2> QED
    BY <1>1, <1>3, <2>1, <2>2, <2>3, <2>4, <2>5, <2>6, <2>7, <2>8 DEF Effect, Unstarted
<1>6. job' = "absent" => job = "absent"
  <2>1. ASSUME NEW t, NEW new, NEW created, NEW unblocked,
               Finishes(t, new, created, unblocked)
        PROVE  job' \in {"finished", job}
    BY <2>1 DEF Finishes
  <2> QED
    BY <1>1, <2>1 DEF Effect, Still, Inserts, Starts, Works, Updates, Deletes
<1>7. ASSUME job' = "absent", NEW w \in Worker PROVE req'[w] = Idle
  BY <1>3, <1>6, <1>7, NextRequest DEF Unstarted
<1>8. ASSUME NEW w \in Worker, req'[w].pc = "distributing" PROVE "unassigned" \in AdminOps
  <2>1. Idle.pc = "idle"
    BY DEF Idle
  <2> QED
    BY <1>3, <1>8, <2>1, NextRequest DEF Unstarted
<1> QED
  BY <1>4, <1>5, <1>7, <1>8 DEF Unstarted

\* The invariant holds of an empty database.
LEMMA InitSerial == Init => SerialInv
<1> SUFFICES ASSUME Init
             PROVE  SerialInv
  OBVIOUS
<1>1. Inv
  BY InitInv
<1>2. Idle.pc = "idle" /\ \A w \in Worker : req[w] = Idle
  BY DEF Init, Idle
<1>3. OneServed /\ StartsAllowed /\ \A w \in Worker : ServedBy(tasks, files, req[w])
  BY <1>2, NothingServed DEF OneServed, StartsAllowed
<1>4. Unstarted
  BY <1>2 DEF Unstarted, Init, Absent
<1> QED
  BY <1>1, <1>3, <1>4 DEF SerialInv

\* Every step keeps it.
LEMMA NextSerial ==
    ASSUME ~Interleave, SerialInv, [Next]_vars
    PROVE  SerialInv'
<1>1. CASE Next
  <2>1. Inv'
    BY <1>1, NextInv DEF SerialInv
  <2> QED
    BY <1>1, <2>1, NextServed, NextUnstarted DEF SerialInv
<1>2. CASE UNCHANGED vars
  <2>1. Inv'
    BY <1>2, StutterInv DEF SerialInv
  <2>2. tasks' = tasks /\ files' = files /\ job' = job /\ req' = req
    BY <1>2 DEF vars
  <2> QED
    BY <2>1, <2>2 DEF SerialInv, OneServed, StartsAllowed, Unstarted
<1> QED
  BY <1>1, <1>2

(***************************************************************************)
(* Between the statements of finish_task nothing it has read changes, when *)
(* no other request runs meanwhile.                                        *)
(***************************************************************************)
THEOREM SerialInvHolds ==
    ASSUME ~Interleave
    PROVE  Spec => []SerialInv
<1>1. SerialInv /\ [Next]_vars => SerialInv'
  BY NextSerial
<1> QED
  BY InitSerial, <1>1, PTL DEF Spec

\* A step, or none, has one of the effects.
LEMMA StepEffect ==
    ASSUME SerialInv, [Next]_vars
    PROVE  Effect
<1>1. CASE UNCHANGED vars
  BY <1>1 DEF vars, Effect, Still
<1> QED
  BY <1>1, NextEffect

-----------------------------------------------------------------------------
(* The commit of finish_task, seen from the tasks table *)

\* What becomes of task s when t is closed.
ClosedRow(s, t, new) ==
    \/ /\ s # t /\ tasks[s].status = "absent"
       /\ tasks'[s] \in new /\ tasks'[s] \in Task
       /\ tasks'[s].status \in {"pending", "ready"}
    \/ /\ s # t /\ s \in Waiting(tasks, t)
       /\ tasks[s].status = "pending" /\ Opened(tasks[s], tasks'[s])
    \/ /\ s = t /\ tasks'[s] = [tasks[s] EXCEPT !.status = "finished"]
    \/ /\ s # t /\ s \notin Waiting(tasks, t) /\ tasks'[s] = tasks[s]

\* Each task is closed, made, opened, or left as it was.
LEMMA ClosedRows ==
    ASSUME TypeOK, NEW t, NEW new, NEW created, NEW unblocked,
           Finishes(t, new, created, unblocked), NEW s \in TaskId
    PROVE  ClosedRow(s, t, new)
<1>1. /\ t \in Live /\ tasks[t].status = "in_progress"
      /\ Opens(tasks, t, new) /\ Lists(tasks, created, new)
      /\ DOMAIN unblocked = Waiting(tasks, t)
      /\ \A x \in DOMAIN unblocked : Opened(tasks[x], unblocked[x])
      /\ tasks' = Closed(tasks, t, created, unblocked)
  BY DEF Finishes
<1>2. tasks'[s] = IF s \in DOMAIN created THEN created[s]
                  ELSE IF s \in Waiting(tasks, t) THEN unblocked[s]
                  ELSE IF s = t THEN [tasks[s] EXCEPT !.status = "finished"]
                  ELSE tasks[s]
  BY <1>1 DEF Closed
<1>3. \A x \in Waiting(tasks, t) : tasks[x].status = "pending"
  BY DEF Waiting
<1>4. CASE s \in DOMAIN created
  <2>1. tasks[s].status = "absent" /\ created[s] \in new
    BY <1>1, <1>4 DEF Lists
  <2>2. created[s] \in Task /\ created[s].status \in {"pending", "ready"}
    BY <1>1, <2>1 DEF Opens, FollowUp
  <2>3. s # t
    BY <1>1, <2>1
  <2> QED
    BY <1>2, <1>4, <2>1, <2>2, <2>3 DEF ClosedRow
<1>5. CASE s \notin DOMAIN created /\ s \in Waiting(tasks, t)
  BY <1>1, <1>2, <1>3, <1>5 DEF ClosedRow
<1>6. CASE s \notin DOMAIN created /\ s \notin Waiting(tasks, t)
  BY <1>2, <1>6 DEF ClosedRow
<1> QED
  BY <1>4, <1>5, <1>6

\* Only t becomes finished.
LEMMA ClosedFinished ==
    ASSUME TypeOK, NEW t, NEW new, NEW created, NEW unblocked,
           Finishes(t, new, created, unblocked)
    PROVE  /\ t \in TaskId /\ t \in LiveIn(tasks) /\ t \notin FinishedIn(tasks)
           /\ FinishedIn(tasks') = FinishedIn(tasks) \cup {t}
<1>1. t \in TaskId /\ t \in LiveIn(tasks) /\ t \notin FinishedIn(tasks)
  BY LiveAre DEF Finishes, FinishedIn
<1>2. ASSUME NEW s \in TaskId
      PROVE  tasks'[s].status = "finished" <=> tasks[s].status = "finished" \/ s = t
  <2>1. tasks[t] \in Task
    BY LiveStatus DEF Finishes
  <2>2. ClosedRow(s, t, new)
    BY ClosedRows
  <2>3. tasks[t].status # "finished"
    BY DEF Finishes
  <2> QED
    BY <2>1, <2>2, <2>3 DEF ClosedRow, Opened, Task
<1> QED
  BY <1>1, <1>2 DEF FinishedIn

\* The finished annotation tasks with page p.
LEMMA ClosedAnnotating ==
    ASSUME TypeOK, NEW t, NEW new, NEW created, NEW unblocked,
           Finishes(t, new, created, unblocked), NEW p, ~tasks[t].validation
    PROVE  Annotating(tasks', tasks[t].file, p) =
               Annotating(tasks, tasks[t].file, p)
                   \cup {s \in {t} : p \in tasks[s].pages}
<1>1. t \in TaskId /\ FinishedIn(tasks') = FinishedIn(tasks) \cup {t}
  BY ClosedFinished
<1>2. tasks[t] \in Task
  BY LiveStatus DEF Finishes
<1>3. ASSUME NEW s \in TaskId, s \in FinishedIn(tasks)
      PROVE  tasks'[s] = tasks[s]
  <2>1. s # t /\ tasks[s].status = "finished"
    BY <1>3, ClosedFinished DEF FinishedIn
  <2> QED
    BY <2>1, ClosedRows DEF ClosedRow
<1>4. /\ tasks'[t].file = tasks[t].file /\ tasks'[t].pages = tasks[t].pages
      /\ tasks'[t].validation = tasks[t].validation
  BY <1>1, <1>2, ClosedRows DEF ClosedRow, Task
<1> QED
  BY <1>1, <1>3, <1>4 DEF Annotating, FinishedIn

\* Pages are annotated when enough finished tasks have them.
LEMMA AnnotatedNext ==
    ASSUME TypeOK', NEW f \in File, NEW p
    PROVE  Annotated(f, p)' <=> Cardinality(Annotating(tasks', f, p)) >= Coverage
<1>1. \A s \in FinishedIn(tasks') : tasks'[s] \in Task
  BY DEF TypeOK, FinishedIn, Absent
<1>2. {s \in (TasksOf(f, FALSE) \cap FinishedTasks)' : p \in tasks'[s].pages}
          = Annotating(tasks', f, p)
  BY <1>1 DEF TasksOf, FinishedTasks, Live, Annotating, FinishedIn, Task, Status
<1> QED
  BY <1>2 DEF Annotated

\* A task counts once, whether it is finished or being finished.
LEMMA OwnApart ==
    ASSUME TypeOK, NEW t, NEW new, NEW created, NEW unblocked,
           Finishes(t, new, created, unblocked), NEW f, NEW p
    PROVE  Cardinality(Annotating(tasks, f, p) \cup {s \in {t} : p \in tasks[s].pages})
               = Cardinality({s \in {t} : p \in tasks[s].pages})
                 + Cardinality(Annotating(tasks, f, p))
<1> DEFINE old == Annotating(tasks, f, p)
           own == {s \in {t} : p \in tasks[s].pages}
<1>1. old \in SUBSET TaskId /\ own \in SUBSET TaskId /\ old \cap own = {}
  BY ClosedFinished DEF Annotating, FinishedIn
<1>2. IsFiniteSet(old) /\ IsFiniteSet(own)
  BY <1>1, TasksFinite
<1>3. Cardinality(old \cup own)
          = Cardinality(old) + Cardinality(own) - Cardinality(old \cap own)
  BY <1>2, FS_Union
<1>4. Cardinality(old \cap own) = 0
  BY <1>1, FS_EmptySet
<1> QED
  BY <1>1, <1>3, <1>4, TasksFinite

\* A page done with t's is annotated once t is closed.
LEMMA DoneIsAnnotated ==
    ASSUME TypeOK, TypeOK', NEW t, NEW new, NEW created, NEW unblocked,
           Finishes(t, new, created, unblocked), ~tasks[t].validation,
           NEW p \in Page
    PROVE  p \in Done(tasks, t) =>
               Cardinality(Annotating(tasks', tasks[t].file, p)) = Coverage
<1> DEFINE old == Annotating(tasks, tasks[t].file, p)
           own == {s \in {t} : p \in tasks[s].pages}
<1>1. Annotating(tasks', tasks[t].file, p) = old \cup own
  BY ClosedAnnotating
<1>2. Cardinality(old \cup own) = Cardinality(own) + Cardinality(old)
  BY OwnApart
<1> QED
  BY <1>1, <1>2 DEF Done

-----------------------------------------------------------------------------
(* When validation starts *)

\* The commit of finish_task opens what its pages complete.
LEMMA FinishStarts ==
    ASSUME TypeOK, TypeOK', NEW t, NEW new, NEW created, NEW unblocked,
           Finishes(t, new, created, unblocked)
    PROVE  StartsValidation
<1> SUFFICES ASSUME NEW s \in TaskId,
                    tasks[s].status = "pending", tasks[s].validation,
                    tasks'[s].status \in {"ready", "in_progress", "finished"},
                    NEW f \in File, NEW p \in Page,
                    tasks'[s].file = f, p \in tasks'[s].pages
             PROVE  Annotated(f, p)'
  BY DEF StartsValidation
<1>1. ClosedRow(s, t, new)
  BY ClosedRows
<1>2. s \in Waiting(tasks, t) /\ Opened(tasks[s], tasks'[s])
  <2>1. s # t
    BY DEF Finishes
  <2> QED
    BY <1>1, <2>1 DEF ClosedRow
<1>3. ~tasks[t].validation /\ f = tasks[t].file /\ p \in Done(tasks, t)
  BY <1>2 DEF Waiting, Opened
<1>4. Cardinality(Annotating(tasks', f, p)) = Coverage
  BY <1>3, DoneIsAnnotated
<1> QED
  BY <1>4, AnnotatedNext, JobAssumption

\* No other step opens a validation task, but in a validation_only job.
LEMMA OthersStartNone ==
    ASSUME TypeOK, Effect,
           ~ \E t, new, created, unblocked : Finishes(t, new, created, unblocked)
    PROVE  StartsValidation
<1> SUFFICES ASSUME NEW s \in TaskId, ValidationType # "validation_only",
                    tasks[s].status = "pending", tasks[s].validation,
                    tasks'[s].status \in {"ready", "in_progress", "finished"}
             PROVE  FALSE
  BY DEF StartsValidation
<1>1. s \in Live /\ tasks \in Tables
  BY DEF Live, Status, TypeOK, Tables
<1>2. tasks[s] \in Task
  BY <1>1, LiveStatus
<1>3. Still => FALSE
  BY DEF Still
<1>4. ASSUME NEW new, NEW r, Inserts(new, r) PROVE FALSE
  BY <1>4 DEF Inserts, Grown, Lists
<1>5. Starts => FALSE
  BY <1>2 DEF Starts, StartedTasks, LeadingTasks, Task
<1>6. ASSUME NEW t, NEW n, Works(t, n) PROVE FALSE
  BY <1>1, <1>6 DEF Works, Tables
<1>7. ASSUME NEW t, NEW n, Updates(t, n) PROVE FALSE
  BY <1>1, <1>7 DEF Updates, Tables
<1>8. ASSUME NEW ts, Deletes(ts) PROVE FALSE
  BY <1>2, <1>8 DEF Deletes, Task
<1> QED
  BY <1>3, <1>4, <1>5, <1>6, <1>7, <1>8 DEF Effect

(***************************************************************************)
(* A validation task leaves "pending" only when each of its pages is in as *)
(* many finished annotation tasks as the job asks for: what                *)
(* unblock_validation_tasks promises, whatever the manager does, as long   *)
(* as requests do not overlap.                                             *)
(***************************************************************************)
THEOREM ValidationStarts ==
    ASSUME ~Interleave
    PROVE  Spec => ValidationStartsAfterAnnotation
<1>1. SerialInv /\ SerialInv' /\ [Next]_vars => [StartsValidation]_vars
  <2> SUFFICES ASSUME SerialInv, SerialInv', [Next]_vars
               PROVE  StartsValidation
    OBVIOUS
  <2>1. TypeOK /\ TypeOK'
    BY DEF SerialInv, Inv
  <2>2. Effect
    BY StepEffect
  <2> QED
    BY <2>1, <2>2, FinishStarts, OthersStartNone
<1>2. Spec => []SerialInv
  BY SerialInvHolds
<1> QED
  BY <1>1, <1>2, PTL DEF Spec, ValidationStartsAfterAnnotation

-----------------------------------------------------------------------------
(* What a user has left to do *)

\* Task t is unfinished work of user u in table tt.
Burdens(tt, t, u) == tt[t].status \in Status \ {"finished"} /\ tt[t].user = u

\* A step that gives user u nothing and takes nothing from him.
SameBurden(old, new, u) ==
    \A t \in TaskId : /\ Burdens(old, t, u) <=> Burdens(new, t, u)
                      /\ Burdens(new, t, u) => new[t].pages = old[t].pages

\* It leaves his work as it was.
LEMMA SameWork ==
    ASSUME NEW old, NEW new, NEW u, SameBurden(old, new, u)
    PROVE  RemainingWork(new, u) = RemainingWork(old, u)
BY DEF RemainingWork, SameBurden, Burdens

\* update_user_overall_load is called for every user whose tasks changed.
LEMMA LoadUpdated ==
    ASSUME NEW us, load' = UpdateLoad(tasks', us),
           \A u \in User : load[u] = RemainingWork(tasks, u),
           \A u \in User \ us : SameBurden(tasks, tasks', u)
    PROVE  \A u \in User : load'[u] = RemainingWork(tasks', u)
BY SameWork DEF UpdateLoad

\* finish_task recomputes the load of the user of the task, and those of
\* the users of the tasks it makes.
LEMMA FinishLoad ==
    ASSUME TypeOK, NEW t, NEW new, NEW created, NEW unblocked,
           Finishes(t, new, created, unblocked),
           ValidationType # "extensive_coverage",
           \A u \in User : load[u] = RemainingWork(tasks, u)
    PROVE  \A u \in User : load'[u] = RemainingWork(tasks', u)
<1> SUFFICES ASSUME NEW u \in User, u # tasks[t].user
             PROVE  load'[u] = RemainingWork(tasks', u)
  BY DEF Finishes
<1>1. tasks[t] \in Task
  BY LiveStatus DEF Finishes
<1>2. CASE u \in UsersOf(created)
  <2>1. ASSUME NEW s \in TaskId
        PROVE  /\ Burdens(Grown(tasks, created), s, u) <=> Burdens(tasks', s, u)
               /\ Burdens(tasks', s, u) => tasks'[s].pages = Grown(tasks, created)[s].pages
    <3>1. /\ tasks'[s] = IF s \in DOMAIN created THEN created[s]
                         ELSE IF s \in DOMAIN unblocked THEN unblocked[s]
                         ELSE IF s = t THEN [tasks[s] EXCEPT !.status = "finished"]
                         ELSE tasks[s]
          /\ Grown(tasks, created)[s] = IF s \in DOMAIN created THEN created[s]
                                        ELSE tasks[s]
      BY DEF Finishes, Closed, Grown
    <3>2. \A x \in DOMAIN unblocked : /\ Opened(tasks[x], unblocked[x])
                                      /\ tasks[x].status = "pending"
      BY DEF Finishes, Waiting
    <3>3. CASE s \in DOMAIN created
      BY <3>1, <3>3 DEF Burdens
    <3>4. CASE s \notin DOMAIN created /\ s \in DOMAIN unblocked
      BY <3>1, <3>2, <3>4 DEF Burdens, Opened, Status
    <3>5. CASE s \notin DOMAIN created /\ s \notin DOMAIN unblocked
      BY <1>1, <3>1, <3>5 DEF Burdens, Task
    <3> QED
      BY <3>3, <3>4, <3>5
  <2>2. SameBurden(Grown(tasks, created), tasks', u)
    BY <2>1 DEF SameBurden
  <2> QED
    BY <1>2, <2>2, SameWork DEF Finishes
<1>3. CASE u \notin UsersOf(created)
  <2>1. ASSUME NEW s \in TaskId
        PROVE  /\ Burdens(tasks, s, u) <=> Burdens(tasks', s, u)
               /\ Burdens(tasks', s, u) => tasks'[s].pages = tasks[s].pages
    <3>1. CASE s \in DOMAIN created
      <4>1. tasks'[s] = created[s] /\ tasks[s].status = "absent"
        BY <3>1 DEF Finishes, Closed, Lists
      <4>2. created[s].user # u
        BY <1>3, <3>1 DEF UsersOf
      <4> QED
        BY <4>1, <4>2 DEF Burdens, Status
    <3>2. CASE s \notin DOMAIN created
      <4>1. \/ s \in DOMAIN unblocked /\ tasks'[s] = unblocked[s]
            \/ s = t /\ tasks'[s] = [tasks[s] EXCEPT !.status = "finished"]
            \/ tasks'[s] = tasks[s]
        BY <3>2 DEF Finishes, Closed
      <4>2. s \in DOMAIN unblocked => /\ Opened(tasks[s], unblocked[s])
                                      /\ tasks[s].status = "pending"
        BY DEF Finishes, Waiting
      <4> QED
        BY <1>1, <4>1, <4>2 DEF Burdens, Opened, Status, Task
    <3> QED
      BY <3>1, <3>2
  <2>2. SameBurden(tasks, tasks', u)
    BY <2>1 DEF SameBurden
  <2> QED
    BY <1>3, <2>2, SameWork DEF Finishes
<1> QED
  BY <1>2, <1>3

\* LoadIsRemainingWork, of the tables by name.
LoadInv == \A u \in User : load[u] = RemainingWork(tasks, u)

\* Every step keeps it, unless start_job opens finished tasks again.
LEMMA NextLoad ==
    ASSUME SerialInv, Effect, LoadInv,
           "start" \notin AdminOps, ValidationType # "extensive_coverage"
    PROVE  LoadInv'
<1>1. TypeOK /\ tasks \in Tables /\ \A u \in User : load[u] = RemainingWork(tasks, u)
  BY DEF SerialInv, Inv, TypeOK, Tables, LoadInv
<1> DEFINE Right == \A u \in User : load'[u] = RemainingWork(tasks', u)
<1>2. ASSUME load' = load, \A u \in User : SameBurden(tasks, tasks', u)
      PROVE  Right
  BY <1>1, <1>2, SameWork
<1> HIDE DEF Right
<1>3. Still => Right
  BY <1>1 DEF Still, Right
<1>4. ASSUME NEW new, NEW r, Inserts(new, r) PROVE Right
  <2>1. load' = UpdateLoad(tasks', UsersOf(r))
    BY <1>4 DEF Inserts
  <2>2. ASSUME NEW u \in User \ UsersOf(r) PROVE SameBurden(tasks, tasks', u)
    BY <1>4, <2>2 DEF Inserts, Grown, Lists, SameBurden, Burdens, UsersOf, Status
  <2> QED
    BY <1>1, <2>1, <2>2, LoadUpdated DEF Right
<1>5. ASSUME Starts PROVE Right
  <2>1. \A t \in Live : tasks[t] \in Task /\ tasks[t].status = "pending" /\ t \in TaskId
    BY <1>1, <1>5, LiveStatus DEF Starts, SerialInv, Unstarted, Status
  <2>2. ASSUME NEW u \in User PROVE SameBurden(tasks, tasks', u)
    <3>1. ASSUME NEW t \in TaskId
          PROVE  \/ tasks'[t] = tasks[t]
                 \/ t \in Live /\ tasks'[t] = [tasks[t] EXCEPT !.status = "ready"]
      BY <1>5 DEF Starts, StartedTasks, LeadingTasks
    <3>2. ASSUME NEW t \in TaskId
          PROVE  /\ Burdens(tasks, t, u) <=> Burdens(tasks', t, u)
                 /\ tasks'[t].pages = tasks[t].pages
      <4>1. CASE tasks'[t] = tasks[t]
        BY <4>1 DEF Burdens
      <4>2. CASE t \in Live /\ tasks'[t] = [tasks[t] EXCEPT !.status = "ready"]
        <5>1. /\ tasks[t].status = "pending" /\ tasks'[t].status = "ready"
              /\ tasks'[t].user = tasks[t].user /\ tasks'[t].pages = tasks[t].pages
          BY <2>1, <4>2 DEF Task
        <5> QED
          BY <5>1 DEF Burdens, Status
      <4> QED
        BY <3>1, <4>1, <4>2
    <3> QED
      BY <3>2 DEF SameBurden
  <2> QED
    BY <1>2, <1>5, <2>2 DEF Starts
<1>6. ASSUME NEW t, NEW n, Works(t, n) PROVE Right
  <2>1. ASSUME NEW u \in User PROVE SameBurden(tasks, tasks', u)
    BY <1>1, <1>6 DEF Works, SameBurden, Burdens, Tables, Status
  <2> QED
    BY <1>2, <1>6, <2>1 DEF Works
<1>7. ASSUME NEW t, NEW new, NEW created, NEW unblocked,
             Finishes(t, new, created, unblocked)
      PROVE  Right
  BY <1>1, <1>7, FinishLoad DEF Right
<1>8. ASSUME NEW t, NEW n, Updates(t, n) PROVE Right
  <2>1. load' = UpdateLoad(tasks', {n.user, tasks[t].user})
        /\ tasks' = [tasks EXCEPT ![t] = n]
    BY <1>8 DEF Updates
  <2>2. ASSUME NEW u \in User \ {n.user, tasks[t].user}
        PROVE  SameBurden(tasks, tasks', u)
    BY <1>1, <2>1, <2>2 DEF SameBurden, Burdens, Tables
  <2> QED
    BY <1>1, <2>1, <2>2, LoadUpdated DEF Right
<1>9. ASSUME NEW ts, Deletes(ts) PROVE Right
  <2>1. load' = UpdateLoad(tasks', {tasks[t].user : t \in ts}) /\ ts \subseteq Live
        /\ tasks' = [t \in TaskId |-> IF t \in ts THEN [tasks[t] EXCEPT !.status = "deleted"]
                                      ELSE tasks[t]]
    BY <1>9 DEF Deletes
  <2>2. \A t \in ts : tasks[t] \in Task
    BY <1>1, <2>1, LiveStatus
  <2>3. ASSUME NEW u \in User \ {tasks[t].user : t \in ts}
        PROVE  SameBurden(tasks, tasks', u)
    BY <2>1, <2>2, <2>3 DEF SameBurden, Burdens, Task
  <2> QED
    BY <1>1, <2>1, <2>3, LoadUpdated DEF Right
<1>10. Right
  BY <1>3, <1>4, <1>5, <1>6, <1>7, <1>8, <1>9 DEF Effect
<1> QED
  BY <1>10 DEF LoadInv, Right

(***************************************************************************)
(* A user's overall_load counts the pages of his unfinished tasks, whoever *)
(* creates, moves, deletes and finishes tasks: update_user_overall_load is *)
(* called wherever it must be, as long as requests do not overlap.  Two    *)
(* things break it, and the theorem leaves them out: start_job called on a *)
(* started job opens finished tasks again and counts nobody's, and what    *)
(* create_validation_revisions commits in finish_task may be all that a    *)
(* crash leaves of it.                                                     *)
(***************************************************************************)
THEOREM LoadsAreRemainingWork ==
    ASSUME ~Interleave, "start" \notin AdminOps,
           ValidationType # "extensive_coverage"
    PROVE  Spec => []LoadIsRemainingWork
<1>1. Init => LoadInv
  BY DEF Init, LoadInv, RemainingWork, Absent, Status
<1>2. SerialInv /\ LoadInv /\ [Next]_vars => LoadInv'
  BY StepEffect, NextLoad
<1>3. SerialInv /\ LoadInv => LoadIsRemainingWork
  BY DEF LoadInv, LoadIsRemainingWork, RemainingWork, Live, FinishedTasks
<1>4. Spec => []SerialInv
  BY SerialInvHolds
<1> QED
  BY <1>1, <1>2, <1>3, <1>4, PTL DEF Spec

-----------------------------------------------------------------------------
(* When the job is finished *)

\* The tasks of the job once t is closed.
LEMMA ClosedLive ==
    ASSUME TypeOK, NEW t, NEW new, NEW created, NEW unblocked,
           Finishes(t, new, created, unblocked)
    PROVE  LiveIn(tasks') = LiveIn(tasks) \cup DOMAIN created
<1>1. Lists(tasks, created, new) /\ DOMAIN created \subseteq TaskId
  BY DEF Finishes, Lists
<1>2. tasks[t] \in Task /\ t \in LiveIn(tasks)
  BY LiveStatus, ClosedFinished DEF Finishes
<1>3. ASSUME NEW s \in TaskId
      PROVE  tasks'[s].status \in Status
                 <=> tasks[s].status \in Status \/ s \in DOMAIN created
  <2>1. CASE s \in DOMAIN created
    <3>1. tasks'[s] = created[s] /\ created[s] \in new
      BY <1>1, <2>1 DEF Finishes, Closed, Lists
    <3>2. \A n \in new : n.status \in {"pending", "ready"}
      BY DEF Finishes, Opens, FollowUp
    <3> QED
      BY <2>1, <3>1, <3>2 DEF Status
  <2>2. CASE s \notin DOMAIN created
    <3>1. \/ s \in DOMAIN unblocked /\ tasks'[s] = unblocked[s]
          \/ s = t /\ tasks'[s] = [tasks[s] EXCEPT !.status = "finished"]
          \/ tasks'[s] = tasks[s]
      BY <2>2 DEF Finishes, Closed
    <3>2. s \in DOMAIN unblocked => /\ Opened(tasks[s], unblocked[s])
                                    /\ tasks[s].status = "pending"
      BY DEF Finishes, Waiting
    <3> QED
      BY <1>2, <2>2, <3>1, <3>2 DEF Opened, Status, Task, LiveIn
  <2> QED
    BY <2>1, <2>2
<1> QED
  BY <1>1, <1>3 DEF LiveIn

\* The count of finish_task tells whether anything is left to finish.
LEMMA LastTaskClosed ==
    ASSUME TypeOK, NEW t, NEW new, NEW created, NEW unblocked,
           Finishes(t, new, created, unblocked)
    PROVE  LastTask(tasks, new) <=> LiveIn(tasks') = FinishedIn(tasks')
<1> DEFINE live == LiveIn(tasks)
           done == FinishedIn(tasks)
<1>1. /\ t \in live /\ t \notin done /\ FinishedIn(tasks') = done \cup {t}
      /\ LiveIn(tasks') = live \cup DOMAIN created
  BY ClosedFinished, ClosedLive
<1>2. Lists(tasks, created, new)
  BY DEF Finishes
<1>3. /\ Cardinality(new) \in Nat
      /\ Cardinality(new) = 0 <=> DOMAIN created = {}
  BY <1>2, BatchFinite
<1>4. done \cup {t} \subseteq live /\ live \in SUBSET TaskId /\ done \in SUBSET TaskId
  BY <1>1, LiveAre
<1>5. IsFiniteSet(live) /\ Cardinality(live) \in Nat
      /\ IsFiniteSet(done) /\ Cardinality(done) \in Nat
  BY <1>4, TasksFinite
<1>6. Cardinality(done \cup {t}) = Cardinality(done) + 1
  BY <1>1, <1>5, FS_AddElement
<1>7. /\ Cardinality(done \cup {t}) <= Cardinality(live)
      /\ Cardinality(done \cup {t}) = Cardinality(live) => done \cup {t} = live
  BY <1>4, <1>5, FS_Subset
<1>8. \A s \in DOMAIN created : s \notin live /\ s \notin done /\ s # t
  BY <1>2, LiveAre, ClosedFinished DEF Lists, LiveIn, FinishedIn, Status
<1> HIDE DEF live, done
<1>9. ASSUME LastTask(tasks, new) PROVE LiveIn(tasks') = FinishedIn(tasks')
  <2>1. Cardinality(live) + Cardinality(new) = Cardinality(done) + 1
    BY <1>9 DEF LastTask, live, done
  <2>2. Cardinality(new) = 0 /\ Cardinality(done \cup {t}) = Cardinality(live)
    BY <1>3, <1>5, <1>6, <1>7, <2>1
  <2> QED
    BY <1>1, <1>3, <1>7, <2>2
<1>10. ASSUME LiveIn(tasks') = FinishedIn(tasks') PROVE LastTask(tasks, new)
  <2>1. DOMAIN created = {} /\ live = done \cup {t}
    BY <1>1, <1>4, <1>8, <1>10
  <2>2. Cardinality(live) + Cardinality(new) = Cardinality(done) + 1
    BY <1>3, <1>5, <1>6, <2>1
  <2> QED
    BY <2>2 DEF LastTask, live, done
<1> QED
  BY <1>9, <1>10

(***************************************************************************)
(* The job becomes finished only in the commit that leaves no task of it   *)
(* unfinished, whatever tasks that commit brings and the manager made:     *)
(* the two counts of finish_task are then those of one moment.             *)
(***************************************************************************)
THEOREM FinishedWhenAllFinished ==
    ASSUME ~Interleave
    PROVE  Spec => JobFinishedOnlyWhenAllFinished
<1>1. SerialInv /\ [Next]_vars => [FinishesJob]_vars
  <2> SUFFICES ASSUME SerialInv, [Next]_vars, job # "finished", job' = "finished"
               PROVE  Live' = FinishedTasks'
    BY DEF FinishesJob
  <2>1. Effect /\ TypeOK
    BY StepEffect DEF SerialInv, Inv
  <2>2. PICK t, new, created, unblocked : Finishes(t, new, created, unblocked)
    BY <2>1 DEF Effect, Still, Inserts, Starts, Works, Updates, Deletes
  <2>3. LastTask(tasks, new)
    BY <2>2 DEF Finishes
  <2>4. LiveIn(tasks') = FinishedIn(tasks')
    BY <2>1, <2>2, <2>3, LastTaskClosed
  <2>5. Live' = LiveIn(tasks') /\ FinishedTasks' = FinishedIn(tasks')
    BY DEF Live, FinishedTasks, LiveIn, FinishedIn, Status
  <2> QED
    BY <2>4, <2>5
<1>2. Spec => []SerialInv
  BY SerialInvHolds
<1> QED
  BY <1>1, <1>2, PTL DEF Spec, JobFinishedOnlyWhenAllFinished

\* A task of the kind start_job opens.
Leading(tt, t) == tt[t].validation = (ValidationType = "validation_only")

\* What follows up on open tasks is not open before any of them is.
LeadersFirst ==
    \A t \in LiveIn(tasks) :
        ~Leading(tasks, t) /\ tasks[t].status # "pending" =>
            \E s \in LiveIn(tasks) : Leading(tasks, s) /\ tasks[s].status # "pending"

\* A step after which each open task is open, or of the kind opened first.
LEMMA LeadersKept ==
    ASSUME LeadersFirst,
           \A t \in LiveIn(tasks) : /\ t \in LiveIn(tasks')
                                    /\ Leading(tasks, t) /\ tasks[t].status # "pending" =>
                                           Leading(tasks', t) /\ tasks'[t].status # "pending",
           \A t \in LiveIn(tasks') :
               ~Leading(tasks', t) /\ tasks'[t].status # "pending" =>
                   \E s \in LiveIn(tasks) : tasks[s].status # "pending"
    PROVE  LeadersFirst'
<1>1. ASSUME NEW t \in LiveIn(tasks'), ~Leading(tasks', t), tasks'[t].status # "pending"
      PROVE  \E s \in LiveIn(tasks') : Leading(tasks', s) /\ tasks'[s].status # "pending"
  <2>1. PICK s \in LiveIn(tasks) : tasks[s].status # "pending"
    BY <1>1
  <2>2. PICK x \in LiveIn(tasks) : Leading(tasks, x) /\ tasks[x].status # "pending"
    BY <2>1 DEF LeadersFirst
  <2> QED
    BY <2>2
<1> QED
  BY <1>1 DEF LeadersFirst

\* Where no task is deleted, a step keeps it.
LEMMA NextLeaders ==
    ASSUME SerialInv, Effect, LeadersFirst,
           AdminOps \cap {"delete", "delete_batch"} = {}
    PROVE  LeadersFirst'
<1>1. TypeOK /\ tasks \in Tables
  BY DEF SerialInv, Inv, TypeOK, Tables
<1>2. \A s \in LiveIn(tasks) : s \in TaskId /\ tasks[s] \in Task /\ s \in Live
  BY <1>1, LiveAre, LiveStatus
<1>3. Still => LeadersFirst'
  BY DEF Still, LeadersFirst
<1>4. ASSUME NEW new, NEW r, Inserts(new, r) PROVE LeadersFirst'
  <2>1. \A t \in TaskId : \/ tasks'[t] = tasks[t]
                          \/ tasks[t].status = "absent" /\ tasks'[t].status = "pending"
    BY <1>4 DEF Inserts, Grown, Lists
  <2>2. \A t \in LiveIn(tasks) : tasks'[t] = tasks[t]
    BY <1>2, <2>1 DEF LiveIn, Status
  <2> QED
    BY <1>2, <2>1, <2>2, LeadersKept DEF LiveIn, Leading
<1>5. ASSUME Starts PROVE LeadersFirst'
  <2>1. \A t \in TaskId :
            tasks'[t] = IF t \in LiveIn(tasks) /\ Leading(tasks, t)
                        THEN [tasks[t] EXCEPT !.status = "ready"] ELSE tasks[t]
    BY <1>5, LiveAre DEF Starts, StartedTasks, LeadingTasks, Leading
  <2>2. \A t \in LiveIn(tasks) :
            /\ Leading(tasks, t) =>
                   /\ tasks'[t].status = "ready"
                   /\ tasks'[t].validation = tasks[t].validation
            /\ ~Leading(tasks, t) => tasks'[t] = tasks[t]
    BY <1>2, <2>1 DEF Task
  <2>3. \A t \in LiveIn(tasks) : t \in LiveIn(tasks')
    BY <1>2, <2>2 DEF LiveIn, Status
  <2>4. \A t \in LiveIn(tasks) : Leading(tasks', t) <=> Leading(tasks, t)
    BY <2>2 DEF Leading
  <2>5. \A t \in LiveIn(tasks') : t \in LiveIn(tasks)
    BY <2>1 DEF LiveIn
  <2> QED
    BY <2>2, <2>3, <2>4, <2>5, LeadersKept
<1>6. ASSUME NEW t, NEW n, Works(t, n) PROVE LeadersFirst'
  <2>1. /\ t \in LiveIn(tasks) /\ tasks[t].status \in {"ready", "in_progress"}
        /\ n.status = "in_progress" /\ n.validation = tasks[t].validation
        /\ tasks' = [tasks EXCEPT ![t] = n]
    BY <1>6, LiveAre DEF Works
  <2>2. \A s \in TaskId : tasks'[s] = IF s = t THEN n ELSE tasks[s]
    BY <1>1, <2>1 DEF Tables
  <2> QED
    BY <1>2, <2>1, <2>2, LeadersKept DEF LiveIn, Leading, Status
<1>7. ASSUME NEW t, NEW new, NEW created, NEW unblocked,
             Finishes(t, new, created, unblocked)
      PROVE  LeadersFirst'
  <2>1. t \in LiveIn(tasks) /\ t \in TaskId /\ tasks[t].status = "in_progress"
    BY <1>7, <1>1, ClosedFinished DEF Finishes
  <2>2. \A s \in TaskId : ClosedRow(s, t, new)
    BY <1>1, <1>7, ClosedRows
  <2>3. ASSUME NEW s \in LiveIn(tasks)
        PROVE  /\ s \in LiveIn(tasks')
               /\ Leading(tasks, s) /\ tasks[s].status # "pending" =>
                      Leading(tasks', s) /\ tasks'[s].status # "pending"
    <3>1. ClosedRow(s, t, new) /\ tasks[s] \in Task /\ tasks[s].status \in Status
      BY <1>2, <2>2 DEF LiveIn
    <3> QED
      BY <3>1 DEF ClosedRow, Opened, Leading, LiveIn, Status, Task
  <2> QED
    BY <2>1, <2>3, LeadersKept
<1>8. ASSUME NEW t, NEW n, Updates(t, n) PROVE LeadersFirst'
  <2>1. /\ t \in LiveIn(tasks) /\ tasks[t].status = "pending"
        /\ n.status = "pending" /\ tasks' = [tasks EXCEPT ![t] = n]
    BY <1>8, LiveAre DEF Updates
  <2>2. \A s \in TaskId : tasks'[s] = IF s = t THEN n ELSE tasks[s]
    BY <1>1, <2>1 DEF Tables
  <2> QED
    BY <1>2, <2>1, <2>2, LeadersKept DEF LiveIn, Leading, Status
<1>9. ASSUME NEW ts, Deletes(ts) PROVE FALSE
  BY <1>9 DEF Deletes
<1> QED
  BY <1>3, <1>4, <1>5, <1>6, <1>7, <1>8, <1>9 DEF Effect

\* Nothing is left unfinished only in a finished job.
AllFinishedInv ==
    LiveIn(tasks) # {} /\ LiveIn(tasks) = FinishedIn(tasks) => job = "finished"

\* A step keeps it, where no task is deleted.
LEMMA NextAllFinished ==
    ASSUME SerialInv, Effect, LeadersFirst, AllFinishedInv,
           AdminOps \cap {"delete", "delete_batch"} = {}
    PROVE  AllFinishedInv'
<1> SUFFICES ASSUME LiveIn(tasks') # {}, LiveIn(tasks') = FinishedIn(tasks')
             PROVE  job' = "finished"
  BY DEF AllFinishedInv
<1>1. TypeOK /\ tasks \in Tables
  BY DEF SerialInv, Inv, TypeOK, Tables
<1>2. \A s \in LiveIn(tasks) : s \in TaskId /\ tasks[s] \in Task /\ s \in Live
  BY <1>1, LiveAre, LiveStatus
<1>3. Still => job' = "finished"
  BY DEF Still, AllFinishedInv
<1>4. ASSUME NEW new, NEW r, Inserts(new, r) PROVE job' = "finished"
  <2>1. \A t \in TaskId :
            tasks'[t].status \in Status => /\ tasks[t].status \in Status
                                           /\ tasks'[t] = tasks[t]
    <3>1. ASSUME NEW t \in DOMAIN r PROVE FALSE
      <4>1. tasks'[t].status = "pending" /\ t \in TaskId
        BY <1>4, <3>1 DEF Inserts, Grown, Lists
      <4> QED
        BY <4>1 DEF LiveIn, FinishedIn, Status
    <3> QED
      BY <1>4, <3>1 DEF Inserts, Grown
  <2>2. \A t \in TaskId : tasks[t].status \in Status => tasks'[t] = tasks[t]
    BY <1>4 DEF Inserts, Grown, Lists, Status
  <2>3. LiveIn(tasks) = LiveIn(tasks') /\ FinishedIn(tasks) = FinishedIn(tasks')
    BY <2>1, <2>2 DEF LiveIn, FinishedIn, Status
  <2>4. job = "finished"
    BY <2>3 DEF AllFinishedInv
  <2> QED
    BY <1>4, <2>4 DEF Inserts
<1>5. ASSUME Starts PROVE FALSE
  <2>1. \A t \in TaskId :
            tasks'[t] = IF t \in LiveIn(tasks) /\ Leading(tasks, t)
                        THEN [tasks[t] EXCEPT !.status = "ready"] ELSE tasks[t]
    BY <1>5, LiveAre DEF Starts, StartedTasks, LeadingTasks, Leading
  <2>2. \A t \in LiveIn(tasks) : ~Leading(tasks, t)
    <3>1. ASSUME NEW t \in LiveIn(tasks), Leading(tasks, t) PROVE FALSE
      <4>1. tasks'[t].status = "ready" /\ t \in TaskId
        BY <1>2, <2>1, <3>1 DEF Task
      <4> QED
        BY <4>1 DEF LiveIn, FinishedIn, Status
    <3> QED
      BY <3>1
  <2>3. PICK t \in LiveIn(tasks) : tasks'[t] = tasks[t] /\ tasks[t].status = "finished"
    BY <2>1, <2>2 DEF LiveIn, FinishedIn
  <2> QED
    BY <2>2, <2>3 DEF LeadersFirst
<1>6. ASSUME NEW t, NEW n, Works(t, n) PROVE FALSE
  <2>1. t \in TaskId /\ tasks'[t].status = "in_progress"
    BY <1>1, <1>6, LiveStatus DEF Works, Tables
  <2> QED
    BY <2>1 DEF LiveIn, FinishedIn, Status
<1>7. ASSUME NEW t, NEW new, NEW created, NEW unblocked,
             Finishes(t, new, created, unblocked)
      PROVE  job' = "finished"
  <2>1. LastTask(tasks, new)
    BY <1>1, <1>7, LastTaskClosed
  <2> QED
    BY <1>7, <2>1 DEF Finishes
<1>8. ASSUME NEW t, NEW n, Updates(t, n) PROVE FALSE
  <2>1. t \in TaskId /\ tasks'[t].status = "pending"
    BY <1>1, <1>8, LiveStatus DEF Updates, Tables
  <2> QED
    BY <2>1 DEF LiveIn, FinishedIn, Status
<1>9. ASSUME NEW ts, Deletes(ts) PROVE FALSE
  BY <1>9 DEF Deletes
<1> QED
  BY <1>3, <1>4, <1>5, <1>6, <1>7, <1>8, <1>9 DEF Effect

(***************************************************************************)
(* Once every task of the job is finished the job is: the last finish_task *)
(* sees that it is the last.  No task may be deleted: no handler looks     *)
(* whether the job's last open task was.                                   *)
(***************************************************************************)
THEOREM FinishesWithItsTasks ==
    ASSUME ~Interleave, AdminOps \cap {"delete", "delete_batch"} = {}
    PROVE  Spec => []JobFinishesWithItsTasks
<1>1. Init => LeadersFirst /\ AllFinishedInv
  BY DEF Init, LeadersFirst, AllFinishedInv, LiveIn, Absent, Status
<1>2. SerialInv /\ LeadersFirst /\ AllFinishedInv /\ [Next]_vars
          => LeadersFirst' /\ AllFinishedInv'
  BY StepEffect, NextLeaders, NextAllFinished
<1>3. AllFinishedInv => JobFinishesWithItsTasks
  BY LiveAre DEF AllFinishedInv, JobFinishesWithItsTasks
<1>4. Spec => []SerialInv
  BY SerialInvHolds
<1> QED
  BY <1>1, <1>2, <1>3, <1>4, PTL DEF Spec

-----------------------------------------------------------------------------
(* What counts as validated *)

\* A finished task has the last word on page p of file f: it is valid.
Approves(tt, t, f, p) ==
    /\ tt[t].status = "finished" /\ tt[t].file = f
    /\ tt[t].validation /\ tt[t].marks[p] = "validated"

ApprovedInv ==
    \A f \in File : \A p \in files[f].validated_pages :
        \E t \in TaskId : Approves(tasks, t, f, p)

\* A step that validates no page and reopens no approval.
LEMMA ApprovalKept ==
    ASSUME ApprovedInv, SameApproval,
           \A t \in TaskId, f \in File, p \in Page :
               Approves(tasks, t, f, p) => Approves(tasks', t, f, p),
           TypeOK
    PROVE  ApprovedInv'
<1>1. \A f \in File : files[f].validated_pages \subseteq Page
  BY DEF TypeOK, FileRow
<1> QED
  BY <1>1 DEF ApprovedInv, SameApproval

\* Every step keeps it, unless a finished task is deleted or reopened.
LEMMA NextApproved ==
    ASSUME SerialInv, Effect, ApprovedInv, "delete" \notin AdminOps,
           "start" \in AdminOps => ValidationType # "validation_only"
    PROVE  ApprovedInv'
<1>1. TypeOK /\ tasks \in Tables
  BY DEF SerialInv, Inv, TypeOK, Tables
<1>2. \A s \in LiveIn(tasks) : s \in TaskId /\ tasks[s] \in Task /\ s \in Live
  BY <1>1, LiveAre, LiveStatus
<1>3. \A t \in TaskId : tasks[t].status = "finished" => t \in LiveIn(tasks) /\ t \in Live
  BY LiveAre DEF LiveIn, Status
<1>4. ASSUME SameApproval, \A t \in FinishedIn(tasks) : tasks'[t] = tasks[t]
      PROVE  ApprovedInv'
  BY <1>1, <1>4, ApprovalKept DEF Approves, FinishedIn
<1>5. Still => ApprovedInv'
  BY DEF Still, ApprovedInv
<1>6. ASSUME NEW new, NEW r, Inserts(new, r) PROVE ApprovedInv'
  BY <1>4, <1>6 DEF Inserts, Grown, Lists, FinishedIn
<1>7. ASSUME Starts PROVE ApprovedInv'
  <2>1. SameApproval
    BY <1>7 DEF Starts, SameApproval
  <2>2. CASE job = "pending"
    <3>1. FinishedIn(tasks) = {}
      BY <2>2 DEF SerialInv, Unstarted, FinishedIn
    <3> QED
      BY <1>4, <2>1, <3>1
  <2>3. CASE job # "pending"
    <3>1. ValidationType # "validation_only"
      BY <1>7, <2>3 DEF Starts
    <3>2. ASSUME NEW t \in TaskId, NEW f \in File, NEW p \in Page,
                 Approves(tasks, t, f, p)
          PROVE  Approves(tasks', t, f, p)
      <4>1. tasks[t].validation = TRUE
        BY <1>2, <1>3, <3>2 DEF Approves, Task
      <4>2. tasks'[t] = tasks[t]
        BY <1>7, <3>1, <4>1 DEF Starts, StartedTasks, LeadingTasks
      <4> QED
        BY <3>2, <4>2 DEF Approves
    <3> QED
      BY <1>1, <2>1, <3>2, ApprovalKept
  <2> QED
    BY <2>2, <2>3
<1>8. ASSUME NEW t, NEW n, Works(t, n) PROVE ApprovedInv'
  BY <1>1, <1>4, <1>8 DEF Works, SameApproval, FinishedIn, Tables
<1>9. ASSUME NEW t, NEW new, NEW created, NEW unblocked,
             Finishes(t, new, created, unblocked)
      PROVE  ApprovedInv'
  <2> DEFINE own == tasks[t].file
  <2>1. /\ t \in TaskId /\ tasks[t] \in Task
        /\ \A f \in File : f # own => files'[f] = files[f]
        /\ files'[own].validated_pages =
               files[own].validated_pages \cup Marked(tasks, t, "validated")
    BY <1>1, <1>9, LiveStatus DEF Finishes
  <2>2. \A s \in TaskId : ClosedRow(s, t, new)
    BY <1>1, <1>9, ClosedRows
  <2>3. ASSUME NEW s \in TaskId, NEW f \in File, NEW p, Approves(tasks, s, f, p)
        PROVE  Approves(tasks', s, f, p)
    <3>1. ClosedRow(s, t, new) /\ tasks[s].status = "finished"
          /\ tasks[t].status = "in_progress"
      BY <1>9, <2>2, <2>3 DEF Approves, Finishes
    <3>2. tasks'[s] = tasks[s]
      BY <3>1 DEF ClosedRow
    <3> QED
      BY <2>3, <3>2 DEF Approves
  <2>4. ASSUME NEW p \in Marked(tasks, t, "validated")
        PROVE  Approves(tasks', t, own, p)
    <3>1. tasks'[t] = [tasks[t] EXCEPT !.status = "finished"]
      BY <2>1, <2>2 DEF ClosedRow
    <3>2. tasks[t].validation /\ tasks[t].marks[p] = "validated"
      BY <2>4 DEF Marked
    <3> QED
      BY <2>1, <3>1, <3>2 DEF Approves, Task
  <2>5. ASSUME NEW f \in File, NEW p \in files'[f].validated_pages
        PROVE  \E s \in TaskId : Approves(tasks', s, f, p)
    <3>1. CASE p \in files[f].validated_pages
      BY <2>3, <3>1 DEF ApprovedInv
    <3>2. CASE p \notin files[f].validated_pages
      BY <2>1, <2>4, <2>5, <3>2
    <3> QED
      BY <3>1, <3>2
  <2> QED
    BY <2>5 DEF ApprovedInv
<1>10. ASSUME NEW t, NEW n, Updates(t, n) PROVE ApprovedInv'
  BY <1>1, <1>4, <1>10 DEF Updates, FinishedIn, Tables
<1>11. ASSUME NEW ts, Deletes(ts) PROVE ApprovedInv'
  BY <1>4, <1>11 DEF Deletes, FinishedIn
<1> QED
  BY <1>5, <1>6, <1>7, <1>8, <1>9, <1>10, <1>11 DEF Effect

(***************************************************************************)
(* A page counts as validated only if some finished validation task says   *)
(* so: finish_task saves the pages the latest revisions validate, and no   *)
(* handler but delete_task and start_job undoes a finished task.           *)
(***************************************************************************)
THEOREM ValidatedWereApproved ==
    ASSUME ~Interleave, "delete" \notin AdminOps,
           "start" \in AdminOps => ValidationType # "validation_only"
    PROVE  Spec => []ValidatedPagesWereApproved
<1>1. Init => ApprovedInv
  BY DEF Init, ApprovedInv, NewFile
<1>2. SerialInv /\ ApprovedInv /\ [Next]_vars => ApprovedInv'
  BY StepEffect, NextApproved
<1>3. ApprovedInv => ValidatedPagesWereApproved
  BY LiveAre DEF ApprovedInv, ValidatedPagesWereApproved, Approves, FinishedIn
<1>4. Spec => []SerialInv
  BY SerialInvHolds
<1> QED
  BY <1>1, <1>2, <1>3, <1>4, PTL DEF Spec

-----------------------------------------------------------------------------
(* What becomes of the pages that fail *)

\* The commit of finish_task gives them to somebody to annotate again.
LEMMA FinishReworks ==
    ASSUME TypeOK, NEW t, NEW new, NEW created, NEW unblocked,
           Finishes(t, new, created, unblocked),
           ValidationType # "validation_only", tasks[t].validation,
           NEW p \in tasks[t].pages, tasks[t].marks[p] = "failed",
           Editors(t, tasks[t].file, p) # {}
    PROVE  \E s \in Live' : /\ tasks'[s].file = tasks[t].file
                            /\ ~tasks'[s].validation
                            /\ tasks'[s].status = "ready"
                            /\ p \in tasks'[s].pages
<1>1. EditedElsewhere(tasks, t, p)
  BY DEF Editors, EditedElsewhere
<1>2. p \in Marked(tasks, t, "failed")
  BY DEF Marked
<1>3. PICK n \in new : ~n.validation /\ p \in n.pages
  BY <1>1, <1>2 DEF Finishes, Opens
<1>4. n.file = tasks[t].file /\ n.status = "ready"
  BY <1>3 DEF Finishes, Opens, FollowUp
<1>5. PICK s \in DOMAIN created : created[s] = n
  BY DEF Finishes, Lists
<1>6. s \in TaskId /\ tasks'[s] = n
  BY <1>5 DEF Finishes, Lists, Closed
<1> QED
  BY <1>3, <1>4, <1>6 DEF Live, Status

\* Tasks are finished by finish_task alone.
LEMMA OthersFinishNone ==
    ASSUME TypeOK, Effect,
           NEW t \in Live, tasks[t].status # "finished", tasks'[t].status = "finished"
    PROVE  \E new, created, unblocked : Finishes(t, new, created, unblocked)
<1>1. t \in TaskId /\ tasks[t] \in Task /\ tasks \in Tables /\ tasks[t].status # "absent"
  BY LiveStatus DEF TypeOK, Tables, Status
<1>2. Still => FALSE
  BY DEF Still
<1>3. ASSUME NEW new, NEW r, Inserts(new, r) PROVE FALSE
  BY <1>1, <1>3 DEF Inserts, Grown, Lists
<1>4. Starts => FALSE
  BY <1>1 DEF Starts, StartedTasks, LeadingTasks, Task
<1>5. ASSUME NEW x, NEW n, Works(x, n) PROVE FALSE
  BY <1>1, <1>5 DEF Works, Tables
<1>6. ASSUME NEW x, NEW n, Updates(x, n) PROVE FALSE
  BY <1>1, <1>6 DEF Updates, Tables
<1>7. ASSUME NEW ts, Deletes(ts) PROVE FALSE
  BY <1>1, <1>7 DEF Deletes, Task
<1>8. ASSUME NEW x, NEW new, NEW created, NEW unblocked,
             Finishes(x, new, created, unblocked)
      PROVE  x = t
  <2>1. ClosedRow(t, x, new)
    BY <1>1, <1>8, ClosedRows
  <2> QED
    BY <1>1, <2>1 DEF ClosedRow, Opened
<1> QED
  BY <1>2, <1>3, <1>4, <1>5, <1>6, <1>7, <1>8 DEF Effect

(***************************************************************************)
(* A finished validation task leaves every page it failed, and somebody    *)
(* else put content on, in a task to annotate it again that is ready:      *)
(* create_annotation_tasks, whichever users the validator chose and        *)
(* whatever the manager did before.                                        *)
(***************************************************************************)
THEOREM FailedAreReworked ==
    ASSUME ~Interleave
    PROVE  Spec => FailedPagesAreReworked
<1>1. SerialInv /\ [Next]_vars => [Reworks]_vars
  <2> SUFFICES ASSUME SerialInv, [Next]_vars,
                      NEW t \in Live \cap Live', ValidationType # "validation_only",
                      tasks[t].validation, tasks[t].status # "finished",
                      tasks'[t].status = "finished",
                      NEW p \in tasks[t].pages, tasks[t].marks[p] = "failed",
                      Editors(t, tasks[t].file, p) # {}
               PROVE  \E s \in Live' : /\ tasks'[s].file = tasks[t].file
                                       /\ ~tasks'[s].validation
                                       /\ tasks'[s].status = "ready"
                                       /\ p \in tasks'[s].pages
    BY DEF Reworks
  <2>1. TypeOK /\ Effect
    BY StepEffect DEF SerialInv, Inv
  <2> QED
    BY <2>1, OthersFinishNone, FinishReworks
<1>2. Spec => []SerialInv
  BY SerialInvHolds
<1> QED
  BY <1>1, <1>2, PTL DEF Spec, FailedPagesAreReworked

-----------------------------------------------------------------------------
(* Who validates a page *)

\* Task t of table tt is validation that somebody has yet to finish.
Validates(tt, t) == tt[t].status \in Status \ {"finished"} /\ tt[t].validation

\* OneValidatorPerPage, of a table.
OneValidator(tt) ==
    \A s, t \in TaskId :
        s # t /\ Validates(tt, s) /\ Validates(tt, t) /\ tt[s].file = tt[t].file
        => tt[s].pages \cap tt[t].pages = {}

\* A step that makes no validation task and moves none.
LEMMA ValidatorKept ==
    ASSUME NEW old, NEW new, OneValidator(old),
           \A t \in TaskId :
               Validates(new, t) => /\ Validates(old, t) /\ new[t].file = old[t].file
                                    /\ new[t].pages = old[t].pages
    PROVE  OneValidator(new)
BY DEF OneValidator

\* finish_task makes validation tasks for pages of the task it closes only.
LEMMA FinishValidator ==
    ASSUME TypeOK, NEW t, NEW new, NEW created, NEW unblocked,
           Finishes(t, new, created, unblocked), OneValidator(tasks)
    PROVE  OneValidator(tasks')
<1>1. /\ t \in TaskId /\ tasks[t] \in Task /\ tasks[t].status = "in_progress"
      /\ Opens(tasks, t, new) /\ Lists(tasks, created, new)
  BY LiveStatus DEF Finishes
<1>2. \A s \in TaskId : ClosedRow(s, t, new)
  BY ClosedRows
<1>3. ASSUME NEW s \in TaskId, Validates(tasks', s), s \notin DOMAIN created
      PROVE  /\ Validates(tasks, s) /\ s # t /\ tasks'[s].file = tasks[s].file
             /\ tasks'[s].pages = tasks[s].pages
  <2>1. \/ s \in DOMAIN unblocked /\ tasks'[s] = unblocked[s]
        \/ s = t /\ tasks'[s] = [tasks[s] EXCEPT !.status = "finished"]
        \/ s # t /\ tasks'[s] = tasks[s]
    BY <1>3 DEF Finishes, Closed
  <2>2. s \in DOMAIN unblocked => /\ Opened(tasks[s], unblocked[s])
                                  /\ tasks[s].status = "pending"
    BY DEF Finishes, Waiting
  <2> QED
    BY <1>1, <1>3, <2>1, <2>2 DEF Validates, Opened, Status, Task
<1>4. ASSUME NEW s \in DOMAIN created, Validates(tasks', s)
      PROVE  /\ Validates(tasks, t) /\ tasks'[s] = created[s]
             /\ created[s] \in new /\ created[s].validation
             /\ created[s].file = tasks[t].file
             /\ created[s].pages \subseteq tasks[t].pages
  <2>1. tasks'[s] = created[s] /\ created[s] \in new /\ s \in TaskId
    BY <1>1, <1>4 DEF Finishes, Closed, Lists
  <2>2. created[s].validation
    BY <1>4, <2>1 DEF Validates
  <2>3. /\ created[s].file = tasks[t].file /\ created[s].pages # {}
        /\ \/ created[s].pages \subseteq Marked(tasks, t, "failed")
           \/ created[s].pages \subseteq Marked(tasks, t, "annotated")
    BY <1>1, <2>1, <2>2 DEF Opens, FollowUp
  <2>4. tasks[t].validation /\ created[s].pages \subseteq tasks[t].pages
    BY <2>3 DEF Marked
  <2> QED
    BY <1>1, <2>1, <2>2, <2>3, <2>4 DEF Validates, Status
<1>5. ASSUME NEW s \in TaskId, NEW x \in TaskId, s # x,
             Validates(tasks', s), Validates(tasks', x),
             tasks'[s].file = tasks'[x].file, s \in DOMAIN created
      PROVE  tasks'[s].pages \cap tasks'[x].pages = {}
  <2>1. CASE x \in DOMAIN created
    <3>1. created[s] # created[x]
      BY <1>1, <1>5, <2>1 DEF Lists
    <3> QED
      BY <1>1, <1>4, <1>5, <2>1, <3>1 DEF Opens, ReviewApart
  <2>2. CASE x \notin DOMAIN created
    BY <1>1, <1>3, <1>4, <1>5, <2>2 DEF OneValidator
  <2> QED
    BY <2>1, <2>2
<1>6. ASSUME NEW s \in TaskId, NEW x \in TaskId, s # x,
             Validates(tasks', s), Validates(tasks', x),
             tasks'[s].file = tasks'[x].file
      PROVE  tasks'[s].pages \cap tasks'[x].pages = {}
  <2>1. CASE s \in DOMAIN created
    BY <1>5, <1>6, <2>1
  <2>2. CASE x \in DOMAIN created
    BY <1>5, <1>6, <2>2
  <2>3. CASE s \notin DOMAIN created /\ x \notin DOMAIN created
    BY <1>3, <1>6, <2>3 DEF OneValidator
  <2> QED
    BY <2>1, <2>2, <2>3
<1> QED
  BY <1>6 DEF OneValidator

OneValidatorInv == OneValidator(tasks)

\* Every step keeps it, where the manager does no more than delete tasks.
LEMMA NextValidator ==
    ASSUME SerialInv, Effect, OneValidator(tasks),
           AdminOps \subseteq {"delete", "delete_batch"}
    PROVE  OneValidator(tasks')
<1>1. TypeOK /\ tasks \in Tables /\ Unstarted
  BY DEF SerialInv, Inv, TypeOK, Tables
<1>2. \A s \in LiveIn(tasks) : s \in TaskId /\ tasks[s] \in Task /\ s \in Live
  BY <1>1, LiveAre, LiveStatus
<1>3. Still => OneValidator(tasks')
  BY DEF Still
<1>4. ASSUME NEW new, NEW r, Inserts(new, r) PROVE OneValidator(tasks')
  <2>1. /\ Lists(tasks, r, new) /\ tasks' = Grown(tasks, r) /\ job = "absent"
        /\ \A m, n \in new : m.file = n.file /\ m.validation /\ n.validation
                             /\ m.pages \cap n.pages # {} => m = n
    BY <1>4 DEF Inserts
  <2>2. \A s \in TaskId :
            Validates(tasks', s) => s \in DOMAIN r /\ tasks'[s] = r[s] /\ r[s] \in new
    BY <1>1, <2>1 DEF Validates, Grown, Unstarted, Lists, Status
  <2>3. ASSUME NEW s \in TaskId, NEW x \in TaskId, s # x,
               Validates(tasks', s), Validates(tasks', x),
               tasks'[s].file = tasks'[x].file
        PROVE  tasks'[s].pages \cap tasks'[x].pages = {}
    <3>1. r[s] # r[x] /\ r[s] \in new /\ r[x] \in new
      BY <2>1, <2>2, <2>3 DEF Lists
    <3> QED
      BY <2>1, <2>2, <2>3, <3>1 DEF Validates
  <2> QED
    BY <2>3 DEF OneValidator
<1>5. ASSUME Starts PROVE OneValidator(tasks')
  <2>1. \A t \in Live : tasks[t] \in Task /\ tasks[t].status = "pending" /\ t \in TaskId
    BY <1>1, <1>5, LiveStatus DEF Starts, Unstarted, Status
  <2>2. ASSUME NEW t \in TaskId, Validates(tasks', t)
        PROVE  /\ Validates(tasks, t) /\ tasks'[t].file = tasks[t].file
               /\ tasks'[t].pages = tasks[t].pages
    <3>1. \/ tasks'[t] = tasks[t]
          \/ t \in Live /\ tasks'[t] = [tasks[t] EXCEPT !.status = "ready"]
      BY <1>5 DEF Starts, StartedTasks, LeadingTasks
    <3>2. CASE t \in Live /\ tasks'[t] = [tasks[t] EXCEPT !.status = "ready"]
      <4>1. /\ tasks'[t].validation = tasks[t].validation /\ tasks[t].status = "pending"
            /\ tasks'[t].file = tasks[t].file /\ tasks'[t].pages = tasks[t].pages
        BY <2>1, <3>2 DEF Task
      <4> QED
        BY <2>2, <4>1 DEF Validates, Status
    <3>3. CASE tasks'[t] = tasks[t]
      BY <2>2, <3>3 DEF Validates
    <3> QED
      BY <3>1, <3>2, <3>3
  <2> QED
    BY <2>2, ValidatorKept
<1>6. ASSUME NEW t, NEW n, Works(t, n) PROVE OneValidator(tasks')
  <2>1. \A s \in TaskId : Validates(tasks', s) =>
            /\ Validates(tasks, s) /\ tasks'[s].file = tasks[s].file
            /\ tasks'[s].pages = tasks[s].pages
    BY <1>1, <1>6 DEF Works, Validates, Tables, Status
  <2> QED
    BY <2>1, ValidatorKept
<1>7. ASSUME NEW t, NEW new, NEW created, NEW unblocked,
             Finishes(t, new, created, unblocked)
      PROVE  OneValidator(tasks')
  BY <1>1, <1>7, FinishValidator
<1>8. ASSUME NEW t, NEW n, Updates(t, n) PROVE FALSE
  BY <1>8 DEF Updates
<1>9. ASSUME NEW ts, Deletes(ts) PROVE OneValidator(tasks')
  <2>1. \A s \in TaskId : Validates(tasks', s) => tasks'[s] = tasks[s]
    BY <1>1, <1>9, LiveStatus DEF Deletes, Validates, Status, Task
  <2> QED
    BY <2>1, ValidatorKept DEF Validates
<1> QED
  BY <1>3, <1>4, <1>5, <1>6, <1>7, <1>8, <1>9 DEF Effect

(***************************************************************************)
(* A page is in the hands of one validator at a time, however often it     *)
(* fails: finish_task opens a validation task for a page only as it closes *)
(* the one that asked for it.  The manager may share pages out again, or   *)
(* reopen what is finished; the theorem lets him only delete tasks.        *)
(***************************************************************************)
THEOREM OneValidatorEach ==
    ASSUME ~Interleave, AdminOps \subseteq {"delete", "delete_batch"}
    PROVE  Spec => []OneValidatorPerPage
<1>1. Init => OneValidatorInv
  BY DEF Init, OneValidatorInv, OneValidator, Validates, Absent, Status
<1>2. SerialInv /\ OneValidatorInv /\ [Next]_vars => OneValidatorInv'
  BY StepEffect, NextValidator DEF OneValidatorInv
<1>3. OneValidatorInv => OneValidatorPerPage
  BY LiveAre DEF OneValidatorInv, OneValidator, OneValidatorPerPage, Validates, FinishedIn, LiveIn
<1>4. Spec => []SerialInv
  BY SerialInvHolds
<1> QED
  BY <1>1, <1>2, <1>3, <1>4, PTL DEF Spec

-----------------------------------------------------------------------------
(* What is left waiting *)

\* The annotation tasks of file f with page p, finished or not.
Annots(tt, f, p) ==
    {s \in LiveIn(tt) : tt[s].file = f /\ ~tt[s].validation /\ p \in tt[s].pages}

\* The validation tasks of file f with page p.
Reviews(tt, f, p) ==
    {s \in LiveIn(tt) : tt[s].file = f /\ tt[s].validation /\ p \in tt[s].pages}

\* In table tt validation task t waits for nothing, in the first round of
\* each of its pages.
StuckIn(tt, t) ==
    /\ tt[t].status = "pending" /\ tt[t].validation
    /\ \A p \in tt[t].pages :
           /\ Cardinality(Annotating(tt, tt[t].file, p)) >= Coverage
           /\ Cardinality(Annots(tt, tt[t].file, p)) <= Coverage
           /\ Cardinality(Reviews(tt, tt[t].file, p)) = 1

NoneStuck == \A t \in TaskId : ~StuckIn(tasks, t)

\* More tasks are not fewer.
LEMMA MoreTasks ==
    ASSUME NEW more \in SUBSET TaskId, NEW ts \in SUBSET more
    PROVE  /\ Cardinality(ts) \in Nat /\ Cardinality(more) \in Nat
           /\ Cardinality(ts) <= Cardinality(more)
           /\ Cardinality(ts) = Cardinality(more) => ts = more
BY TasksFinite, FS_Subset

\* Two tasks are more than one.
LEMMA OneTask ==
    ASSUME NEW ts \in SUBSET TaskId, Cardinality(ts) = 1,
           NEW s \in ts, NEW t \in ts
    PROVE  s = t
<1>1. Cardinality({s}) = 1
  BY FS_Singleton
<1>2. {s} = ts
  BY <1>1, MoreTasks
<1> QED
  BY <1>2

\* What a page is in, all of it tasks.
LEMMA PageTasks ==
    ASSUME NEW tt, NEW f, NEW p
    PROVE  /\ Annots(tt, f, p) \in SUBSET TaskId /\ Reviews(tt, f, p) \in SUBSET TaskId
           /\ Annotating(tt, f, p) \subseteq Annots(tt, f, p)
BY DEF Annots, Reviews, Annotating, LiveIn, FinishedIn, Status

\* A task stays stuck when fewer tasks are finished before a step than after
\* it, and no more have its pages.
LEMMA StuckBefore ==
    ASSUME NEW t \in TaskId, StuckIn(tasks', t), tasks'[t] = tasks[t],
           \A p \in tasks[t].pages :
               /\ Annotating(tasks', tasks[t].file, p)
                      \subseteq Annotating(tasks, tasks[t].file, p)
               /\ Annots(tasks, tasks[t].file, p) \subseteq Annots(tasks', tasks[t].file, p)
               /\ Reviews(tasks, tasks[t].file, p) \subseteq Reviews(tasks', tasks[t].file, p)
    PROVE  StuckIn(tasks, t)
<1> DEFINE f == tasks[t].file
<1>1. tasks[t].status = "pending" /\ tasks[t].validation
  BY DEF StuckIn
<1>2. ASSUME NEW p \in tasks[t].pages
      PROVE  /\ Cardinality(Annotating(tasks, f, p)) >= Coverage
             /\ Cardinality(Annots(tasks, f, p)) <= Coverage
             /\ Cardinality(Reviews(tasks, f, p)) = 1
  <2>1. /\ Cardinality(Annotating(tasks', f, p)) >= Coverage
        /\ Cardinality(Annots(tasks', f, p)) <= Coverage
        /\ Cardinality(Reviews(tasks', f, p)) = 1
    BY <1>2 DEF StuckIn
  <2>2. /\ Annots(tasks, f, p) \in SUBSET TaskId /\ Annots(tasks', f, p) \in SUBSET TaskId
        /\ Reviews(tasks, f, p) \in SUBSET TaskId
        /\ Reviews(tasks', f, p) \in SUBSET TaskId
        /\ Annotating(tasks, f, p) \in SUBSET TaskId
    BY PageTasks
  <2>3. /\ Cardinality(Annotating(tasks, f, p)) >= Cardinality(Annotating(tasks', f, p))
        /\ Cardinality(Annotating(tasks, f, p)) \in Nat
        /\ Cardinality(Annotating(tasks', f, p)) \in Nat
    BY <1>2, <2>2, MoreTasks
  <2>4. /\ Cardinality(Annots(tasks, f, p)) <= Cardinality(Annots(tasks', f, p))
        /\ Cardinality(Annots(tasks, f, p)) \in Nat
        /\ Cardinality(Annots(tasks', f, p)) \in Nat
    BY <1>2, <2>2, MoreTasks
  <2>5. t \in Reviews(tasks, f, p)
    BY <1>1, <1>2 DEF Reviews, LiveIn, Status
  <2>6. Reviews(tasks, f, p) = {t}
    BY <1>2, <2>1, <2>2, <2>5, OneTask
  <2>7. Cardinality(Reviews(tasks, f, p)) = 1
    BY <2>6, FS_Singleton
  <2> QED
    BY <2>1, <2>3, <2>4, <2>7, JobAssumption
<1> QED
  BY <1>1, <1>2 DEF StuckIn

\* finish_task leaves none stuck: it opens those its page was waited for by.
LEMMA FinishStuck ==
    ASSUME TypeOK, NEW x, NEW new, NEW created, NEW unblocked,
           Finishes(x, new, created, unblocked), NoneStuck
    PROVE  NoneStuck'
<1> SUFFICES ASSUME NEW t \in TaskId, StuckIn(tasks', t)
             PROVE  FALSE
  BY DEF NoneStuck
<1>1. /\ x \in TaskId /\ tasks[x] \in Task /\ tasks[x].status = "in_progress"
      /\ Opens(tasks, x, new) /\ Lists(tasks, created, new)
  BY LiveStatus DEF Finishes
<1>2. \A s \in TaskId : ClosedRow(s, x, new)
  BY ClosedRows
<1>3. tasks'[t].status = "pending" /\ tasks'[t].validation
  BY DEF StuckIn
<1>4. \A s \in LiveIn(tasks) : /\ s \in LiveIn(tasks') /\ tasks[s] \in Task
                               /\ tasks'[s].file = tasks[s].file
                               /\ tasks'[s].pages = tasks[s].pages
                               /\ tasks'[s].validation = tasks[s].validation
  <2>1. ASSUME NEW s \in LiveIn(tasks)
        PROVE  /\ s \in LiveIn(tasks') /\ tasks[s] \in Task
               /\ tasks'[s].file = tasks[s].file
               /\ tasks'[s].pages = tasks[s].pages
               /\ tasks'[s].validation = tasks[s].validation
    <3>1. s \in TaskId /\ tasks[s] \in Task /\ tasks[s].status \in Status
      BY <2>1, LiveAre, LiveStatus
    <3>2. ClosedRow(s, x, new)
      BY <1>2, <3>1
    <3> QED
      BY <3>1, <3>2 DEF ClosedRow, Opened, Status, Task, LiveIn
  <2> QED
    BY <2>1
<1>5. \A f, p : /\ Annots(tasks, f, p) \subseteq Annots(tasks', f, p)
                /\ Reviews(tasks, f, p) \subseteq Reviews(tasks', f, p)
  BY <1>4 DEF Annots, Reviews
<1>6. CASE t \in DOMAIN created
  <2>1. tasks'[t] \in new /\ t # x /\ tasks'[t] = created[t]
    BY <1>1, <1>6 DEF Finishes, Closed, Lists
  <2>2. /\ tasks'[t].file = tasks[x].file /\ tasks'[t].pages # {}
        /\ tasks'[t].pages \subseteq Marked(tasks, x, "failed")
    BY <1>1, <1>3, <2>1 DEF Opens, FollowUp
  <2>3. PICK p \in tasks'[t].pages : p \in tasks[x].pages /\ tasks[x].validation
    BY <2>2 DEF Marked
  <2>4. x \in Reviews(tasks', tasks'[t].file, p)
    BY <1>1, <1>5, <2>2, <2>3 DEF Reviews, LiveIn, Status
  <2>5. t \in Reviews(tasks', tasks'[t].file, p)
    BY <1>3, <2>3 DEF Reviews, LiveIn, Status
  <2>6. /\ Cardinality(Reviews(tasks', tasks'[t].file, p)) = 1
        /\ Reviews(tasks', tasks'[t].file, p) \in SUBSET TaskId
    BY <2>3, PageTasks DEF StuckIn
  <2> QED
    BY <2>1, <2>4, <2>5, <2>6, OneTask
<1>7. CASE t \notin DOMAIN created
  <2>1. t # x /\ t \notin Waiting(tasks, x) /\ tasks'[t] = tasks[t]
    <3>1. \/ t \in DOMAIN unblocked /\ tasks'[t] = unblocked[t]
          \/ t = x /\ tasks'[t] = [tasks[t] EXCEPT !.status = "finished"]
          \/ tasks'[t] = tasks[t]
      BY <1>7 DEF Finishes, Closed
    <3>2. t \in DOMAIN unblocked => Opened(tasks[t], unblocked[t])
          /\ (t \in DOMAIN unblocked => tasks'[t] = unblocked[t])
      BY <1>7 DEF Finishes, Closed
    <3>3. DOMAIN unblocked = Waiting(tasks, x)
      BY DEF Finishes
    <3> QED
      BY <1>1, <1>3, <3>1, <3>2, <3>3 DEF Opened, Task
  <2> DEFINE f == tasks[t].file
  <2>2. tasks[t] \in Task /\ t \in LiveIn(tasks)
    BY <1>3, <1>4, <2>1 DEF LiveIn, Status
  <2>3. CASE tasks[x].validation \/ tasks[x].file # f
    <3>1. ASSUME NEW p, NEW s \in Annotating(tasks', f, p)
          PROVE  s \in Annotating(tasks, f, p)
      <4>1. /\ s \in TaskId /\ tasks'[s].status = "finished" /\ tasks'[s].file = f
            /\ ~tasks'[s].validation /\ p \in tasks'[s].pages
        BY <3>1 DEF Annotating, FinishedIn
      <4>2. s # x
        BY <1>1, <1>4, <2>3, <4>1 DEF LiveIn, Status
      <4>3. s \in FinishedIn(tasks)
        BY <4>1, <4>2, ClosedFinished DEF FinishedIn
      <4>4. tasks'[s] = tasks[s]
        BY <1>2, <4>1, <4>2, <4>3 DEF ClosedRow, FinishedIn
      <4> QED
        BY <4>1, <4>3, <4>4 DEF Annotating
    <3>2. StuckIn(tasks, t)
      BY <1>5, <2>1, <3>1, StuckBefore
    <3> QED
      BY <3>2 DEF NoneStuck
  <2>4. CASE ~tasks[x].validation /\ tasks[x].file = f
    <3>1. ASSUME NEW p \in tasks[t].pages
          PROVE  p \in Done(tasks, x)
      <4> DEFINE old == Annotating(tasks, f, p)
                 own == {s \in {x} : p \in tasks[s].pages}
      <4>1. /\ Cardinality(Annotating(tasks', f, p)) >= Coverage
            /\ Cardinality(Annots(tasks', f, p)) <= Coverage
        BY <2>1, <3>1 DEF StuckIn
      <4>2. /\ Annots(tasks', f, p) \in SUBSET TaskId
            /\ Annotating(tasks', f, p) \subseteq Annots(tasks', f, p)
        BY PageTasks
      <4>3. Cardinality(Annotating(tasks', f, p)) = Coverage
        BY <4>1, <4>2, MoreTasks, JobAssumption
      <4>4. Annotating(tasks', f, p) = old \cup own
        BY <2>4, ClosedAnnotating
      <4>5. Cardinality(old \cup own) = Cardinality(own) + Cardinality(old)
        BY OwnApart
      <4>6. p \in Page
        BY <2>2, <3>1 DEF Task
      <4> QED
        BY <2>4, <4>3, <4>4, <4>5, <4>6 DEF Done
    <3>2. t \in Waiting(tasks, x)
      BY <1>3, <2>1, <2>2, <2>4, <3>1 DEF Waiting
    <3> QED
      BY <2>1, <3>2
  <2> QED
    BY <2>3, <2>4
<1> QED
  BY <1>6, <1>7

\* Every step keeps it, where the manager does no more than start the job.
LEMMA NextStuck ==
    ASSUME SerialInv, Effect, NoneStuck, AdminOps \subseteq {"start"}
    PROVE  NoneStuck'
<1>1. TypeOK /\ tasks \in Tables /\ Unstarted
  BY DEF SerialInv, Inv, TypeOK, Tables
<1>2. Still => NoneStuck'
  BY DEF Still, NoneStuck
<1>3. ASSUME NEW new, NEW r, Inserts(new, r) PROVE NoneStuck'
  <2>1. /\ Lists(tasks, r, new) /\ tasks' = Grown(tasks, r) /\ job = "absent"
        /\ \A n \in new : n.status = "pending" /\ n.pages # {}
    BY <1>3 DEF Inserts
  <2>2. \A s \in TaskId : tasks'[s].status # "finished"
    BY <1>1, <2>1 DEF Grown, Unstarted, Lists
  <2>3. \A f, p : Annotating(tasks', f, p) = {}
    BY <2>2 DEF Annotating, FinishedIn
  <2>4. ASSUME NEW t \in TaskId, StuckIn(tasks', t) PROVE FALSE
    <3>1. t \in DOMAIN r /\ tasks'[t] = r[t] /\ r[t] \in new
      BY <1>1, <2>1, <2>4 DEF StuckIn, Grown, Unstarted, Lists
    <3>2. PICK p : p \in tasks'[t].pages
      BY <2>1, <3>1
    <3>3. Cardinality(Annotating(tasks', tasks'[t].file, p)) >= Coverage
      BY <2>4, <3>2 DEF StuckIn
    <3> QED
      BY <2>3, <3>3, FS_EmptySet, JobAssumption
  <2> QED
    BY <2>4 DEF NoneStuck
<1>4. ASSUME NEW t \in TaskId, StuckIn(tasks', t),
             tasks'[t] = tasks[t],
             \A s \in TaskId :
                 /\ s \in LiveIn(tasks) => /\ s \in LiveIn(tasks')
                                           /\ tasks'[s].file = tasks[s].file
                                           /\ tasks'[s].pages = tasks[s].pages
                                           /\ tasks'[s].validation = tasks[s].validation
                 /\ s \in FinishedIn(tasks') => tasks'[s] = tasks[s]
      PROVE  FALSE
  <2>1. ASSUME NEW f, NEW p
        PROVE  /\ Annotating(tasks', f, p) \subseteq Annotating(tasks, f, p)
               /\ Annots(tasks, f, p) \subseteq Annots(tasks', f, p)
               /\ Reviews(tasks, f, p) \subseteq Reviews(tasks', f, p)
    BY <1>4 DEF Annotating, Annots, Reviews, FinishedIn, LiveIn
  <2>2. StuckIn(tasks, t)
    BY <1>4, <2>1, StuckBefore
  <2> QED
    BY <2>2 DEF NoneStuck
<1>5. ASSUME Starts, NEW t \in TaskId, StuckIn(tasks', t) PROVE FALSE
  <2>1. ASSUME NEW s \in TaskId
        PROVE  \/ tasks'[s] = tasks[s]
               \/ /\ s \in LiveIn(tasks) /\ tasks'[s].status = "ready"
                  /\ tasks'[s].file = tasks[s].file /\ tasks'[s].pages = tasks[s].pages
                  /\ tasks'[s].validation = tasks[s].validation
    <3>1. CASE tasks'[s] = tasks[s]
      BY <3>1
    <3>2. CASE tasks'[s] # tasks[s]
      <4>1. s \in Live /\ tasks'[s] = [tasks[s] EXCEPT !.status = "ready"]
        BY <1>5, <3>2 DEF Starts, StartedTasks, LeadingTasks
      <4>2. tasks[s] \in Task /\ s \in LiveIn(tasks)
        BY <1>1, <4>1, LiveStatus, LiveAre
      <4> QED
        BY <4>1, <4>2 DEF Task
    <3> QED
      BY <3>1, <3>2
  <2>2. tasks'[t] = tasks[t]
    BY <1>5, <2>1 DEF StuckIn
  <2>3. ASSUME NEW s \in TaskId
        PROVE  /\ s \in LiveIn(tasks) => /\ s \in LiveIn(tasks')
                                         /\ tasks'[s].file = tasks[s].file
                                         /\ tasks'[s].pages = tasks[s].pages
                                         /\ tasks'[s].validation = tasks[s].validation
               /\ s \in FinishedIn(tasks') => tasks'[s] = tasks[s]
    BY <2>1 DEF LiveIn, FinishedIn, Status
  <2> QED
    BY <1>4, <1>5, <2>2, <2>3
<1>6. ASSUME NEW x, NEW n, Works(x, n), NEW t \in TaskId, StuckIn(tasks', t)
      PROVE  FALSE
  <2>1. /\ x \in TaskId /\ n.status = "in_progress"
        /\ n.file = tasks[x].file /\ n.pages = tasks[x].pages
        /\ n.validation = tasks[x].validation
        /\ \A s \in TaskId : tasks'[s] = IF s = x THEN n ELSE tasks[s]
    BY <1>1, <1>6, LiveStatus DEF Works, Tables
  <2>2. tasks'[t] = tasks[t]
    BY <1>6, <2>1 DEF StuckIn
  <2>3. ASSUME NEW s \in TaskId
        PROVE  /\ s \in LiveIn(tasks) => /\ s \in LiveIn(tasks')
                                         /\ tasks'[s].file = tasks[s].file
                                         /\ tasks'[s].pages = tasks[s].pages
                                         /\ tasks'[s].validation = tasks[s].validation
               /\ s \in FinishedIn(tasks') => tasks'[s] = tasks[s]
    BY <2>1 DEF LiveIn, FinishedIn, Status
  <2> QED
    BY <1>4, <1>6, <2>2, <2>3
<1>7. ASSUME NEW x, NEW new, NEW created, NEW unblocked,
             Finishes(x, new, created, unblocked)
      PROVE  NoneStuck'
  BY <1>1, <1>7, FinishStuck
<1>8. ASSUME NEW t, NEW n, Updates(t, n) PROVE FALSE
  BY <1>8 DEF Updates
<1>9. ASSUME NEW ts, Deletes(ts) PROVE FALSE
  BY <1>9 DEF Deletes
<1>10. Starts => NoneStuck'
  BY <1>5 DEF NoneStuck
<1>11. ASSUME NEW x, NEW n, Works(x, n) PROVE NoneStuck'
  BY <1>6, <1>11 DEF NoneStuck
<1> QED
  BY <1>2, <1>3, <1>7, <1>8, <1>9, <1>10, <1>11 DEF Effect

\* Of which FirstRoundUnblocks is about the tasks of the job.
LEMMA UnstuckIsUnblocked ==
    ASSUME TypeOK, NoneStuck
    PROVE  FirstRoundUnblocks
<1> SUFFICES ASSUME NEW t \in Live, Stuck(t),
                    \A p \in tasks[t].pages : FirstRound(tasks[t].file, p)
             PROVE  FALSE
  BY DEF FirstRoundUnblocks
<1> DEFINE f == tasks[t].file
<1>1. \A s \in Live : s \in TaskId /\ tasks[s].validation \in BOOLEAN
  BY LiveStatus DEF Task
<1>2. ASSUME NEW p \in tasks[t].pages
      PROVE  /\ Cardinality(Annotating(tasks, f, p)) >= Coverage
             /\ Cardinality(Annots(tasks, f, p)) <= Coverage
             /\ Cardinality(Reviews(tasks, f, p)) = 1
  <2>1. {s \in TasksOf(f, FALSE) \cap FinishedTasks : p \in tasks[s].pages}
            = Annotating(tasks, f, p)
    BY <1>1, LiveAre DEF TasksOf, Annotating
  <2>2. {s \in TasksOf(f, FALSE) : p \in tasks[s].pages} = Annots(tasks, f, p)
    BY <1>1, LiveAre DEF TasksOf, Annots
  <2>3. {s \in TasksOf(f, TRUE) : p \in tasks[s].pages} = Reviews(tasks, f, p)
    BY <1>1, LiveAre DEF TasksOf, Reviews
  <2> QED
    BY <1>2, <2>1, <2>2, <2>3 DEF Stuck, Annotated, FirstRound
<1>3. StuckIn(tasks, t)
  BY <1>2 DEF StuckIn, Stuck
<1> QED
  BY <1>1, <1>3 DEF NoneStuck

(***************************************************************************)
(* In the first round of its pages no validation task is left pending once *)
(* they are all annotated: unblock_validation_tasks, called as each        *)
(* annotation task is finished, misses none.  It compares a page's count   *)
(* with extensive_coverage by =, so the argument needs that the count      *)
(* never jumps over it; a manager who adds, moves or deletes tasks changes *)
(* what a page waits for with no such call, and the theorem leaves that    *)
(* out.                                                                    *)
(***************************************************************************)
THEOREM FirstRoundIsUnblocked ==
    ASSUME ~Interleave, AdminOps \subseteq {"start"}
    PROVE  Spec => []FirstRoundUnblocks
<1>1. Init => NoneStuck
  BY DEF Init, NoneStuck, StuckIn, Absent
<1>2. SerialInv /\ NoneStuck /\ [Next]_vars => NoneStuck'
  BY StepEffect, NextStuck
<1>3. SerialInv /\ NoneStuck => FirstRoundUnblocks
  BY UnstuckIsUnblocked DEF SerialInv, Inv
<1>4. Spec => []SerialInv
  BY SerialInvHolds
<1> QED
  BY <1>1, <1>2, <1>3, <1>4, PTL DEF Spec

=============================================================================
