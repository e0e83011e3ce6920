--------------------------- MODULE Preprocessing ---------------------------
(***************************************************************************)
(* Preprocessing of files (processing/): a request runs a pipeline over    *)
(* batches of pages of files (tasks.py, utils/utils.py), pipelines reports *)
(* every execution, and assets is told the status of a file when all of    *)
(* its batches have ended (main.py, db/service.py).  All handlers are      *)
(* coroutines of one process: a step is what runs between two awaits.      *)
(***************************************************************************)
EXTENDS Naturals, Sequences, FiniteSets, SequencesExt, FiniteSetsExt

CONSTANTS
    Batch,         \* ids of requests
    PageCount,     \* the number of pages of each file that assets has
    RunRequests,   \* requests: <<id, sequence of ids of files>> pairs
    PagesPerBatch, \* pages_per_batch: 3
    SearchLimit,   \* elements on a page of a search: 100
    MaxTasks,      \* max_tasks: 10 requests at work
    Attempts,      \* retry_attempts: 3
    MaxExecutions, \* bound on the number of executions
    MaxPreFaults   \* bound on the number of failing calls

VARIABLES
    queue,      \* requests that wait for the semaphore
    run,        \* each request: what it does, its files, what was found
    executions, \* executions of pipelines, numbered: [batch, file, pages, status, told]
    tasks,      \* rows: the status of the executions that are saved
    fileStatus, \* the status of each file in assets
    reports,    \* executions whose callback is telling assets
    preFaults,  \* number of failing calls
    excused     \* history: <<batch, file>> pairs whose status was not told, or
                \* was told before the request said "in progress"

preVars == <<queue, run, executions, tasks, fileStatus, reports, preFaults, excused>>

KnownFile == DOMAIN PageCount
NoRun == [at |-> "none", files |-> <<>>]
AtWork == {"search", "execute", "save"}
Ended == {"Finished", "Failed"}

RunAt(b, step) == run[b].at = step
RunGoes(b, r) == run' = [run EXCEPT ![b] = r]
Fault == preFaults < MaxPreFaults /\ preFaults' = preFaults + 1

ChunkOf(s, n, k) == SubSeq(s, (k - 1) * n + 1, Min({k * n, Len(s)}))

\* split_iterable
Split(s, n) == [k \in 1 .. (Len(s) + n - 1) \div n |-> ChunkOf(s, n, k)]

-----------------------------------------------------------------------------
(* POST /run_preprocess *)

RunPreprocess(b, files) ==
    /\ RunAt(b, "none")
    /\ RunGoes(b, [at |-> "wait", files |-> files]) /\ queue' = Append(queue, b)
    /\ UNCHANGED <<executions, tasks, fileStatus, reports, preFaults, excused>>

\* BaseTask.execute: the semaphore is fair.
Acquire(b) ==
    /\ queue # <<>> /\ Head(queue) = b /\ queue' = Tail(queue)
    /\ Cardinality({c \in Batch : run[c].at \in AtWork}) < MaxTasks
    /\ RunGoes(b, [run[b] EXCEPT !.at = "search"])
    /\ UNCHANGED <<executions, tasks, fileStatus, reports, preFaults, excused>>

\* get_files_data: every chunk of ids is searched, on the page that the number
\* of all ids gives.
FilesData(files) ==
    LET page == Len(files) \div SearchLimit + 1
        answer(ids) == LET hits == SelectSeq(ids, LAMBDA f : f \in KnownFile)
                       IN  SubSeq(hits, (page - 1) * SearchLimit + 1,
                                  Min({page * SearchLimit, Len(hits)}))
        chunks == Split(files, SearchLimit)
    IN  FlattenSeq([k \in DOMAIN chunks |-> answer(chunks[k])])

SearchFiles(b) ==
    /\ RunAt(b, "search")
    /\ RunGoes(b, [at |-> "execute", files |-> run[b].files,
                   found |-> FilesData(run[b].files), attempt |-> 1])
    /\ UNCHANGED <<queue, executions, tasks, fileStatus, reports, preFaults, excused>>

\* prepare_data_for_pipelines
Prepared(f) ==
    LET pages == [p \in 1 .. PageCount[f] |-> p]
    IN  IF PageCount[f] <= PagesPerBatch THEN <<pages>> ELSE Split(pages, PagesPerBatch)

Bodies(b) ==
    FlattenSeq([i \in DOMAIN run[b].found |->
        LET f == run[b].found[i]
        IN  [k \in DOMAIN Prepared(f) |->
                [batch |-> b, file |-> f, pages |-> ToSet(Prepared(f)[k]),
                 status |-> "Pending", told |-> TRUE]]])

\* execute_pipeline: pipelines has begun when it answers.
ExecutePipeline(b) ==
    /\ RunAt(b, "execute") /\ executions' = executions \o Bodies(b)
    /\ Len(executions') <= MaxExecutions
    /\ RunGoes(b, [at |-> "save", files |-> run[b].files,
                   ids |-> Len(executions) + 1 .. Len(executions')])
    /\ UNCHANGED <<queue, tasks, fileStatus, reports, preFaults, excused>>

\* A status of retry_statuses (501, 502, ...) asks once more, whether pipelines
\* has begun or not.
AskAgain(b) ==
    /\ RunAt(b, "execute") /\ Fault
    /\ executions' \in {executions, executions \o Bodies(b)}
    /\ Len(executions') <= MaxExecutions
    /\ RunGoes(b, IF run[b].attempt < Attempts THEN [run[b] EXCEPT !.attempt = @ + 1]
                  ELSE [at |-> "failed", files |-> run[b].files])
    /\ UNCHANGED <<queue, tasks, fileStatus, reports, excused>>

\* Another status, of assets or of pipelines, ends the request: 500.
RunFails(b) ==
    /\ run[b].at \in {"search", "execute"} /\ Fault
    /\ RunGoes(b, [at |-> "failed", files |-> run[b].files])
    /\ UNCHANGED <<queue, executions, tasks, fileStatus, reports, excused>>

\* The rows are committed and the semaphore is released.
SaveTasks(b) ==
    /\ RunAt(b, "save")
    /\ tasks' = [e \in DOMAIN tasks \cup run[b].ids |->
                    IF e \in DOMAIN tasks THEN tasks[e] ELSE "Pending"]
    /\ RunGoes(b, [at |-> "mark", files |-> run[b].files, left |-> ToSet(run[b].files)])
    /\ UNCHANGED <<queue, executions, fileStatus, reports, preFaults, excused>>

RowsOf(b, f) == {e \in DOMAIN tasks : executions[e].batch = b /\ executions[e].file = f}

MarkEnds(b, f) ==
    LET left == run[b].left \ {f}
    IN  RunGoes(b, IF left = {} THEN [at |-> "done", files |-> run[b].files]
                   ELSE [run[b] EXCEPT !.left = left])

\* update_file_statuses: one call for each file of the request, all at once.
MarkInProgress(b, f) ==
    /\ RunAt(b, "mark") /\ f \in run[b].left /\ MarkEnds(b, f)
    /\ fileStatus' = IF f \in KnownFile THEN [fileStatus EXCEPT ![f] = "in progress"]
                     ELSE fileStatus
    /\ excused' = excused \cup {<<c, f>> : c \in {d \in Batch :
           \A e \in RowsOf(d, f) : tasks[e] \in Ended /\ e \notin reports}}
    /\ UNCHANGED <<queue, executions, tasks, reports, preFaults>>

MarkFails(b, f) ==
    /\ RunAt(b, "mark") /\ f \in run[b].left /\ MarkEnds(b, f) /\ Fault
    /\ UNCHANGED <<queue, executions, tasks, fileStatus, reports, excused>>

-----------------------------------------------------------------------------
(* Pipelines, and PUT /tasks/{task_id} *)

Told(e, told) == executions' = [executions EXCEPT ![e].told = told]

\* An execution reports each of its statuses before it has the next.
ExecutionGoes(e, s) ==
    /\ executions[e].told
    /\ <<executions[e].status, s>> \in {<<"Pending", "Running">>,
                                         <<"Running", "Finished">>, <<"Running", "Failed">>}
    /\ executions' = [executions EXCEPT ![e].status = s, ![e].told = FALSE]
    /\ UNCHANGED <<queue, run, tasks, fileStatus, reports, preFaults, excused>>

Statuses_OfFile(rows, e) ==
    {rows[x] : x \in {y \in DOMAIN rows : executions[y].file = executions[e].file
                                           /\ rows[y] # "Pending"}}

\* check_preprocessing_complete
Statuses(rows, e) ==
    {rows[x] : x \in {y \in DOMAIN rows : executions[y].file = executions[e].file
                                           /\ executions[y].batch = executions[e].batch}}

Complete(rows, e) == Statuses(rows, e) \subseteq Ended

\* update_task_status
UpdateTaskStatus(e) ==
    /\ ~executions[e].told /\ e \in DOMAIN tasks /\ e \notin reports
    /\ tasks' = [tasks EXCEPT ![e] = executions[e].status]
    /\ IF Complete(tasks', e) THEN reports' = reports \cup {e} /\ UNCHANGED executions
       ELSE Told(e, TRUE) /\ UNCHANGED reports
    /\ UNCHANGED <<queue, run, fileStatus, preFaults, excused>>

\* map_finish_status_for_assets
FinishStatus(e) ==
    IF Statuses(tasks, e) = {"Finished"} THEN "preprocessed" ELSE "failed"

\* The rows were read before the call, and are complete: they do not change.
TellAssets(e) ==
    /\ e \in reports /\ reports' = reports \ {e} /\ Told(e, TRUE)
    /\ fileStatus' = [fileStatus EXCEPT ![executions[e].file] = FinishStatus(e)]
    /\ UNCHANGED <<queue, run, tasks, preFaults, excused>>

\* The callback is answered with 500, and pipelines repeats it.
AssetsFails(e) ==
    /\ e \in reports /\ reports' = reports \ {e} /\ Fault
    /\ UNCHANGED <<queue, run, executions, tasks, fileStatus, excused>>

\* Pipelines gives up after three tries: of what is not saved (404), or when the
\* service does not answer.
CallbackLost(e) ==
    /\ ~executions[e].told /\ e \notin reports /\ Told(e, TRUE)
    /\ IF e \in DOMAIN tasks THEN Fault ELSE UNCHANGED preFaults
    /\ excused' = excused \cup {<<executions[e].batch, executions[e].file>>}
    /\ UNCHANGED <<queue, run, tasks, fileStatus, reports>>

-----------------------------------------------------------------------------
Init ==
    /\ queue = <<>> /\ run = [b \in Batch |-> NoRun]
    /\ executions = <<>> /\ tasks = <<>>
    /\ fileStatus = [f \in KnownFile |-> "uploaded"]
    /\ reports = {} /\ preFaults = 0 /\ excused = {}

Next ==
    \/ \E q \in RunRequests : RunPreprocess(q[1], q[2])
    \/ \E b \in Batch :
           \/ Acquire(b) \/ SearchFiles(b) \/ ExecutePipeline(b) \/ AskAgain(b)
           \/ RunFails(b) \/ SaveTasks(b)
           \/ \E i \in DOMAIN run[b].files :
                  MarkInProgress(b, run[b].files[i]) \/ MarkFails(b, run[b].files[i])
    \/ \E e \in DOMAIN executions :
           \/ \E s \in {"Running", "Finished", "Failed"} : ExecutionGoes(e, s)
           \/ UpdateTaskStatus(e) \/ TellAssets(e) \/ AssetsFails(e) \/ CallbackLost(e)

Spec == Init /\ [][Next]_preVars

-----------------------------------------------------------------------------
(* Properties *)

\* A file is preprocessed when one request has finished all of its pages.
PreprocessedIsComplete ==
    \A f \in KnownFile : fileStatus[f] = "preprocessed" =>
        \E b \in Batch : LET rows == RowsOf(b, f)
                         IN  /\ \A e \in rows : executions[e].status = "Finished"
                             /\ UNION {executions[e].pages : e \in rows} = 1 .. PageCount[f]

Settled ==
    /\ \A b \in Batch : run[b].at \in {"none", "failed", "done"}
    /\ \A e \in DOMAIN executions : executions[e].status \in Ended /\ executions[e].told
    /\ reports = {}

\* When nothing is under way a file that was executed has the outcome of a
\* request, unless every report was lost or overtaken.
FilesSettle ==
    Settled => \A f \in KnownFile :
        LET mine == {b \in Batch : RowsOf(b, f) # {}}
        IN  (\E b \in mine : <<b, f>> \notin excused) =>
                \E b \in mine : fileStatus[f] =
                    IF \A e \in RowsOf(b, f) : executions[e].status = "Finished"
                    THEN "preprocessed" ELSE "failed"

\* A file in progress is being executed.  Refuted: of as many files as a search
\* has on a page, none is found, and all are marked.
InProgressIsExecuted ==
    \A f \in KnownFile : fileStatus[f] = "in progress" =>
        \E b \in Batch : RowsOf(b, f) # {}

=============================================================================
