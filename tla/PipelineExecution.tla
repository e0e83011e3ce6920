------------------------- MODULE PipelineExecution -------------------------
(***************************************************************************)
(* Execution of a pipeline by the pipelines service                        *)
(* (pipelines/pipelines/execution.py, pipeline_runner.py, db/service.py):  *)
(* one task for each file of a job, one step for each model of the         *)
(* pipeline.  A step goes to the scheduler over Kafka, its answer comes    *)
(* back over Kafka and starts the steps after it.                          *)
(*                                                                         *)
(* The service is one process with one asyncio loop.  Its database and     *)
(* HTTP calls block the loop, so that a coroutine runs without a break up  *)
(* to one of the few awaits that really wait: the sleep between two looks  *)
(* at a file's status, consumer.commit and producer.send.  create_task     *)
(* puts a coroutine at the end of the loop's queue.                        *)
(***************************************************************************)
EXTENDS Naturals, Sequences, FiniteSets

CONSTANTS
    Task,        \* ids of the tasks table (bounds the tasks), positive
    Step,        \* steps of the pipelines
    Pipelines,   \* pipelines considered: [type, parent, top, files, begins] records,
                 \* begins being the pairs of tasks where the path of the first is a
                 \* prefix of that of the second
    Outcomes,    \* what a model may answer: subset of AnswerKinds
    MaxRetries,  \* MAX_FILE_STATUS_RETRIES
    Faults,      \* kinds of faults that may happen, each once
    MaxFaults    \* bound on how many of them do

AnswerKinds == {"result", "empty", "error"}

FaultKinds == {"crash", "send", "commit", "webhook", "token", "merge", "file",
               "repeat", "delete", "retries"}

Job == 0

ASSUME PipelineAssumption ==
    /\ Task \subseteq Nat \ {Job}
    /\ \A p \in Pipelines :
           /\ p.type \in {"inference", "preprocessing"}
           /\ DOMAIN p.parent \subseteq Step
           /\ p.parent \in [DOMAIN p.parent -> DOMAIN p.parent]
           /\ p.top \in DOMAIN p.parent /\ p.parent[p.top] = p.top
           /\ p.files \subseteq Task
           /\ IsFiniteSet(DOMAIN p.parent) /\ IsFiniteSet(p.files)
    /\ Outcomes \subseteq AnswerKinds
    /\ MaxRetries \in Nat \ {0}
    /\ Faults \subseteq FaultKinds
    /\ MaxFaults \in Nat

VARIABLES
    pipe,       \* the pipeline that is executed, on which files, and which of their
                \* paths begin as that of another
    task,       \* pipeline_execution_task: status of each row
    step,       \* execution_step: status of each row of each task
    loop,       \* coroutines ready to run, in the loop's order
    sleeping,   \* tasks that wait for their file, with the retry they are at
    sends,      \* producer.send calls in progress
    units,      \* what the scheduler has been sent and has not answered
    answers,    \* topic the scheduler answers on
    position,   \* messages of it the consumer has read
    committed,  \* and committed
    consumer,   \* "idle", "committing" or "stopped"
    up,         \* is the process running?
    store,      \* steps of a task whose results are in object storage
    posted,     \* results, <<task, step>>, the annotation service was last sent for
                \* the file of a task
    told,       \* status last sent over the webhook, of the job or of a task
    repeated,   \* tasks with a step the scheduler answered twice
    faults      \* kinds of faults that happened

rowVars == <<task, step>>
kafkaVars == <<units, answers, position, committed, consumer>>
outVars == <<store, posted, told>>
vars == <<pipe, task, step, loop, sleeping, sends, units, answers, position,
          committed, consumer, up, store, posted, told, repeated, faults>>

Status == {"Pending", "Running", "Finished", "Failed"}
Rows == {t \in Task : task[t] \in Status}
Steps == DOMAIN pipe.parent

-----------------------------------------------------------------------------
(* Coroutines *)

StartTask(t) == [kind |-> "start", task |-> t, retry |-> 1]
LaunchStep(t, s, b) == [kind |-> "launch", task |-> t, step |-> s, body |-> b]
ExecuteStep(t, s, b) ==
    [kind |-> "execute", task |-> t, step |-> s, body |-> b]
ProcessMessage(m) ==
    [kind |-> "process", task |-> m.task, step |-> m.step,
     outcome |-> m.outcome]
NextSteps(t, s, o) == [kind |-> "next", task |-> t, step |-> s, outcome |-> o]
FinishTask(t, f) == [kind |-> "finish", task |-> t, failed |-> f]

Coroutine ==
    {[kind |-> "start", task |-> t, retry |-> r] :
        t \in Task, r \in 1 .. MaxRetries}
    \cup {LaunchStep(t, s, b) : t \in Task, s \in Step, b \in BOOLEAN}
    \cup {ExecuteStep(t, s, b) : t \in Task, s \in Step, b \in BOOLEAN}
    \cup {[kind |-> "process", task |-> t, step |-> s, outcome |-> o] :
             t \in Task, s \in Step, o \in AnswerKinds}
    \cup {NextSteps(t, s, o) : t \in Task, s \in Step, o \in AnswerKinds}
    \cup {FinishTask(t, f) : t \in Task, f \in BOOLEAN}

Message == [task : Task, step : Step, outcome : AnswerKinds]

\* The coroutine at the head of the queue ends, those of new follow the rest.
Ran(new) == loop' = Tail(loop) \o new

\* The faults in f happen in this step.
Happen(f) ==
    /\ f \subseteq Faults \ faults
    /\ Cardinality(faults \cup f) <= MaxFaults
    /\ faults' = faults \cup f

Fault(k) == Happen({k})

-----------------------------------------------------------------------------
(* Rows *)

UpdateStep(t, s, status) ==
    step' = IF t \in Rows THEN [step EXCEPT ![t][s] = status] ELSE step

IsCompleted_NoneLeft(st, t) ==
    \A s \in Steps : st[t][s] \notin {"Pending", "Running"}

IsCompleted(st, t) == \A s \in Steps : st[t][s] = "Finished"

ChangeStatus(t, status) == IF t \in Rows THEN [task EXCEPT ![t] = status] ELSE task

Children_All(s) == Steps \ {s, pipe.top}

Children(s) == {c \in Steps \ {s} : pipe.parent[c] = s}

CountTasks(tt, status) == Cardinality({t \in Task : tt[t] = status})

JobStatusIfChanged_NoReturn(tt, status) ==
    LET total == Cardinality({t \in Task : tt[t] \in Status})
    IN  CASE CountTasks(tt, "Failed") = 1 /\ status = "Failed" -> "Failed"
          [] CountTasks(tt, "Finished") + CountTasks(tt, "Failed") = total ->
                 "Finished"
          [] OTHER -> "none"

\* get_job_status_if_changed: what the job becomes after a task got status.
JobStatusIfChanged(tt, status) ==
    LET total == Cardinality({t \in Task : tt[t] \in Status})
    IN  CASE CountTasks(tt, "Failed") > 0 ->
                 IF CountTasks(tt, "Failed") = 1 /\ status = "Failed"
                 THEN "Failed" ELSE "none"
          [] CountTasks(tt, "Failed") = 0
             /\ CountTasks(tt, "Finished") = total -> "Finished"
          [] CountTasks(tt, "Failed") = 0
             /\ CountTasks(tt, "Finished") = 0 /\ total > 0
             /\ CountTasks(tt, "Running") = 1 -> "In Progress"
          [] OTHER -> "none"

\* send_status: url and body of the webhook, if there is something to tell.
StatusToTell(tt, t, status) ==
    IF pipe.type = "preprocessing" THEN [told EXCEPT ![t] = status]
    ELSE IF JobStatusIfChanged(tt, status) = "none" THEN told
    ELSE [told EXCEPT ![Job] = JobStatusIfChanged(tt, status)]

\* send_webhook gives up after three tries, and no one repeats it.
SendStatus(tt, t, status, lost) ==
    told' = IF lost THEN told ELSE StatusToTell(tt, t, status)

\* list_object_names: the path of a task is a prefix of its own results, and of
\* those of a task whose file, or batch, has a number that begins alike.
Under(t) == {n \in Task : n = t \/ <<t, n>> \in pipe.begins}
Listed(t) == {o \in Task \X Step : o[1] \in Under(t) /\ o[2] \in store[o[1]]}

\* manage_result_for_annotator: merge what the steps stored, have it
\* postprocessed, post it to the annotation service, remove it.  Where the
\* last answer is lost it fails with the result posted.
ManageResult(t, managed) ==
    IF managed
    THEN /\ posted' = [posted EXCEPT ![t] = Listed(t)]
         /\ store' = [n \in Task |-> IF n \in Under(t) THEN {} ELSE store[n]]
    ELSE /\ posted' \in {posted} \cup
                IF Listed(t) = {} THEN {}
                ELSE {[posted EXCEPT ![t] = Listed(t)]}
         /\ UNCHANGED store

\* PipelineTask.finish has no await: it is part of what calls it.  It raises
\* if there is no service token to be had, and then changes nothing.
Finish(t, failed) ==
    \E f \in SUBSET {"merge", "webhook", "token"} :
        /\ Happen(f)
        /\ IF "token" \in f THEN UNCHANGED <<task, outVars>>
           ELSE LET merges == ~failed /\ pipe.type = "inference"
                    managed == Listed(t) # {} /\ "merge" \notin f
                    status == IF failed \/ (merges /\ ~managed)
                              THEN "Failed" ELSE "Finished"
                IN  /\ IF merges THEN ManageResult(t, managed)
                       ELSE UNCHANGED <<store, posted>>
                    /\ task' = ChangeStatus(t, status)
                    /\ SendStatus(task', t, status, "webhook" \in f)

-----------------------------------------------------------------------------
(* Requests *)

Ascending(ts) ==
    {q \in [1 .. Cardinality(ts) -> ts] : \A i, j \in DOMAIN q : i < j => q[i] < q[j]}

\* A row for the task and for each of its steps, and the coroutine of the task.
InitializeExecution(ts) ==
    /\ task' = [t \in Task |-> IF t \in ts THEN "Pending" ELSE task[t]]
    /\ \E q \in Ascending(ts) : loop' = loop \o [i \in DOMAIN q |-> StartTask(q[i])]

\* POST /pipelines/{id}/execute: a task and its steps for each argument, in
\* one commit each, before any of the tasks starts.
Execute(ts) ==
    /\ up /\ ts # {}
    /\ \A t \in ts : task[t] = "absent" /\ t \in pipe.files
    /\ InitializeExecution(ts)
    /\ UNCHANGED <<pipe, step, sleeping, sends, kafkaVars, up, outVars,
                   repeated, faults>>

\* DELETE /pipelines/tasks/{id}; the steps go with the task.
DeleteTask(t) ==
    /\ up /\ t \in Rows /\ Fault("delete")
    /\ task' = [task EXCEPT ![t] = "deleted"]
    /\ UNCHANGED <<pipe, step, loop, sleeping, sends, kafkaVars, up, outVars,
                   repeated>>

-----------------------------------------------------------------------------
(* Coroutines at work.  Where the row is gone, an attribute of None is read: *)
(* the coroutine ends and nobody looks at its exception.                     *)

Head1(kind) == up /\ loop # <<>> /\ Head(loop).kind = kind

\* The part of start after the file has been found to be preprocessed.  With
\* no service token send_status raises, and the first step is not launched.
Started(t) ==
    \E f \in SUBSET {"webhook", "token"} :
        /\ Happen(f)
        /\ task' = ChangeStatus(t, "Running")
        /\ SendStatus(task', t, "Running", f # {})
        /\ Ran(IF "token" \in f THEN <<>>
               ELSE <<LaunchStep(t, pipe.top, TRUE)>>)
        /\ UNCHANGED <<step, sleeping, store, posted>>

\* update_steps and finish(failed=True) when the file cannot be used.
FileUnusable(t) ==
    /\ step' = IF t \in Rows
               THEN [step EXCEPT ![t] = [s \in Steps |-> "Failed"]] ELSE step
    /\ Finish(t, TRUE)

\* Answers of the assets service to check_preprocessing_status.
Start ==
    /\ Head1("start")
    /\ LET t == Head(loop).task  r == Head(loop).retry
       IN  \/ Started(t)
           \/ /\ pipe.type = "inference"
              /\ sleeping' = sleeping \cup {[task |-> t, retry |-> r]}
              /\ Ran(<<>>)
              /\ UNCHANGED <<rowVars, outVars, faults>>
           \/ /\ pipe.type = "inference" /\ "file" \in Faults
              /\ FileUnusable(t) /\ Ran(<<>>) /\ UNCHANGED sleeping
    /\ UNCHANGED <<pipe, sends, kafkaVars, up, repeated>>

\* asyncio.sleep is over: the next look, or one too many.  A number of retries
\* that was set in the environment is a str and equals no retry: the error to be
\* written has no value, and the coroutine ends.
Wake(w) ==
    /\ up /\ w \in sleeping
    /\ sleeping' = sleeping \ {w}
    /\ IF w.retry < MaxRetries
       THEN /\ loop' = Append(loop, [StartTask(w.task) EXCEPT
                                         !.retry = w.retry + 1])
            /\ UNCHANGED <<rowVars, outVars, faults>>
       ELSE /\ \/ FileUnusable(w.task)
               \/ Fault("retries") /\ UNCHANGED <<rowVars, outVars>>
            /\ UNCHANGED loop
    /\ UNCHANGED <<pipe, sends, kafkaVars, up, repeated>>

\* step_execution_with_logging with process_step_startup.
Launch ==
    /\ Head1("launch")
    /\ LET c == Head(loop)
       IN  IF c.task \in Rows
           THEN /\ UpdateStep(c.task, c.step, "Running")
                /\ Ran(<<ExecuteStep(c.task, c.step, c.body)>>)
           ELSE UNCHANGED step /\ Ran(<<>>)
    /\ UNCHANGED <<pipe, task, sleeping, sends, kafkaVars, up, outVars,
                   repeated, faults>>

\* step_execution of a step with arguments: it is sent to the scheduler.
ExecuteSend ==
    /\ Head1("execute") /\ Head(loop).body
    /\ sends' = IF Head(loop).task \in Rows
                THEN sends \cup {<<Head(loop).task, Head(loop).step>>}
                ELSE sends
    /\ Ran(<<>>)
    /\ UNCHANGED <<pipe, rowVars, sleeping, kafkaVars, up, outVars, repeated,
                   faults>>

ExecuteSkip_NoFinish ==
    /\ Head1("execute") /\ ~Head(loop).body
    /\ UpdateStep(Head(loop).task, Head(loop).step, "Finished")
    /\ Ran(<<>>)
    /\ UNCHANGED <<pipe, task, sleeping, sends, kafkaVars, up, outVars,
                   repeated, faults>>

\* step_execution of a step without: it is done, its children never start.
ExecuteSkip ==
    /\ Head1("execute") /\ ~Head(loop).body
    /\ LET c == Head(loop)
       IN  /\ UpdateStep(c.task, c.step, "Finished")
           /\ IF c.task \in Rows /\ IsCompleted(step', c.task)
              THEN Finish(c.task, FALSE)
              ELSE UNCHANGED <<task, outVars, faults>>
    /\ Ran(<<>>)
    /\ UNCHANGED <<pipe, sleeping, sends, kafkaVars, up, repeated>>

Sent(u) ==
    /\ up /\ u \in sends
    /\ sends' = sends \ {u}
    /\ \/ units' = units \cup {u} /\ UNCHANGED faults
       \/ UNCHANGED units /\ Fault("send")
    /\ UNCHANGED <<pipe, rowVars, loop, sleeping, answers, position,
                   committed, consumer, up, outVars, repeated>>

StepStatus_Empty(o) ==
    CASE o = "error" -> "Failed" [] o = "empty" -> "Empty"
      [] OTHER -> "Finished"

StepStatus(o) == IF o = "error" THEN "Failed" ELSE "Finished"

\* process_message: store the answer, then finish the task or go on.
Process ==
    /\ Head1("process")
    /\ LET c == Head(loop)  t == Head(loop).task
       IN  IF t \notin Rows THEN UNCHANGED step /\ Ran(<<>>)
           ELSE /\ UpdateStep(t, c.step, StepStatus(c.outcome))
                /\ Ran(<<IF c.outcome = "error" THEN FinishTask(t, TRUE)
                         ELSE IF IsCompleted(step', t)
                              THEN FinishTask(t, FALSE)
                              ELSE NextSteps(t, c.step, c.outcome)>>)
    /\ UNCHANGED <<pipe, task, sleeping, sends, kafkaVars, up, outVars,
                   repeated, faults>>

\* process_next_steps: an empty result leaves the children no arguments.
Next1 ==
    /\ Head1("next")
    /\ LET c == Head(loop)
       IN  IF c.task \notin Rows THEN Ran(<<>>)
           ELSE \E q \in [1 .. Cardinality(Children(c.step)) ->
                             Children(c.step)] :
                    /\ \A i, j \in DOMAIN q : i # j => q[i] # q[j]
                    /\ Ran([i \in DOMAIN q |->
                                LaunchStep(c.task, q[i],
                                           c.outcome = "result")])
    /\ UNCHANGED <<pipe, rowVars, sleeping, sends, kafkaVars, up, outVars,
                   repeated, faults>>

RunFinish ==
    /\ Head1("finish")
    /\ Finish(Head(loop).task, Head(loop).failed)
    /\ Ran(<<>>)
    /\ UNCHANGED <<pipe, step, sleeping, sends, kafkaVars, up, repeated>>

-----------------------------------------------------------------------------
(* The scheduler, the consumer, the process *)

\* A model has run: its result is in object storage, its answer in the topic.
Answer(u, o) ==
    /\ u \in units
    /\ units' = units \ {u}
    /\ answers' = Append(answers,
                         [task |-> u[1], step |-> u[2], outcome |-> o])
    /\ store' = IF o = "result" /\ pipe.type = "inference"
                THEN [store EXCEPT ![u[1]] = @ \cup {u[2]}] ELSE store
    /\ UNCHANGED <<pipe, rowVars, loop, sleeping, sends, position, committed,
                   consumer, up, posted, told, repeated, faults>>

\* A unit taken over from a runner that was not dead is run twice; a message
\* may also be delivered again.  The second answer may be another one.
AnswerAgain(i, o, again) ==
    /\ i \in DOMAIN answers
    /\ Fault("repeat")
    /\ answers' = Append(answers, [answers[i] EXCEPT !.outcome = o])
    /\ store' = IF again /\ o = "result" /\ pipe.type = "inference"
                THEN [store EXCEPT ![answers[i].task] =
                         @ \cup {answers[i].step}]
                ELSE store
    /\ repeated' = repeated \cup {answers[i].task}
    /\ UNCHANGED <<pipe, rowVars, loop, sleeping, sends, units, position,
                   committed, consumer, up, posted, told>>

Receive ==
    /\ up /\ consumer = "idle" /\ position < Len(answers)
    /\ consumer' = "committing"
    /\ position' = position + 1
    /\ UNCHANGED <<pipe, rowVars, loop, sleeping, sends, units, answers,
                   committed, up, outVars, repeated, faults>>

\* The message is committed first and processed later.
Commit ==
    /\ up /\ consumer = "committing"
    /\ consumer' = "idle"
    /\ committed' = position
    /\ loop' = Append(loop, ProcessMessage(answers[position]))
    /\ UNCHANGED <<pipe, rowVars, sleeping, sends, units, answers, position,
                   up, outVars, repeated, faults>>

\* commit raises: run_pipeline ends, and with it the consumer.
CommitFails ==
    /\ up /\ consumer = "committing" /\ Fault("commit")
    /\ consumer' = "stopped"
    /\ UNCHANGED <<pipe, rowVars, loop, sleeping, sends, units, answers,
                   position, committed, up, outVars, repeated>>

Crash ==
    /\ up /\ Fault("crash")
    /\ up' = FALSE
    /\ loop' = <<>> /\ sleeping' = {} /\ sends' = {}
    /\ UNCHANGED <<pipe, rowVars, kafkaVars, outVars, repeated>>

\* startup_kafka starts the consumer, and nothing else: no task is resumed.
Restart ==
    /\ ~up
    /\ up' = TRUE
    /\ consumer' = "idle" /\ position' = committed
    /\ UNCHANGED <<pipe, rowVars, loop, sleeping, sends, units, answers,
                   committed, outVars, repeated, faults>>

-----------------------------------------------------------------------------
Init ==
    /\ pipe \in Pipelines
    /\ task = [t \in Task |-> "absent"]
    /\ step = [t \in Task |-> [s \in Steps |-> "Pending"]]
    /\ loop = <<>> /\ sleeping = {} /\ sends = {}
    /\ units = {} /\ answers = <<>>
    /\ position = 0 /\ committed = 0
    /\ consumer = "idle" /\ up = TRUE
    /\ store = [t \in Task |-> {}] /\ posted = [t \in Task |-> {}]
    /\ told = [t \in Task \cup {Job} |-> "none"]
    /\ repeated = {} /\ faults = {}

Coroutines ==
    \/ Start \/ Launch \/ ExecuteSend \/ ExecuteSkip \/ Process \/ Next1
    \/ RunFinish

Next ==
    \/ \E ts \in SUBSET Task : Execute(ts)
    \/ \E t \in Task : DeleteTask(t)
    \/ Coroutines
    \/ \E w \in sleeping : Wake(w)
    \/ \E u \in sends : Sent(u)
    \/ \E u \in units, o \in Outcomes : Answer(u, o)
    \/ \E i \in DOMAIN answers, o \in Outcomes, again \in BOOLEAN :
           AnswerAgain(i, o, again)
    \/ Receive \/ Commit \/ CommitFails \/ Crash \/ Restart

\* The loop runs what is ready, a sleep, a send and a commit end, the process
\* is started again by its supervisor.  Nothing makes the scheduler answer.
Fairness ==
    /\ WF_vars(Coroutines)
    /\ \A t \in Task, r \in 1 .. MaxRetries :
           WF_vars(Wake([task |-> t, retry |-> r]))
    /\ \A u \in Task \X Step : WF_vars(Sent(u))
    /\ WF_vars(Receive) /\ WF_vars(Commit) /\ WF_vars(Restart)

Spec == Init /\ [][Next]_vars /\ Fairness

-----------------------------------------------------------------------------
(* Properties *)

TypeOK ==
    /\ pipe \in Pipelines
    /\ task \in [Task -> Status \cup {"absent", "deleted"}]
    /\ step \in [Task -> [Steps -> Status]]
    /\ loop \in Seq(Coroutine)
    /\ sleeping \subseteq [task : Task, retry : 1 .. MaxRetries]
    /\ sends \subseteq Task \X Step /\ units \subseteq Task \X Step
    /\ answers \in Seq(Message)
    /\ position \in 0 .. Len(answers) /\ committed \in 0 .. position
    /\ consumer \in {"idle", "committing", "stopped"} /\ up \in BOOLEAN
    /\ store \in [Task -> SUBSET Step] /\ posted \in [Task -> SUBSET (Task \X Step)]
    /\ told \in [Task \cup {Job} -> Status \cup {"none", "In Progress"}]
    /\ repeated \subseteq Task /\ faults \subseteq FaultKinds

Answered(t) == {s \in Step : \E i \in DOMAIN answers :
                   answers[i].task = t /\ answers[i].step = s}

WithResult(t) == {s \in Step : \E i \in DOMAIN answers :
                     answers[i].task = t /\ answers[i].step = s
                     /\ answers[i].outcome = "result"}

\* The path of no other task begins as that of t does, nor the other way round.
Alone(t) ==
    \A n \in Task : <<t, n>> \notin pipe.begins /\ <<n, t>> \notin pipe.begins

ResultsOf(t) == {t} \X WithResult(t)

\* What the annotation service gets for a file is sent when all the steps of the
\* task are done, and is what all of them found, not what was in object storage
\* when the first of them ended, as long as no step was answered twice and no
\* other path in the storage begins alike (finish, manage_result_for_annotator).
MergedResultsAreComplete ==
    \A t \in Task \ repeated :
        posted[t] # {} => /\ \A s \in Steps : step[t][s] = "Finished"
                          /\ Alone(t) => posted[t] = ResultsOf(t)

Quiet == up /\ loop = <<>>

\* Once nothing runs, the status the job was last told is the outcome of its
\* tasks: failed if one of them did, finished if all did, and never in
\* progress afterwards, however often and in whatever order they are answered
\* (get_job_status_if_changed), unless the webhook was lost, a task deleted or
\* the process restarted.
JobToldOutcome ==
    ( /\ Quiet /\ pipe.type = "inference" /\ Rows # {}
      /\ \A t \in Rows : task[t] \in {"Finished", "Failed"}
      /\ faults \cap {"webhook", "token", "crash", "delete"} = {} )
    => told[Job] = IF \E t \in Rows : task[t] = "Failed"
                   THEN "Failed" ELSE "Finished"

\* A task that has ended stays as it ended, although steps of other branches
\* are still under way when one fails: none of them brings it back
\* (process_message, is_completed).  An answer that comes twice does.
EndedTasksStay ==
    [][\A t \in Task \ repeated :
           task[t] \in {"Finished", "Failed"} => task'[t] \in {task[t], "deleted"}]_vars

\* What a task has begun: steps that run, that were answered or skipped.
Begun == {p \in Task \X Steps :
             \/ step[p[1]][p[2]] \in {"Running", "Finished"}
             \/ p[2] \in Answered(p[1])}

Done == {p \in Task \X Steps : step[p[1]][p[2]] = "Finished"}

Stage(t) == CASE task[t] = "Finished" -> "finished"
              [] task[t] = "Failed" -> "failed"
              [] task[t] = "deleted" -> "deleted"
              [] OTHER -> "open"

Lifecycle == INSTANCE PipelineLifecycle WITH
    parent <- pipe.parent,
    stage <- [t \in Task |-> Stage(t)],
    begun <- Begun,
    done <- Done,
    void <- repeated

\* The loop, Kafka and the rows together keep what PipelineLifecycle promises:
\* a step begins after the one before it is done, a task ends once, and
\* finished only with all its steps.
StepsInOrder == Lifecycle!Spec

\* A step whose result was empty, with children that have children: these
\* are never started (step_execution), nor is a second step at the top
\* (start).  The task does not end.
Unfinishable(t) ==
    \/ \E s \in Steps : pipe.parent[s] = s /\ s # pipe.top
    \/ \E i \in DOMAIN answers :
           /\ answers[i].task = t /\ answers[i].outcome = "empty"
           /\ \E c \in Children(answers[i].step) : Children(c) # {}

\* The scheduler answers each of the steps of t it is sent.
IsAnswered(t) == []<>(\A s \in Step : <<t, s>> \notin units)

\* A task that was added ends if the scheduler answers its steps, whatever the
\* models answer and whatever becomes of the file, unless it is Unfinishable, the
\* process restarts, or a message, a token or the number of retries cannot be had.
TasksEnd ==
    \A t \in Task :
        IsAnswered(t) =>
            (task[t] = "Pending" ~>
                \/ task[t] \in {"Finished", "Failed", "deleted"}
                \/ Unfinishable(t)
                \/ faults \cap {"crash", "send", "commit", "token", "retries"} # {})

\* readme.md:22: the runner checks pending tasks in the db, so that those of a
\* process that went down should be taken up after a restart.
TasksSurviveRestart ==
    \A t \in Task :
        IsAnswered(t) =>
            (task[t] = "Pending" ~>
                \/ task[t] \in {"Finished", "Failed", "deleted"}
                \/ Unfinishable(t)
                \/ faults \cap {"send", "commit", "token", "retries"} # {})

=============================================================================
