----------------------- MODULE PipelineExecutionProofs -----------------------
(***************************************************************************)
(* Theorems about PipelineExecution, for any tasks, pipelines, answers and *)
(* faults.                                                                 *)
(***************************************************************************)
EXTENDS PipelineExecution, TLAPS, SequenceTheorems, FiniteSetTheorems

-----------------------------------------------------------------------------
(* The inductive invariant.  It says nothing of tasks one of whose steps     *)
(* was answered twice.                                                       *)

Single == Task \ repeated

StepKinds == {"launch", "execute", "process", "next"}

\* A coroutine of kind k for step s of task t is among those of q.
Has(q, k, t, s) ==
    \E i \in DOMAIN q : q[i].kind = k /\ q[i].task = t /\ q[i].step = s

HasStart(q, t) == \E i \in DOMAIN q : q[i].kind = "start" /\ q[i].task = t

HasEnd(q, t, f) ==
    \E i \in DOMAIN q : q[i].kind = "finish" /\ q[i].task = t /\ q[i].failed = f

Queued(k, t, s) == Has(loop, k, t, s)
Starting(t) == HasStart(loop, t)
Ending(t, f) == HasEnd(loop, t, f)
Asleep(t) == \E w \in sleeping : w.task = t

\* An answer that has not been committed, so that it is still to be processed.
Unread(t, s) ==
    \E i \in DOMAIN answers :
        i > committed /\ answers[i].task = t /\ answers[i].step = s

Untouched(t, s) == step[t][s] = "Pending" /\ ~Queued("launch", t, s)

AllFinished(t) == \A s \in Steps : step[t][s] = "Finished"
SomeFailed(t) == \E s \in Steps : step[t][s] = "Failed"

\* Coroutines and messages about steps of the pipeline that is executed.
KnownCoroutine == {c \in Coroutine : c.kind \in StepKinds => c.step \in Steps}
KnownMessage == {m \in Message : m.step \in Steps}

TaskStatus == Status \cup {"absent", "deleted"}
ToldStatus == Status \cup {"none", "In Progress"}

\* The types, that only steps of the pipeline are handled, and how far the consumer
\* has read.
RowsOK ==
    /\ pipe \in Pipelines
    /\ task \in [Task -> TaskStatus] /\ step \in [Task -> [Steps -> Status]]

LoopOK ==
    /\ loop \in Seq(KnownCoroutine)
    /\ sleeping \subseteq [task : Task, retry : 1 .. MaxRetries]
    /\ sends \subseteq Task \X Steps

KafkaOK ==
    /\ units \subseteq Task \X Steps /\ answers \in Seq(KnownMessage)
    /\ position \in 0 .. Len(answers) /\ committed \in 0 .. position
    /\ consumer \in {"idle", "committing", "stopped"} /\ up \in BOOLEAN
    /\ up /\ consumer = "idle" => position = committed
    /\ up /\ consumer = "committing" => position = committed + 1

OutOK ==
    /\ store \in [Task -> SUBSET Step] /\ posted \in [Task -> SUBSET (Task \X Step)]
    /\ told \in [Task \cup {Job} -> ToldStatus]
    /\ repeated \subseteq Task /\ faults \subseteq FaultKinds

TypeInv == RowsOK /\ LoopOK /\ KafkaOK /\ OutOK

\* Two coroutines that may not both be in the queue: for the same step, one of a
\* task that is still to start, or two that finish a task with all its steps.
Clash(c, d) ==
    /\ c.task = d.task /\ c.task \in Single
    /\ \/ c.kind = "start" \/ d.kind = "start"
       \/ c.kind \in StepKinds /\ d.kind \in StepKinds /\ c.step = d.step
       \/ c.kind = "finish" /\ d.kind = "finish" /\ ~c.failed /\ ~d.failed

QueuedOnce == \A i, j \in DOMAIN loop : i # j => ~Clash(loop[i], loop[j])

AnsweredOnce ==
    \A i, j \in DOMAIN answers :
        (i # j /\ answers[i].task = answers[j].task /\ answers[i].task \in Single) =>
            answers[i].step # answers[j].step

\* Nothing has been done for a task that is to start.
NothingBefore(t) ==
    /\ (Starting(t) \/ Asleep(t)) => task[t] \in {"Pending", "deleted"}
    /\ (Starting(t) \/ Asleep(t) \/ task[t] = "absent") =>
           \A s \in Steps : Untouched(t, s)
    /\ ~(Starting(t) /\ Asleep(t))
    /\ \A v, w \in sleeping : v.task = t /\ w.task = t => v = w

\* Where a step is, and what its row says of it.
StepPlaces(t, s) ==
    /\ Queued("launch", t, s) =>
           /\ step[t][s] = "Pending"
           /\ pipe.parent[s] = s \/ step[t][pipe.parent[s]] = "Finished"
    /\ (Queued("execute", t, s) \/ <<t, s>> \in sends \/ <<t, s>> \in units) =>
           /\ step[t][s] = "Running"
           /\ s \notin Answered(t)
    /\ <<t, s>> \notin sends \cap units
    /\ Queued("execute", t, s) => <<t, s>> \notin sends \cup units
    /\ Queued("process", t, s) =>
           step[t][s] = "Running" /\ s \in Answered(t) /\ ~Unread(t, s)
    /\ Unread(t, s) => step[t][s] = "Running"
    /\ s \in Answered(t) => step[t][s] # "Pending"

\* Steps after s wait for it.
ChildrenWait(t, s) ==
    /\ Queued("next", t, s) => step[t][s] = "Finished"
    /\ (Queued("next", t, s) \/ step[t][s] \in {"Pending", "Running"}) =>
           \A c \in Children(s) : Untouched(t, c)

\* How a task ends follows from its steps.
EndFollowsSteps(t) ==
    /\ Ending(t, FALSE) => AllFinished(t) /\ task[t] \notin {"Finished", "Failed"}
    /\ Ending(t, TRUE) => SomeFailed(t)
    /\ task[t] = "Finished" => AllFinished(t)
    /\ task[t] = "Failed" => AllFinished(t) \/ SomeFailed(t)

TaskInv(t) ==
    /\ NothingBefore(t) /\ EndFollowsSteps(t)
    /\ \A s \in Steps : StepPlaces(t, s) /\ ChildrenWait(t, s)

StepInv ==
    /\ QueuedOnce /\ AnsweredOnce
    /\ \A t \in Single : TaskInv(t)

\* Only a task whose steps are all done has results posted.  Where no other path in
\* object storage begins alike, these are what its steps found, and what is in the
\* storage is that too, until it is merged.
StoreInv ==
    \A t \in Single :
        /\ posted[t] # {} => AllFinished(t)
        /\ Alone(t) => /\ posted[t] # {} => posted[t] = ResultsOf(t)
                       /\ pipe.type = "inference" =>
                              \/ store[t] = WithResult(t)
                              \/ AllFinished(t) /\ store[t] = {}

\* A coroutine, a sleep or a message is about t.
Handled(t) ==
    \/ \E i \in DOMAIN loop : loop[i].task = t
    \/ Asleep(t)
    \/ \E s \in Steps : <<t, s>> \in sends \cup units
    \/ \E i \in DOMAIN answers : answers[i].task = t

\* Only tasks that were added are handled, and they are tasks of the files.
AddedInv ==
    /\ \A t \in Task : Handled(t) => task[t] # "absent"
    /\ \A t \in Task : task[t] # "absent" => t \in pipe.files
    /\ \A t \in Task : task[t] = "deleted" => "delete" \in faults

\* The job was told Failed since a task failed, and Finished since all did
\* finish.
ToldInv ==
    (pipe.type = "inference" /\ faults \cap {"webhook", "token", "delete"} = {}) =>
        /\ (\E t \in Rows : task[t] = "Failed") => told[Job] = "Failed"
        /\ (Rows # {} /\ \A t \in Rows : task[t] = "Finished") => told[Job] = "Finished"

-----------------------------------------------------------------------------
(* Coroutines and their queue *)

\* What the kinds of coroutines carry.
LEMMA CoroutineFields ==
    ASSUME NEW c \in Coroutine
    PROVE  /\ c.task \in Task
           /\ c.kind \in {"start", "finish"} \cup StepKinds
           /\ c.kind = "start" => c.retry \in 1 .. MaxRetries
           /\ c.kind \in StepKinds => c.step \in Step
           /\ c.kind \in {"launch", "execute"} => c.body \in BOOLEAN
           /\ c.kind \in {"process", "next"} => c.outcome \in AnswerKinds
           /\ c.kind = "finish" => c.failed \in BOOLEAN
BY DEF Coroutine, LaunchStep, ExecuteStep, NextSteps, FinishTask, StepKinds

\* The coroutines that are made are coroutines.
LEMMA CoroutinesMade ==
    ASSUME PipelineAssumption, NEW t \in Task
    PROVE  /\ StartTask(t) \in Coroutine
           /\ \A r \in 1 .. MaxRetries : [StartTask(t) EXCEPT !.retry = r] \in Coroutine
           /\ \A s \in Step, b \in BOOLEAN :
                  LaunchStep(t, s, b) \in Coroutine /\ ExecuteStep(t, s, b) \in Coroutine
           /\ \A s \in Step, o \in AnswerKinds :
                  /\ NextSteps(t, s, o) \in Coroutine
                  /\ ProcessMessage([task |-> t, step |-> s, outcome |-> o]) \in Coroutine
           /\ \A f \in BOOLEAN : FinishTask(t, f) \in Coroutine
<1>1. 1 \in 1 .. MaxRetries
  BY DEF PipelineAssumption
<1>2. /\ StartTask(t) \in Coroutine
      /\ \A r \in 1 .. MaxRetries : [StartTask(t) EXCEPT !.retry = r] \in Coroutine
  BY <1>1 DEF Coroutine, StartTask
<1>3. /\ \A s \in Step, b \in BOOLEAN :
             LaunchStep(t, s, b) \in Coroutine /\ ExecuteStep(t, s, b) \in Coroutine
      /\ \A s \in Step, o \in AnswerKinds : NextSteps(t, s, o) \in Coroutine
      /\ \A f \in BOOLEAN : FinishTask(t, f) \in Coroutine
  BY DEF Coroutine
<1>4. \A s \in Step, o \in AnswerKinds :
          ProcessMessage([task |-> t, step |-> s, outcome |-> o]) \in Coroutine
  BY DEF Coroutine, ProcessMessage
<1> QED
  BY <1>2, <1>3, <1>4

\* What is in a queue whose head was taken and to which new was added.
LEMMA RanElements ==
    ASSUME NEW S, loop \in Seq(S), loop # <<>>, NEW new \in Seq(S), Ran(new)
    PROVE  /\ Head(loop) = loop[1] /\ 1 \in DOMAIN loop /\ Head(loop) \in S
           /\ loop' \in Seq(S)
           /\ \A i \in DOMAIN loop' :
                  \/ i + 1 \in DOMAIN loop /\ i + 1 # 1 /\ loop'[i] = loop[i + 1]
                  \/ /\ i >= Len(loop) /\ i - Len(loop) + 1 \in DOMAIN new
                     /\ loop'[i] = new[i - Len(loop) + 1]
<1> DEFINE rest == Tail(loop)
<1>1. /\ rest \in Seq(S) /\ Len(rest) = Len(loop) - 1 /\ Len(loop) \in Nat \ {0}
      /\ \A i \in 1 .. Len(rest) : rest[i] = loop[i + 1]
      /\ Head(loop) = loop[1] /\ Head(loop) \in S /\ DOMAIN loop = 1 .. Len(loop)
  BY HeadTailProperties, LenProperties, EmptySeq
<1>2. /\ loop' \in Seq(S) /\ Len(loop') = Len(rest) + Len(new) /\ Len(new) \in Nat
      /\ \A i \in 1 .. Len(rest) + Len(new) :
             loop'[i] = IF i <= Len(rest) THEN rest[i] ELSE new[i - Len(rest)]
      /\ DOMAIN loop' = 1 .. Len(loop') /\ DOMAIN new = 1 .. Len(new)
  BY <1>1, ConcatProperties, LenProperties DEF Ran
<1> HIDE DEF rest
<1>3. ASSUME NEW i \in DOMAIN loop'
      PROVE  \/ i + 1 \in DOMAIN loop /\ i + 1 # 1 /\ loop'[i] = loop[i + 1]
             \/ /\ i >= Len(loop) /\ i - Len(loop) + 1 \in DOMAIN new
                /\ loop'[i] = new[i - Len(loop) + 1]
  <2>1. CASE i <= Len(rest)
    <3>1. i \in 1 .. Len(rest) /\ loop'[i] = rest[i]
      BY <1>1, <1>2, <2>1, SMTT(30)
    <3>2. i + 1 \in 1 .. Len(loop) /\ i + 1 # 1
      BY <1>1, <3>1
    <3> QED
      BY <1>1, <3>1, <3>2
  <2>2. CASE i > Len(rest)
    <3>1. /\ i \in Nat /\ Len(rest) \in Nat /\ i <= Len(rest) + Len(new)
          /\ Len(loop) = Len(rest) + 1
      BY <1>1, <1>2
    <3>2. i - Len(rest) = i - Len(loop) + 1 /\ i - Len(rest) \in 1 .. Len(new)
          /\ i >= Len(loop)
      BY <1>2, <2>2, <3>1
    <3> QED
      BY <1>2, <2>2, <3>1, <3>2
  <2> QED
    BY <1>1, <1>2, <2>1, <2>2
<1> QED
  BY <1>1, <1>2, <1>3

\* The same of a queue to which new was added.
LEMMA AddedElements ==
    ASSUME NEW S, loop \in Seq(S), NEW new \in Seq(S), loop' = loop \o new
    PROVE  /\ loop' \in Seq(S)
           /\ \A i \in DOMAIN loop' :
                  \/ i \in DOMAIN loop /\ loop'[i] = loop[i]
                  \/ /\ i > Len(loop) /\ i - Len(loop) \in DOMAIN new
                     /\ loop'[i] = new[i - Len(loop)]
<1>1. /\ loop' \in Seq(S) /\ Len(loop') = Len(loop) + Len(new)
      /\ Len(loop) \in Nat /\ Len(new) \in Nat
      /\ \A i \in 1 .. Len(loop) + Len(new) :
             loop'[i] = IF i <= Len(loop) THEN loop[i] ELSE new[i - Len(loop)]
      /\ DOMAIN loop' = 1 .. Len(loop') /\ DOMAIN new = 1 .. Len(new)
      /\ DOMAIN loop = 1 .. Len(loop)
  BY ConcatProperties, LenProperties
<1>2. ASSUME NEW i \in DOMAIN loop'
      PROVE  \/ i \in DOMAIN loop /\ loop'[i] = loop[i]
             \/ /\ i > Len(loop) /\ i - Len(loop) \in DOMAIN new
                /\ loop'[i] = new[i - Len(loop)]
  <2>1. CASE i <= Len(loop)
    BY <1>1, <2>1
  <2>2. CASE i > Len(loop)
    <3>1. i - Len(loop) \in 1 .. Len(new)
      BY <1>1, <2>2
    <3> QED
      BY <1>1, <2>2, <3>1
  <2> QED
    BY <1>1, <2>1, <2>2
<1> QED
  BY <1>1, <1>2

\* Which coroutines the queue has, in terms of those before and of the new ones.
QueueGrows(new) ==
    /\ \A k, t, s : Queued(k, t, s)' => Queued(k, t, s) \/ Has(new, k, t, s)
    /\ \A t : Starting(t)' => Starting(t) \/ HasStart(new, t)
    /\ \A t, f : Ending(t, f)' => Ending(t, f) \/ HasEnd(new, t, f)

\* Taking the head of the queue, and adding to it.
LEMMA RanGrows ==
    ASSUME NEW S, loop \in Seq(S), loop # <<>>, NEW new \in Seq(S), Ran(new)
    PROVE  QueueGrows(new)
<1>1. \A i \in DOMAIN loop' :
          \/ \E j \in DOMAIN loop : loop'[i] = loop[j]
          \/ \E n \in DOMAIN new : loop'[i] = new[n]
  BY RanElements
<1> QED
  BY <1>1 DEF QueueGrows, Queued, Starting, Ending, Has, HasStart, HasEnd

\* What is put at the end of the queue is all that is new in it.
LEMMA AddedGrows ==
    ASSUME NEW S, loop \in Seq(S), NEW new \in Seq(S), loop' = loop \o new
    PROVE  QueueGrows(new)
<1>1. \A i \in DOMAIN loop' :
          \/ \E j \in DOMAIN loop : loop'[i] = loop[j]
          \/ \E n \in DOMAIN new : loop'[i] = new[n]
  BY AddedElements
<1> QED
  BY <1>1 DEF QueueGrows, Queued, Starting, Ending, Has, HasStart, HasEnd

\* Nothing, and one coroutine.
LEMMA HasNone ==
    /\ \A S : <<>> \in Seq(S)
    /\ DOMAIN <<>> = {}
    /\ \A k, t, s : ~Has(<<>>, k, t, s)
    /\ \A t : ~HasStart(<<>>, t)
    /\ \A t, f : ~HasEnd(<<>>, t, f)
<1>1. (\A S : <<>> \in Seq(S)) /\ DOMAIN <<>> = {}
  BY EmptySeq
<1> QED
  BY <1>1 DEF Has, HasStart, HasEnd

\* A queue of one coroutine has just that one.
LEMMA HasOne ==
    ASSUME NEW S, NEW c \in S
    PROVE  /\ <<c>> \in Seq(S) /\ DOMAIN <<c>> = {1} /\ <<c>>[1] = c
           /\ \A k, t, s : Has(<<c>>, k, t, s) => c.kind = k /\ c.task = t /\ c.step = s
           /\ \A t : HasStart(<<c>>, t) => c.kind = "start" /\ c.task = t
           /\ \A t, f : HasEnd(<<c>>, t, f) =>
                            c.kind = "finish" /\ c.task = t /\ c.failed = f
<1>1. <<c>> \in Seq(S) /\ DOMAIN <<c>> = {1} /\ <<c>>[1] = c
  OBVIOUS
<1> QED
  BY <1>1 DEF Has, HasStart, HasEnd

\* So it is for the coroutines of the pipeline's steps.
LEMMA OneKnown ==
    \A d \in KnownCoroutine :
        /\ <<d>> \in Seq(KnownCoroutine)
        /\ \A k, t, s : Has(<<d>>, k, t, s) => d.kind = k /\ d.task = t /\ d.step = s
        /\ \A t : HasStart(<<d>>, t) => d.kind = "start" /\ d.task = t
        /\ \A t, f : HasEnd(<<d>>, t, f) =>
                         d.kind = "finish" /\ d.task = t /\ d.failed = f
BY HasOne

\* Two coroutines stand in each other's way.
LEMMA ClashSymmetric == \A c, d : Clash(c, d) => Clash(d, c)
BY DEF Clash

\* A queue stays without clashes if what is new does not clash with the rest of
\* it, nor within.
LEMMA RanOnce ==
    ASSUME NEW S, loop \in Seq(S), loop # <<>>, NEW new \in Seq(S), Ran(new),
           QueuedOnce, repeated' = repeated,
           \A i \in DOMAIN loop, n \in DOMAIN new : i # 1 => ~Clash(loop[i], new[n]),
           \A m, n \in DOMAIN new : m # n => ~Clash(new[m], new[n])
    PROVE  QueuedOnce'
<1> SUFFICES ASSUME NEW i \in DOMAIN loop', NEW j \in DOMAIN loop', i # j,
                    Clash(loop'[i], loop'[j])
             PROVE  FALSE
  BY DEF QueuedOnce, Clash, Single
<1>1. i \in Nat /\ j \in Nat /\ Len(loop) \in Nat
  BY RanElements, LenProperties
<1>2. CASE /\ i + 1 \in DOMAIN loop /\ i + 1 # 1 /\ loop'[i] = loop[i + 1]
           /\ j + 1 \in DOMAIN loop /\ j + 1 # 1 /\ loop'[j] = loop[j + 1]
  BY <1>1, <1>2 DEF QueuedOnce
<1>3. ASSUME NEW x \in DOMAIN loop', NEW y \in DOMAIN loop', Clash(loop'[x], loop'[y]),
             x + 1 \in DOMAIN loop, x + 1 # 1, loop'[x] = loop[x + 1],
             y - Len(loop) + 1 \in DOMAIN new, loop'[y] = new[y - Len(loop) + 1]
      PROVE  FALSE
  BY <1>3
<1>4. CASE /\ i - Len(loop) + 1 \in DOMAIN new /\ loop'[i] = new[i - Len(loop) + 1]
           /\ j - Len(loop) + 1 \in DOMAIN new /\ loop'[j] = new[j - Len(loop) + 1]
  <2>1. i - Len(loop) + 1 # j - Len(loop) + 1
    BY <1>1
  <2> QED
    BY <1>4, <2>1
<1> QED
  BY <1>2, <1>3, <1>4, RanElements, ClashSymmetric

\* So it does when nothing has run and something is put at its end.
LEMMA AddedOnce ==
    ASSUME NEW S, loop \in Seq(S), NEW new \in Seq(S), loop' = loop \o new,
           QueuedOnce, repeated' = repeated,
           \A i \in DOMAIN loop, n \in DOMAIN new : ~Clash(loop[i], new[n]),
           \A m, n \in DOMAIN new : m # n => ~Clash(new[m], new[n])
    PROVE  QueuedOnce'
<1> SUFFICES ASSUME NEW i \in DOMAIN loop', NEW j \in DOMAIN loop', i # j,
                    Clash(loop'[i], loop'[j])
             PROVE  FALSE
  BY DEF QueuedOnce, Clash, Single
<1>1. i \in Nat /\ j \in Nat /\ Len(loop) \in Nat
  BY AddedElements, LenProperties
<1>2. CASE /\ i \in DOMAIN loop /\ loop'[i] = loop[i]
           /\ j \in DOMAIN loop /\ loop'[j] = loop[j]
  BY <1>2 DEF QueuedOnce
<1>3. CASE /\ i - Len(loop) \in DOMAIN new /\ loop'[i] = new[i - Len(loop)]
           /\ j - Len(loop) \in DOMAIN new /\ loop'[j] = new[j - Len(loop)]
  <2>1. i - Len(loop) # j - Len(loop)
    BY <1>1
  <2> QED
    BY <1>3, <2>1
<1> QED
  BY <1>2, <1>3, AddedElements, ClashSymmetric

\* The head of the queue is the only coroutine for its step, and for its task if
\* that is to start; so the queue has another only if it is new.
LEMMA HeadAlone ==
    ASSUME NEW S, loop \in Seq(S), loop # <<>>, NEW new \in Seq(S), Ran(new),
           QueuedOnce, NEW c, c = Head(loop), c.task \in Single
    PROVE  /\ c.kind \in StepKinds =>
                  \A k \in StepKinds : Queued(k, c.task, c.step)' => Has(new, k, c.task, c.step)
           /\ c.kind = "start" =>
                  /\ \A k, s : Queued(k, c.task, s)' => Has(new, k, c.task, s)
                  /\ Starting(c.task)' => HasStart(new, c.task)
                  /\ \A f : Ending(c.task, f)' => HasEnd(new, c.task, f)
           /\ c.kind = "finish" /\ c.failed = FALSE =>
                  (Ending(c.task, FALSE)' => HasEnd(new, c.task, FALSE))
<1>1. c = loop[1] /\ 1 \in DOMAIN loop
  BY RanElements
<1>2. \A i \in DOMAIN loop : i # 1 => ~Clash(loop[1], loop[i])
  BY <1>1 DEF QueuedOnce
<1>3. \A i \in DOMAIN loop' :
          (loop'[i].task = c.task /\ ~\E n \in DOMAIN new : loop'[i] = new[n]) =>
              ~Clash(c, loop'[i])
  BY <1>1, <1>2, RanElements
<1> QED
  BY <1>3 DEF Clash, Queued, Starting, Ending, Has, HasStart, HasEnd

-----------------------------------------------------------------------------
(* Types *)

\* What the assumption says of the pipeline that is executed.
LEMMA PipeFacts ==
    ASSUME PipelineAssumption, RowsOK
    PROVE  /\ Steps \subseteq Step /\ IsFiniteSet(Steps)
           /\ pipe.top \in Steps /\ pipe.parent[pipe.top] = pipe.top
           /\ \A s \in Steps : pipe.parent[s] \in Steps
           /\ pipe.files \subseteq Task /\ IsFiniteSet(pipe.files)
           /\ pipe.type \in {"inference", "preprocessing"}
           /\ \A s : Children(s) \subseteq Steps /\ IsFiniteSet(Children(s))
           /\ Job \notin Task
<1>1. pipe \in Pipelines
  BY DEF RowsOK
<1>2. /\ Steps \subseteq Step /\ IsFiniteSet(Steps)
      /\ pipe.top \in Steps /\ pipe.parent[pipe.top] = pipe.top
      /\ pipe.parent \in [Steps -> Steps]
      /\ pipe.files \subseteq Task /\ IsFiniteSet(pipe.files)
      /\ pipe.type \in {"inference", "preprocessing"}
      /\ Job \notin Task
  BY <1>1 DEF PipelineAssumption, Steps
<1>3. \A s : Children(s) \subseteq Steps
  BY DEF Children
<1>4. \A s : IsFiniteSet(Children(s))
  BY <1>2, <1>3, FS_Subset
<1> QED
  BY <1>2, <1>3, <1>4

\* The status a job gets is one.
LEMMA JobStatusType ==
    ASSUME NEW tt, NEW status
    PROVE  JobStatusIfChanged(tt, status) \in ToldStatus
BY DEF JobStatusIfChanged, ToldStatus, Status

\* What a webhook leaves behind.
LEMMA SendStatusType ==
    ASSUME OutOK, NEW tt, NEW t \in Task, NEW status \in Status,
           NEW lost, SendStatus(tt, t, status, lost)
    PROVE  told' \in [Task \cup {Job} -> ToldStatus]
<1>1. told \in [Task \cup {Job} -> ToldStatus]
  BY DEF OutOK
<1>2. StatusToTell(tt, t, status) \in [Task \cup {Job} -> ToldStatus]
  BY <1>1, JobStatusType DEF StatusToTell, ToldStatus
<1> QED
  BY <1>1, <1>2 DEF SendStatus

\* Faults that happen are added to those that did.
LEMMA HappenType ==
    ASSUME PipelineAssumption, OutOK, NEW f, Happen(f)
    PROVE  faults' \subseteq FaultKinds /\ faults \subseteq faults' /\ f \subseteq faults'
BY DEF Happen, OutOK, PipelineAssumption

\* change_status of a task writes its row, if it is there, and no other.
LEMMA ChangeStatusType ==
    ASSUME RowsOK, NEW t \in Task, NEW status \in Status
    PROVE  /\ ChangeStatus(t, status) \in [Task -> TaskStatus]
           /\ \A u \in Task \ {t} : ChangeStatus(t, status)[u] = task[u]
           /\ t \in Rows => ChangeStatus(t, status)[t] = status
           /\ t \notin Rows => ChangeStatus(t, status)[t] = task[t]
BY DEF ChangeStatus, RowsOK, TaskStatus

\* What the end of a task may change.
LEMMA FinishTypes ==
    ASSUME PipelineAssumption, RowsOK, OutOK, NEW t \in Task, NEW failed \in BOOLEAN,
           Finish(t, failed)
    PROVE  /\ task' \in [Task -> TaskStatus]
           /\ \A u \in Task \ {t} : task'[u] = task[u]
           /\ \/ task'[t] = task[t]
              \/ t \in Rows /\ task'[t] = "Failed"
              \/ t \in Rows /\ task'[t] = "Finished" /\ ~failed
           /\ posted' \in [Task -> SUBSET (Task \X Step)] /\ store' \in [Task -> SUBSET Step]
           /\ told' \in [Task \cup {Job} -> ToldStatus]
           /\ faults' \subseteq FaultKinds
<1> PICK f \in SUBSET {"merge", "webhook", "token"} :
        /\ Happen(f)
        /\ IF "token" \in f THEN UNCHANGED <<task, outVars>>
           ELSE LET merges == ~failed /\ pipe.type = "inference"
                    managed == Listed(t) # {} /\ "merge" \notin f
                    status == IF failed \/ (merges /\ ~managed)
                              THEN "Failed" ELSE "Finished"
                IN  /\ IF merges THEN ManageResult(t, managed)
                       ELSE UNCHANGED <<store, posted>>
                    /\ task' = ChangeStatus(t, status)
                    /\ SendStatus(task', t, status, "webhook" \in f)
  BY DEF Finish
<1>1. faults' \subseteq FaultKinds
  BY HappenType
<1>2. CASE "token" \in f
  BY <1>1, <1>2 DEF outVars, RowsOK, OutOK
<1>3. CASE "token" \notin f
  <2> DEFINE merges == ~failed /\ pipe.type = "inference"
             managed == Listed(t) # {} /\ "merge" \notin f
             status == IF failed \/ (merges /\ ~managed) THEN "Failed" ELSE "Finished"
  <2>1. /\ IF merges THEN ManageResult(t, managed) ELSE UNCHANGED <<store, posted>>
        /\ task' = ChangeStatus(t, status)
        /\ SendStatus(task', t, status, "webhook" \in f)
    BY <1>3
  <2>2. status \in Status /\ (status = "Finished" => ~failed) /\ status \in {"Failed", "Finished"}
    BY DEF Status
  <2>3. posted' \in [Task -> SUBSET (Task \X Step)] /\ store' \in [Task -> SUBSET Step]
    <3>1. ManageResult(t, managed) \/ UNCHANGED <<store, posted>>
      BY <2>1
    <3>2. Listed(t) \in SUBSET (Task \X Step)
      BY DEF Listed
    <3>3. \/ UNCHANGED posted
          \/ posted' = [posted EXCEPT ![t] = Listed(t)]
      BY <3>1 DEF ManageResult
    <3>4. \/ UNCHANGED store
          \/ store' = [n \in Task |-> IF n \in Under(t) THEN {} ELSE store[n]]
      BY <3>1 DEF ManageResult
    <3> QED
      BY <3>2, <3>3, <3>4 DEF OutOK
  <2> HIDE DEF merges, managed, status
  <2>4. told' \in [Task \cup {Job} -> ToldStatus]
    BY <2>1, <2>2, SendStatusType, Zenon
  <2> QED
    BY <1>1, <2>1, <2>2, <2>3, <2>4, ChangeStatusType
<1> QED
  BY <1>2, <1>3

\* A row of a step that is set.
LEMMA UpdateStepType ==
    ASSUME RowsOK, NEW t \in Task, NEW s \in Steps, NEW status \in Status,
           UpdateStep(t, s, status)
    PROVE  /\ step' \in [Task -> [Steps -> Status]]
           /\ \A u \in Task \ {t} : step'[u] = step[u]
           /\ \A r \in Steps \ {s} : step'[t][r] = step[t][r]
           /\ t \in Rows => step'[t][s] = status
           /\ t \notin Rows => step'[t][s] = step[t][s]
BY DEF UpdateStep, RowsOK

\* A file that cannot be used fails all steps of its task, and of no other.
LEMMA FileUnusableTypes ==
    ASSUME RowsOK, NEW t \in Task, FileUnusable(t)
    PROVE  /\ step' \in [Task -> [Steps -> Status]]
           /\ \A u \in Task \ {t} : step'[u] = step[u]
           /\ t \in Rows => \A s \in Steps : step'[t][s] = "Failed"
           /\ t \notin Rows => step'[t] = step[t]
BY DEF FileUnusable, RowsOK, Status

\* The types the specification states follow.
LEMMA TypesFollow == PipelineAssumption /\ TypeInv => TypeOK
<1> SUFFICES ASSUME PipelineAssumption, TypeInv PROVE TypeOK
  OBVIOUS
<1>1. KnownCoroutine \subseteq Coroutine /\ KnownMessage \subseteq Message
  BY DEF KnownCoroutine, KnownMessage
<1>2. loop \in Seq(Coroutine) /\ answers \in Seq(Message)
  BY <1>1, SeqMonotonic DEF TypeInv, LoopOK, KafkaOK
<1>3. Steps \subseteq Step
  BY PipeFacts DEF TypeInv
<1> QED
  BY <1>2, <1>3 DEF TypeInv, TypeOK, RowsOK, LoopOK, KafkaOK, OutOK, TaskStatus, ToldStatus

\* The pipeline stays, and with it what is known.
LEMMA KnownStays ==
    ASSUME pipe' = pipe
    PROVE  /\ KnownCoroutine' = KnownCoroutine /\ KnownMessage' = KnownMessage
           /\ Steps' = Steps
BY DEF KnownCoroutine, KnownMessage, Steps

\* The coroutines that are made for known steps are known.
LEMMA KnownMade ==
    ASSUME PipelineAssumption, RowsOK, NEW t \in Task
    PROVE  /\ StartTask(t) \in KnownCoroutine
           /\ \A r \in 1 .. MaxRetries : [StartTask(t) EXCEPT !.retry = r] \in KnownCoroutine
           /\ \A s \in Steps, b \in BOOLEAN :
                  LaunchStep(t, s, b) \in KnownCoroutine /\ ExecuteStep(t, s, b) \in KnownCoroutine
           /\ \A s \in Steps, o \in AnswerKinds :
                  /\ NextSteps(t, s, o) \in KnownCoroutine
                  /\ ProcessMessage([task |-> t, step |-> s, outcome |-> o]) \in KnownCoroutine
           /\ \A f \in BOOLEAN : FinishTask(t, f) \in KnownCoroutine
<1>1. Steps \subseteq Step
  BY PipeFacts
<1>2. /\ StartTask(t).kind = "start"
      /\ \A r \in 1 .. MaxRetries : [StartTask(t) EXCEPT !.retry = r].kind = "start"
      /\ \A f \in BOOLEAN : FinishTask(t, f).kind = "finish"
  BY DEF StartTask, FinishTask
<1>3. /\ \A s \in Steps, b \in BOOLEAN :
             LaunchStep(t, s, b).step = s /\ ExecuteStep(t, s, b).step = s
      /\ \A s \in Steps, o \in AnswerKinds :
             /\ NextSteps(t, s, o).step = s
             /\ ProcessMessage([task |-> t, step |-> s, outcome |-> o]).step = s
  BY DEF LaunchStep, ExecuteStep, NextSteps, ProcessMessage
<1>4. ASSUME NEW c \in Coroutine, c.kind \in {"start", "finish"} PROVE c \in KnownCoroutine
  BY <1>4 DEF KnownCoroutine, StepKinds
<1>5. ASSUME NEW c \in Coroutine, c.step \in Steps PROVE c \in KnownCoroutine
  BY <1>5 DEF KnownCoroutine
<1>6. /\ StartTask(t) \in KnownCoroutine
      /\ \A r \in 1 .. MaxRetries : [StartTask(t) EXCEPT !.retry = r] \in KnownCoroutine
      /\ \A f \in BOOLEAN : FinishTask(t, f) \in KnownCoroutine
  BY <1>2, <1>4, CoroutinesMade
<1>7. /\ \A s \in Steps, b \in BOOLEAN :
             LaunchStep(t, s, b) \in KnownCoroutine /\ ExecuteStep(t, s, b) \in KnownCoroutine
      /\ \A s \in Steps, o \in AnswerKinds :
             /\ NextSteps(t, s, o) \in KnownCoroutine
             /\ ProcessMessage([task |-> t, step |-> s, outcome |-> o]) \in KnownCoroutine
  BY <1>1, <1>3, <1>5, CoroutinesMade
<1> QED
  BY <1>6, <1>7

\* What the head of the queue is.
LEMMA HeadKnown ==
    ASSUME LoopOK, loop # <<>>, NEW c, c = Head(loop)
    PROVE  /\ c \in KnownCoroutine /\ c \in Coroutine /\ c.task \in Task
           /\ c.kind \in {"start", "finish"} \cup StepKinds
           /\ c.kind = "start" => c.retry \in 1 .. MaxRetries
           /\ c.kind \in StepKinds => c.step \in Steps
           /\ c.kind \in {"launch", "execute"} => c.body \in BOOLEAN
           /\ c.kind \in {"process", "next"} => c.outcome \in AnswerKinds
           /\ c.kind = "finish" => c.failed \in BOOLEAN
<1>1. c \in KnownCoroutine
  BY HeadTailProperties DEF LoopOK
<1> QED
  BY <1>1, CoroutineFields DEF KnownCoroutine

\* Initial states have the types.
LEMMA TypeInit == ASSUME PipelineAssumption, Init PROVE TypeInv
<1>1. loop \in Seq(KnownCoroutine) /\ answers \in Seq(KnownMessage) /\ Len(answers) = 0
  BY EmptySeq DEF Init
<1>2. RowsOK
  BY DEF Init, RowsOK, TaskStatus, Status
<1>3. LoopOK /\ KafkaOK
  BY <1>1 DEF Init, LoopOK, KafkaOK
<1>4. OutOK
  BY DEF Init, OutOK, ToldStatus
<1> QED
  BY <1>2, <1>3, <1>4 DEF TypeInv

\* Requests keep them.
LEMMA TypeRequests ==
    ASSUME PipelineAssumption, TypeInv,
           (\E ts \in SUBSET Task : Execute(ts)) \/ (\E t \in Task : DeleteTask(t))
    PROVE  TypeInv'
<1>1. ASSUME NEW ts \in SUBSET Task, Execute(ts) PROVE TypeInv'
  <2>1. PICK q \in Ascending(ts) : loop' = loop \o [i \in DOMAIN q |-> StartTask(q[i])]
    BY <1>1 DEF Execute, InitializeExecution
  <2> DEFINE new == [i \in DOMAIN q |-> StartTask(q[i])]
  <2>2. ts \subseteq pipe.files /\ IsFiniteSet(ts)
    BY <1>1, PipeFacts, FS_Subset DEF Execute, TypeInv
  <2>3. Cardinality(ts) \in Nat /\ q \in [1 .. Cardinality(ts) -> ts]
    BY <2>2, FS_CardinalityType DEF Ascending
  <2>4. new \in Seq(KnownCoroutine)
    BY <2>3, KnownMade, IsASeq DEF TypeInv
  <2> HIDE DEF new
  <2>5. loop' \in Seq(KnownCoroutine)
    BY <2>1, <2>4, AddedElements DEF TypeInv, LoopOK, new
  <2>6. LoopOK'
    BY <1>1, <2>5, KnownStays DEF Execute, TypeInv, LoopOK
  <2>7. RowsOK'
    BY <1>1, KnownStays DEF Execute, InitializeExecution, TypeInv, RowsOK, TaskStatus, Status
  <2>8. KafkaOK' /\ OutOK'
    BY <1>1, KnownStays DEF Execute, TypeInv, KafkaOK, OutOK, kafkaVars, outVars
  <2> QED
    BY <2>6, <2>7, <2>8 DEF TypeInv
<1>2. ASSUME NEW t \in Task, DeleteTask(t) PROVE TypeInv'
  <2>1. RowsOK'
    BY <1>2, KnownStays DEF DeleteTask, TypeInv, RowsOK, TaskStatus
  <2>2. faults' \subseteq FaultKinds
    BY <1>2, HappenType DEF DeleteTask, Fault, TypeInv
  <2>3. LoopOK' /\ KafkaOK'
    BY <1>2, KnownStays DEF DeleteTask, TypeInv, LoopOK, KafkaOK, kafkaVars
  <2> QED
    BY <1>2, <2>1, <2>2, <2>3 DEF DeleteTask, TypeInv, OutOK, outVars
<1> QED
  BY <1>1, <1>2

\* What Ran leaves of the queue has the types if what is new does.
LEMMA TypeRan ==
    ASSUME LoopOK, loop # <<>>, NEW new \in Seq(KnownCoroutine), Ran(new), pipe' = pipe
    PROVE  loop' \in Seq(KnownCoroutine)'
BY RanElements, KnownStays DEF LoopOK

\* The start of a task, and the end of a sleep, keep the types.
LEMMA TypeStart ==
    ASSUME PipelineAssumption, TypeInv, Start
    PROVE  TypeInv'
<1> DEFINE c == Head(loop)
           t == c.task
           w == [task |-> t, retry |-> c.retry]
<1>1. /\ loop # <<>> /\ c.kind = "start" /\ pipe' = pipe
      /\ UNCHANGED <<sends, kafkaVars, up, repeated>>
  BY DEF Start, Head1
<1>2. t \in Task /\ w \in [task : Task, retry : 1 .. MaxRetries]
  BY <1>1, HeadKnown DEF TypeInv
<1> HIDE DEF t, w
<1>3. \/ Started(t)
      \/ sleeping' = sleeping \cup {w} /\ Ran(<<>>) /\ UNCHANGED <<rowVars, outVars, faults>>
      \/ FileUnusable(t) /\ Ran(<<>>) /\ UNCHANGED sleeping
  BY DEF Start, t, w
<1>4. KafkaOK'
  BY <1>1, KnownStays DEF TypeInv, KafkaOK, kafkaVars
<1>5. CASE Started(t)
  <2>1. PICK f \in SUBSET {"webhook", "token"} :
            /\ Happen(f)
            /\ task' = ChangeStatus(t, "Running")
            /\ SendStatus(task', t, "Running", f # {})
            /\ Ran(IF "token" \in f THEN <<>> ELSE <<LaunchStep(t, pipe.top, TRUE)>>)
            /\ UNCHANGED <<step, sleeping, store, posted>>
    BY <1>5 DEF Started
  <2> DEFINE new == IF "token" \in f THEN <<>> ELSE <<LaunchStep(t, pipe.top, TRUE)>>
  <2>2. pipe.top \in Steps
    BY PipeFacts DEF TypeInv
  <2>3. LaunchStep(t, pipe.top, TRUE) \in KnownCoroutine
    BY <1>2, <2>2, KnownMade DEF TypeInv
  <2>4. new \in Seq(KnownCoroutine)
    BY <2>3, HasNone, HasOne
  <2> HIDE DEF new
  <2>5. loop' \in Seq(KnownCoroutine)'
    BY <1>1, <2>1, <2>4, TypeRan DEF TypeInv, new
  <2>6. LoopOK'
    BY <1>1, <2>1, <2>5, KnownStays DEF TypeInv, LoopOK
  <2>7. RowsOK'
    BY <1>1, <1>2, <2>1, ChangeStatusType, KnownStays DEF TypeInv, RowsOK, Status
  <2>8. OutOK'
    <3>1. told' \in [Task \cup {Job} -> ToldStatus]
      BY <1>2, <2>1, SendStatusType DEF TypeInv, Status
    <3>2. faults' \subseteq FaultKinds
      BY <2>1, HappenType DEF TypeInv
    <3> QED
      BY <1>1, <2>1, <3>1, <3>2 DEF TypeInv, OutOK
  <2> QED
    BY <1>4, <2>6, <2>7, <2>8 DEF TypeInv
<1>6. CASE sleeping' = sleeping \cup {w} /\ Ran(<<>>) /\ UNCHANGED <<rowVars, outVars, faults>>
  <2>1. loop' \in Seq(KnownCoroutine)'
    BY <1>1, <1>6, HasNone, TypeRan DEF TypeInv
  <2>2. LoopOK'
    BY <1>1, <1>2, <1>6, <2>1, KnownStays DEF TypeInv, LoopOK
  <2>3. RowsOK' /\ OutOK'
    BY <1>1, <1>6, KnownStays DEF TypeInv, RowsOK, OutOK, rowVars, outVars
  <2> QED
    BY <1>4, <2>2, <2>3 DEF TypeInv
<1>7. CASE FileUnusable(t) /\ Ran(<<>>) /\ UNCHANGED sleeping
  <2>1. loop' \in Seq(KnownCoroutine)'
    BY <1>1, <1>7, HasNone, TypeRan DEF TypeInv
  <2>2. LoopOK'
    BY <1>1, <1>7, <2>1, KnownStays DEF TypeInv, LoopOK
  <2>3. Finish(t, TRUE)
    BY <1>7 DEF FileUnusable
  <2>4. RowsOK'
    BY <1>1, <1>2, <1>7, <2>3, FinishTypes, FileUnusableTypes, KnownStays DEF TypeInv, RowsOK
  <2>5. OutOK'
    BY <1>1, <1>2, <2>3, FinishTypes DEF TypeInv, OutOK
  <2> QED
    BY <1>4, <2>2, <2>4, <2>5 DEF TypeInv
<1> QED
  BY <1>3, <1>5, <1>6, <1>7

\* The last look at the file is not known to be the last: the coroutine ends.
GivesUp == Fault("retries") /\ UNCHANGED <<rowVars, outVars>>

\* Start after a sleep, or one more sleep.
LEMMA TypeWake ==
    ASSUME PipelineAssumption, TypeInv, NEW w \in sleeping, Wake(w)
    PROVE  TypeInv'
<1>1. w.task \in Task /\ w.retry \in 1 .. MaxRetries
  BY DEF TypeInv, LoopOK
<1>2. /\ sleeping' = sleeping \ {w} /\ pipe' = pipe
      /\ UNCHANGED <<sends, kafkaVars, up, repeated>>
  BY DEF Wake
<1>3. KafkaOK'
  BY <1>2, KnownStays DEF TypeInv, KafkaOK, kafkaVars
<1>4. CASE w.retry < MaxRetries
  <2> DEFINE c == [StartTask(w.task) EXCEPT !.retry = w.retry + 1]
  <2>1. loop' = Append(loop, c) /\ UNCHANGED <<rowVars, outVars, faults>>
    BY <1>4 DEF Wake
  <2>2. w.retry + 1 \in 1 .. MaxRetries
    BY <1>1, <1>4 DEF PipelineAssumption
  <2>3. c \in KnownCoroutine
    BY <1>1, <2>2, KnownMade DEF TypeInv
  <2> HIDE DEF c
  <2>4. loop' \in Seq(KnownCoroutine)'
    BY <1>2, <2>1, <2>3, AppendProperties, KnownStays DEF TypeInv, LoopOK
  <2>5. LoopOK'
    BY <1>2, <2>4, KnownStays DEF TypeInv, LoopOK
  <2>6. RowsOK' /\ OutOK'
    BY <1>2, <2>1, KnownStays DEF TypeInv, RowsOK, OutOK, rowVars, outVars
  <2> QED
    BY <1>3, <2>5, <2>6 DEF TypeInv
<1>5. CASE ~(w.retry < MaxRetries)
  <2>1. UNCHANGED loop /\ (FileUnusable(w.task) \/ GivesUp)
    BY <1>5 DEF Wake, GivesUp
  <2>2. LoopOK'
    BY <1>2, <2>1, KnownStays DEF TypeInv, LoopOK
  <2>3. CASE FileUnusable(w.task)
    <3>1. Finish(w.task, TRUE)
      BY <2>3 DEF FileUnusable
    <3>2. RowsOK'
      BY <1>1, <1>2, <2>3, <3>1, FinishTypes, FileUnusableTypes, KnownStays DEF TypeInv, RowsOK
    <3>3. OutOK'
      BY <1>1, <1>2, <3>1, FinishTypes DEF TypeInv, OutOK
    <3> QED
      BY <1>3, <2>2, <3>2, <3>3 DEF TypeInv
  <2>4. CASE GivesUp
    <3>1. UNCHANGED <<rowVars, outVars>> /\ faults' \subseteq FaultKinds
      BY <2>4, HappenType DEF GivesUp, Fault, TypeInv
    <3> QED
      BY <1>2, <1>3, <2>2, <3>1, KnownStays DEF TypeInv, RowsOK, OutOK, rowVars, outVars
  <2> QED
    BY <2>1, <2>3, <2>4
<1> QED
  BY <1>4, <1>5

\* So do the coroutines of a step.
LEMMA TypeSteps ==
    ASSUME PipelineAssumption, TypeInv, Launch \/ ExecuteSend \/ ExecuteSkip \/ Process \/ Next1
    PROVE  TypeInv'
<1> DEFINE c == Head(loop)
           t == c.task
           s == c.step
<1>1. /\ loop # <<>> /\ c.kind \in StepKinds /\ pipe' = pipe
      /\ UNCHANGED <<sleeping, kafkaVars, up, repeated>>
  BY DEF Launch, ExecuteSend, ExecuteSkip, Process, Next1, Head1, StepKinds
<1>2. /\ t \in Task /\ s \in Steps
      /\ c.kind \in {"launch", "execute"} => c.body \in BOOLEAN
      /\ c.kind \in {"process", "next"} => c.outcome \in AnswerKinds
  BY <1>1, HeadKnown DEF TypeInv
<1>3. KafkaOK'
  BY <1>1, KnownStays DEF TypeInv, KafkaOK, kafkaVars
<1>4. ASSUME NEW new \in Seq(KnownCoroutine), Ran(new), sends' \subseteq sends \cup {<<t, s>>}
      PROVE  LoopOK'
  <2>1. loop' \in Seq(KnownCoroutine)'
    BY <1>1, <1>4, TypeRan DEF TypeInv
  <2> QED
    BY <1>1, <1>2, <1>4, <2>1, KnownStays DEF TypeInv, LoopOK
<1>5. ASSUME UNCHANGED step \/ \E x \in Status : UpdateStep(t, s, x),
             UNCHANGED <<task, outVars, faults>> \/ Finish(t, FALSE)
      PROVE  RowsOK' /\ OutOK'
  <2>1. step' \in [Task -> [Steps -> Status]]
    BY <1>2, <1>5, UpdateStepType DEF TypeInv, RowsOK
  <2>2. CASE UNCHANGED <<task, outVars, faults>>
    BY <1>1, <2>1, <2>2, KnownStays DEF TypeInv, RowsOK, OutOK, outVars
  <2>3. CASE Finish(t, FALSE)
    BY <1>1, <1>2, <2>1, <2>3, FinishTypes, KnownStays DEF TypeInv, RowsOK, OutOK
  <2> QED
    BY <1>5, <2>2, <2>3
<1>6. "Running" \in Status /\ "Finished" \in Status /\ "Failed" \in Status
  BY DEF Status
<1>7. CASE Launch
  <2>1. ExecuteStep(t, s, c.body) \in KnownCoroutine
    BY <1>2, <1>7, KnownMade DEF Launch, Head1, TypeInv
  <2>2. \E new \in Seq(KnownCoroutine) : Ran(new)
    BY <1>7, <2>1, HasNone, HasOne DEF Launch
  <2> QED
    BY <1>3, <1>4, <1>5, <1>6, <1>7, <2>2 DEF Launch, TypeInv
<1>8. CASE ExecuteSend
  BY <1>3, <1>4, <1>5, <1>8, HasNone DEF ExecuteSend, TypeInv, rowVars
<1>9. CASE ExecuteSkip
  BY <1>3, <1>4, <1>5, <1>6, <1>9, HasNone DEF ExecuteSkip, TypeInv
<1>10. CASE Process
  <2> DEFINE d == IF c.outcome = "error" THEN FinishTask(t, TRUE)
                  ELSE IF IsCompleted(step', t) THEN FinishTask(t, FALSE)
                  ELSE NextSteps(t, s, c.outcome)
  <2>1. d \in KnownCoroutine
    BY <1>2, <1>10, KnownMade DEF Process, Head1, TypeInv
  <2>2. Ran(<<>>) \/ Ran(<<d>>)
    BY <1>10 DEF Process
  <2> HIDE DEF d
  <2>3. \E new \in Seq(KnownCoroutine) : Ran(new)
    BY <2>1, <2>2, HasNone, HasOne
  <2>4. StepStatus(c.outcome) \in Status
    BY DEF StepStatus, Status
  <2>5. UNCHANGED step \/ UpdateStep(t, s, StepStatus(c.outcome))
    BY <1>10 DEF Process
  <2> QED
    BY <1>3, <1>4, <1>5, <1>10, <2>3, <2>4, <2>5 DEF Process, TypeInv
<1>11. CASE Next1
  <2>1. \E new \in Seq(KnownCoroutine) : Ran(new)
    <3>1. CASE Ran(<<>>)
      BY <3>1, HasNone
    <3>2. CASE ~Ran(<<>>)
      <4>1. PICK q \in [1 .. Cardinality(Children(s)) -> Children(s)] :
                Ran([i \in DOMAIN q |-> LaunchStep(t, q[i], c.outcome = "result")])
        BY <1>11, <3>2 DEF Next1
      <4>2. Cardinality(Children(s)) \in Nat /\ Children(s) \subseteq Steps
        BY PipeFacts, FS_CardinalityType DEF TypeInv
      <4>3. \A i \in 1 .. Cardinality(Children(s)) :
                LaunchStep(t, q[i], c.outcome = "result") \in KnownCoroutine
        BY <1>2, <4>1, <4>2, KnownMade DEF TypeInv
      <4>4. [i \in 1 .. Cardinality(Children(s)) |-> LaunchStep(t, q[i], c.outcome = "result")]
                \in Seq(KnownCoroutine)
        BY <4>2, <4>3, IsASeq
      <4> QED
        BY <4>1, <4>4
    <3> QED
      BY <3>1, <3>2
  <2> QED
    BY <1>3, <1>4, <1>5, <1>11, <2>1 DEF Next1, TypeInv, rowVars
<1> QED
  BY <1>7, <1>8, <1>9, <1>10, <1>11

\* The coroutine of finish.
LEMMA TypeRunFinish ==
    ASSUME PipelineAssumption, TypeInv, RunFinish
    PROVE  TypeInv'
<1> DEFINE c == Head(loop)
<1>1. /\ loop # <<>> /\ c.kind = "finish" /\ pipe' = pipe /\ Finish(c.task, c.failed)
      /\ Ran(<<>>) /\ UNCHANGED <<step, sleeping, sends, kafkaVars, up, repeated>>
  BY DEF RunFinish, Head1
<1>2. c.task \in Task /\ c.failed \in BOOLEAN
  BY <1>1, HeadKnown DEF TypeInv
<1> HIDE DEF c
<1>3. loop' \in Seq(KnownCoroutine)'
  BY <1>1, HasNone, TypeRan DEF TypeInv
<1>4. LoopOK' /\ KafkaOK'
  BY <1>1, <1>3, KnownStays DEF TypeInv, LoopOK, KafkaOK, kafkaVars
<1>5. RowsOK' /\ OutOK'
  BY <1>1, <1>2, FinishTypes, KnownStays DEF TypeInv, RowsOK, OutOK
<1> QED
  BY <1>4, <1>5 DEF TypeInv

\* What the scheduler sends keeps the types.
LEMMA MessageKnown ==
    ASSUME PipelineAssumption, TypeInv, NEW t \in Task, NEW s \in Steps, NEW o \in AnswerKinds,
           answers' = Append(answers, [task |-> t, step |-> s, outcome |-> o]), pipe' = pipe
    PROVE  /\ answers' \in Seq(KnownMessage)' /\ Len(answers') = Len(answers) + 1
           /\ Len(answers) \in Nat
           /\ [task |-> t, step |-> s, outcome |-> o] \in KnownMessage
<1>1. [task |-> t, step |-> s, outcome |-> o] \in KnownMessage
  BY PipeFacts DEF TypeInv, KnownMessage, Message
<1> QED
  BY <1>1, AppendProperties, LenProperties, KnownStays DEF TypeInv, KafkaOK

\* Units on their way to the scheduler and back.
LEMMA TypeScheduler ==
    ASSUME PipelineAssumption, TypeInv,
           \/ \E u \in sends : Sent(u)
           \/ \E u \in units, o \in Outcomes : Answer(u, o)
           \/ \E i \in DOMAIN answers, o \in Outcomes, again \in BOOLEAN :
                  AnswerAgain(i, o, again)
    PROVE  TypeInv'
<1>1. Outcomes \subseteq AnswerKinds /\ Steps \subseteq Step
  BY PipeFacts DEF PipelineAssumption, TypeInv
<1>2. ASSUME NEW u \in sends, Sent(u) PROVE TypeInv'
  <2>1. faults' \subseteq FaultKinds
    BY <1>2, HappenType DEF Sent, Fault, TypeInv, OutOK
  <2>2. RowsOK' /\ OutOK'
    BY <1>2, <2>1, KnownStays DEF Sent, TypeInv, RowsOK, OutOK, rowVars, outVars
  <2>3. LoopOK' /\ KafkaOK'
    BY <1>2, KnownStays DEF Sent, TypeInv, LoopOK, KafkaOK
  <2> QED
    BY <2>2, <2>3 DEF TypeInv
<1>3. ASSUME NEW u \in units, NEW o \in Outcomes, Answer(u, o) PROVE TypeInv'
  <2>1. u[1] \in Task /\ u[2] \in Steps /\ pipe' = pipe
    BY <1>3 DEF Answer, TypeInv, KafkaOK
  <2>2. answers' \in Seq(KnownMessage)' /\ Len(answers') = Len(answers) + 1 /\ Len(answers) \in Nat
    BY <1>1, <1>3, <2>1, MessageKnown DEF Answer
  <2>3. KafkaOK'
    BY <1>3, <2>2, KnownStays DEF Answer, TypeInv, KafkaOK
  <2>4. RowsOK' /\ LoopOK'
    BY <1>3, KnownStays DEF Answer, TypeInv, RowsOK, LoopOK, rowVars
  <2>5. OutOK'
    BY <1>1, <1>3, <2>1 DEF Answer, TypeInv, OutOK
  <2> QED
    BY <2>3, <2>4, <2>5 DEF TypeInv
<1>4. ASSUME NEW i \in DOMAIN answers, NEW o \in Outcomes, NEW again \in BOOLEAN,
             AnswerAgain(i, o, again)
      PROVE  TypeInv'
  <2> DEFINE t == answers[i].task
             s == answers[i].step
  <2>1. answers[i] \in KnownMessage
    BY ElementOfSeq, LenProperties DEF TypeInv, KafkaOK
  <2>2. t \in Task /\ s \in Steps /\ pipe' = pipe
    BY <1>4, <2>1 DEF AnswerAgain, KnownMessage, Message
  <2>3. [answers[i] EXCEPT !.outcome = o] = [task |-> t, step |-> s, outcome |-> o]
    BY <2>1 DEF KnownMessage, Message
  <2>4. answers' = Append(answers, [task |-> t, step |-> s, outcome |-> o])
    BY <1>4, <2>3 DEF AnswerAgain
  <2>5. answers' \in Seq(KnownMessage)' /\ Len(answers') = Len(answers) + 1 /\ Len(answers) \in Nat
    BY <1>1, <2>2, <2>4, MessageKnown
  <2>6. KafkaOK'
    BY <1>4, <2>5, KnownStays DEF AnswerAgain, TypeInv, KafkaOK
  <2>7. RowsOK' /\ LoopOK'
    BY <1>4, KnownStays DEF AnswerAgain, TypeInv, RowsOK, LoopOK, rowVars
  <2>8. faults' \subseteq FaultKinds
    BY <1>4, HappenType DEF AnswerAgain, Fault, TypeInv
  <2>9. store' = store \/ store' = [store EXCEPT ![t] = @ \cup {s}]
    BY <1>4 DEF AnswerAgain
  <2>10. repeated' = repeated \cup {t} /\ posted' = posted /\ told' = told
    BY <1>4 DEF AnswerAgain
  <2> HIDE DEF t, s
  <2>11. OutOK'
    BY <1>1, <2>2, <2>8, <2>9, <2>10 DEF TypeInv, OutOK
  <2> QED
    BY <2>6, <2>7, <2>11 DEF TypeInv
<1> QED
  BY <1>2, <1>3, <1>4

\* So do the consumer, and the process that ends and is started again.
LEMMA TypeProcess ==
    ASSUME PipelineAssumption, TypeInv, Receive \/ Commit \/ CommitFails \/ Crash \/ Restart
    PROVE  TypeInv'
<1>1. /\ UNCHANGED <<pipe, rowVars, outVars, repeated>>
      /\ RowsOK'
  BY KnownStays DEF Receive, Commit, CommitFails, Crash, Restart, TypeInv, RowsOK, rowVars, outVars
<1>2. OutOK'
  <2>1. faults' \subseteq FaultKinds
    BY HappenType DEF Receive, Commit, CommitFails, Crash, Restart, Fault, TypeInv, OutOK
  <2> QED
    BY <1>1, <2>1 DEF TypeInv, OutOK, outVars
<1>3. Len(answers) \in Nat /\ position \in Nat /\ committed \in Nat
  BY LenProperties DEF TypeInv, KafkaOK
<1>4. CASE Receive
  BY <1>1, <1>2, <1>3, <1>4, KnownStays DEF Receive, TypeInv, LoopOK, KafkaOK
<1>5. CASE Commit
  <2> DEFINE m == answers[position]
  <2>1. position \in 1 .. Len(answers)
    BY <1>3, <1>5 DEF Commit, TypeInv, KafkaOK
  <2>2. m \in KnownMessage
    BY <2>1, ElementOfSeq DEF TypeInv, KafkaOK
  <2>3. m.task \in Task /\ m.step \in Steps /\ m.outcome \in AnswerKinds
    BY <2>2 DEF KnownMessage, Message
  <2>4. ProcessMessage([task |-> m.task, step |-> m.step, outcome |-> m.outcome])
            = ProcessMessage(m)
    BY DEF ProcessMessage
  <2>5. ProcessMessage(m) \in KnownCoroutine
    BY <2>3, <2>4, KnownMade DEF TypeInv
  <2>6. loop' \in Seq(KnownCoroutine)
    BY <1>5, <2>5, AppendProperties DEF Commit, TypeInv, LoopOK
  <2>7. LoopOK'
    BY <1>1, <1>5, <2>6, KnownStays DEF Commit, TypeInv, LoopOK
  <2>8. KafkaOK'
    BY <1>1, <1>3, <1>5, KnownStays DEF Commit, TypeInv, KafkaOK
  <2> QED
    BY <1>1, <1>2, <2>7, <2>8 DEF TypeInv
<1>6. CASE CommitFails
  BY <1>1, <1>2, <1>3, <1>6, KnownStays DEF CommitFails, TypeInv, LoopOK, KafkaOK
<1>7. CASE Crash
  BY <1>1, <1>2, <1>3, <1>7, HasNone, KnownStays DEF Crash, TypeInv, LoopOK, KafkaOK, kafkaVars
<1>8. CASE Restart
  BY <1>1, <1>2, <1>3, <1>8, KnownStays DEF Restart, TypeInv, LoopOK, KafkaOK
<1> QED
  BY <1>4, <1>5, <1>6, <1>7, <1>8

\* Every step keeps the types.
LEMMA TypeStep == ASSUME PipelineAssumption, TypeInv, [Next]_vars PROVE TypeInv'
<1>1. CASE UNCHANGED vars
  BY <1>1, KnownStays DEF vars, TypeInv, RowsOK, LoopOK, KafkaOK, OutOK
<1>2. CASE Next
  BY <1>2, TypeRequests, TypeStart, TypeWake, TypeSteps, TypeRunFinish, TypeScheduler,
     TypeProcess DEF Next, Coroutines
<1> QED
  BY <1>1, <1>2

\* Only steps of the pipeline are handled, and the consumer is at most one message
\* ahead of what it committed.
THEOREM TypeInvariant == Spec => []TypeInv
<1>1. Init => TypeInv
  BY PipelineAssumption, TypeInit
<1>2. TypeInv /\ [Next]_vars => TypeInv'
  BY PipelineAssumption, TypeStep
<1> QED
  BY <1>1, <1>2, PTL DEF Spec

\* The rows, the queue of the loop, the topics, the object storage and what was
\* told keep their types (execution.py, pipeline_runner.py).
THEOREM TypeCorrect == Spec => []TypeOK
<1>1. TypeInv => TypeOK
  BY PipelineAssumption, TypesFollow
<1> QED
  BY <1>1, TypeInvariant, PTL

-----------------------------------------------------------------------------
(* What a step of the system leaves alone *)

\* No coroutine about t is added.
LeavesQueue(t) ==
    /\ Starting(t)' => Starting(t)
    /\ \A k \in StepKinds, s \in Steps : Queued(k, t, s)' => Queued(k, t, s)
    /\ \A f \in BOOLEAN : Ending(t, f)' => Ending(t, f)

\* Nothing about t is sent or answered.
LeavesKafka(t) ==
    /\ \A s \in Steps : <<t, s>> \in sends' => <<t, s>> \in sends
    /\ \A s \in Steps : <<t, s>> \in units' => <<t, s>> \in units
    /\ \A s \in Steps : Unread(t, s)' => Unread(t, s)
    /\ Answered(t)' = Answered(t)

LeavesSleep(t) == \A w \in sleeping' : w.task = t => w \in sleeping

\* Task t is left alone, but for what ends and for its row being deleted.
Leaves(t) ==
    /\ task'[t] \in {task[t], "deleted"} /\ step'[t] = step[t]
    /\ LeavesQueue(t) /\ LeavesKafka(t) /\ LeavesSleep(t)

\* Coroutines of other tasks.
LEMMA QueueLeaves ==
    ASSUME NEW new, QueueGrows(new), NEW t, \A n \in DOMAIN new : new[n].task # t
    PROVE  LeavesQueue(t)
BY DEF QueueGrows, LeavesQueue, Has, HasStart, HasEnd

\* Messages that stay.
LEMMA KafkaStays ==
    ASSUME UNCHANGED <<answers, committed>>
    PROVE  \A t : /\ \A s : Unread(t, s)' <=> Unread(t, s)
                  /\ Answered(t)' = Answered(t) /\ WithResult(t)' = WithResult(t)
BY DEF Unread, Answered, WithResult

\* What is left alone keeps its invariant.
LEMMA TaskFrame ==
    ASSUME NEW t \in Task, TaskInv(t), pipe' = pipe, Leaves(t)
    PROVE  TaskInv(t)'
<1>1. Steps' = Steps /\ \A s : Children(s)' = Children(s)
  BY DEF Steps, Children
<1>2. \A s \in Steps : Untouched(t, s) => Untouched(t, s)'
  BY DEF Leaves, LeavesQueue, Untouched, StepKinds
<1>3. Asleep(t)' => Asleep(t)
  BY DEF Leaves, LeavesSleep, Asleep
<1>4. NothingBefore(t)'
  BY <1>1, <1>2, <1>3 DEF Leaves, LeavesQueue, LeavesSleep, TaskInv, NothingBefore
<1>5. EndFollowsSteps(t)'
  <2>1. (AllFinished(t)' <=> AllFinished(t)) /\ (SomeFailed(t)' <=> SomeFailed(t))
    BY <1>1 DEF Leaves, AllFinished, SomeFailed
  <2> QED
    BY <2>1 DEF Leaves, LeavesQueue, TaskInv, EndFollowsSteps
<1>6. ASSUME NEW s \in Steps PROVE StepPlaces(t, s)'
  <2>1. StepPlaces(t, s)
    BY DEF TaskInv
  <2>2. /\ \A k \in StepKinds : Queued(k, t, s)' => Queued(k, t, s)
        /\ <<t, s>> \in sends' => <<t, s>> \in sends
        /\ <<t, s>> \in units' => <<t, s>> \in units
        /\ Unread(t, s)' => Unread(t, s)
        /\ Answered(t)' = Answered(t) /\ step'[t] = step[t]
    BY DEF Leaves, LeavesQueue, LeavesKafka
  <2> QED
    BY <2>1, <2>2 DEF StepPlaces, StepKinds
<1>7. ASSUME NEW s \in Steps PROVE ChildrenWait(t, s)'
  <2>1. ChildrenWait(t, s) /\ Children(s) \subseteq Steps
    BY DEF TaskInv, Children
  <2>2. (Queued("next", t, s)' => Queued("next", t, s)) /\ step'[t] = step[t]
    BY DEF Leaves, LeavesQueue, StepKinds
  <2> QED
    BY <1>1, <1>2, <2>1, <2>2 DEF ChildrenWait
<1> QED
  BY <1>1, <1>4, <1>5, <1>6, <1>7 DEF TaskInv

\* A step of t goes on, and the others stay where they are.
Moves(t, s, status) ==
    /\ step'[t][s] = status
    /\ \A r \in Steps \ {s} : step'[t][r] = step[t][r]
    /\ task'[t] # "absent" /\ (Starting(t)' => Starting(t)) /\ LeavesSleep(t)
    /\ \A r \in Steps \ {s} :
           /\ \A k \in StepKinds : Queued(k, t, r)' => Queued(k, t, r)
           /\ <<t, r>> \in sends' => <<t, r>> \in sends
           /\ <<t, r>> \in units' => <<t, r>> \in units
           /\ Unread(t, r)' => Unread(t, r)
           /\ r \in Answered(t)' <=> r \in Answered(t)

\* The other steps keep their invariant, those after the one that goes on too.
LEMMA OtherSteps ==
    ASSUME PipelineAssumption, RowsOK, NEW t \in Task, NEW s \in Steps, NEW status,
           TaskInv(t), pipe' = pipe, Moves(t, s, status), ~Untouched(t, s),
           step[t][s] # "Finished" \/ status = "Finished"
    PROVE  /\ NothingBefore(t)'
           /\ \A r \in Steps \ {s} : StepPlaces(t, r)' /\ ChildrenWait(t, r)'
           /\ step[t][s] \in {"Pending", "Running"} =>
                  \A c \in Children(s) : Untouched(t, c)'
           /\ ~Starting(t) /\ ~Asleep(t)
           /\ pipe.parent[s] # s =>
                  (step[t][pipe.parent[s]] = "Finished" => step'[t][pipe.parent[s]] = "Finished")
<1>1. Steps' = Steps /\ \A r : Children(r)' = Children(r)
  BY DEF Steps, Children
<1>2. ~Starting(t) /\ ~Asleep(t) /\ task[t] # "absent"
  BY DEF TaskInv, NothingBefore
<1>3. ~Asleep(t)' /\ ~Starting(t)'
  BY <1>2 DEF Moves, LeavesSleep, Asleep
<1>4. NothingBefore(t)'
  BY <1>3 DEF Moves, NothingBefore, Asleep
<1>5. \A r \in Steps \ {s} : Untouched(t, r) => Untouched(t, r)'
  BY DEF Moves, Untouched, StepKinds
<1>6. \A r \in Steps : pipe.parent[r] \in Steps
  BY PipeFacts
<1>7. ASSUME NEW r \in Steps \ {s} PROVE StepPlaces(t, r)'
  <2>1. StepPlaces(t, r) /\ step'[t][r] = step[t][r]
    BY DEF TaskInv, Moves
  <2>2. /\ \A k \in StepKinds : Queued(k, t, r)' => Queued(k, t, r)
        /\ <<t, r>> \in sends' => <<t, r>> \in sends
        /\ <<t, r>> \in units' => <<t, r>> \in units
        /\ Unread(t, r)' => Unread(t, r)
        /\ r \in Answered(t)' <=> r \in Answered(t)
    BY DEF Moves
  <2>3. step[t][pipe.parent[r]] = "Finished" => step'[t][pipe.parent[r]] = "Finished"
    BY <1>6 DEF Moves
  <2> QED
    BY <2>1, <2>2, <2>3 DEF StepPlaces, StepKinds
<1>8. ASSUME NEW r \in Steps \ {s} PROVE ChildrenWait(t, r)'
  <2>1. ChildrenWait(t, r) /\ Children(r) \subseteq Steps /\ step'[t][r] = step[t][r]
    BY DEF TaskInv, Children, Moves
  <2>2. Queued("next", t, r)' => Queued("next", t, r)
    BY DEF Moves, StepKinds
  <2>3. (Queued("next", t, r) \/ step[t][r] \in {"Pending", "Running"}) => s \notin Children(r)
    BY <2>1 DEF ChildrenWait
  <2> QED
    BY <1>1, <1>5, <2>1, <2>2, <2>3 DEF ChildrenWait
<1>9. step[t][s] \in {"Pending", "Running"} => \A c \in Children(s) : Untouched(t, c)'
  BY <1>5 DEF TaskInv, ChildrenWait, Children
<1> QED
  BY <1>2, <1>4, <1>6, <1>7, <1>8, <1>9 DEF Moves

\* While a step is on its way, how the task ends follows from the others.
LEMMA EndWaits ==
    ASSUME NEW t \in Task, NEW s \in Steps, TaskInv(t), pipe' = pipe,
           step[t][s] \in {"Pending", "Running"},
           \A r \in Steps \ {s} : step'[t][r] = step[t][r]
    PROVE  /\ ~AllFinished(t) /\ ~Ending(t, FALSE) /\ task[t] # "Finished"
           /\ SomeFailed(t) => SomeFailed(t)'
           /\ task[t] = "Failed" => SomeFailed(t)'
           /\ AllFinished(t)' => task[t] # "Failed" /\ ~Ending(t, TRUE)
           /\ (task'[t] = task[t] /\ \A f \in BOOLEAN : Ending(t, f)' => Ending(t, f)) =>
                  EndFollowsSteps(t)'
<1>1. Steps' = Steps
  BY DEF Steps
<1>2. ~AllFinished(t)
  BY DEF AllFinished
<1>3. SomeFailed(t) => SomeFailed(t)'
  BY <1>1 DEF SomeFailed
<1>4. AllFinished(t)' => ~SomeFailed(t)'
  BY DEF AllFinished, SomeFailed
<1> QED
  BY <1>2, <1>3, <1>4 DEF TaskInv, EndFollowsSteps

\* Nothing is queued for a step that was not begun, nor for a task of such steps.
LEMMA NothingQueued ==
    ASSUME PipelineAssumption, RowsOK, NEW t \in Task, TaskInv(t)
    PROVE  /\ \A s \in Steps : Untouched(t, s) =>
                  /\ \A k \in StepKinds : ~Queued(k, t, s)
                  /\ <<t, s>> \notin sends \cup units /\ s \notin Answered(t)
                  /\ ~Unread(t, s)
           /\ (\A s \in Steps : Untouched(t, s)) =>
                  ~AllFinished(t) /\ ~SomeFailed(t) /\ \A f \in BOOLEAN : ~Ending(t, f)
<1>1. pipe.top \in Steps
  BY PipeFacts
<1>2. ASSUME NEW s \in Steps, Untouched(t, s)
      PROVE  /\ \A k \in StepKinds : ~Queued(k, t, s)
             /\ <<t, s>> \notin sends \cup units /\ s \notin Answered(t)
             /\ ~Unread(t, s)
  <2>1. step[t][s] = "Pending" /\ ~Queued("launch", t, s) /\ StepPlaces(t, s) /\ ChildrenWait(t, s)
    BY <1>2 DEF Untouched, TaskInv
  <2>2. <<t, s>> \notin sends \cup units /\ s \notin Answered(t) /\ ~Unread(t, s)
    BY <2>1 DEF StepPlaces
  <2>3. ~Queued("execute", t, s) /\ ~Queued("process", t, s) /\ ~Queued("next", t, s)
    BY <2>1 DEF StepPlaces, ChildrenWait
  <2> QED
    BY <2>1, <2>2, <2>3 DEF StepKinds
<1>3. ASSUME \A s \in Steps : Untouched(t, s)
      PROVE  ~AllFinished(t) /\ ~SomeFailed(t) /\ ~Ending(t, TRUE) /\ ~Ending(t, FALSE)
  <2>1. \A s \in Steps : step[t][s] = "Pending"
    BY <1>3 DEF Untouched
  <2>2. ~AllFinished(t) /\ ~SomeFailed(t)
    BY <1>1, <2>1 DEF AllFinished, SomeFailed
  <2> QED
    BY <2>2 DEF TaskInv, EndFollowsSteps
<1>4. ASSUME \A s \in Steps : Untouched(t, s), NEW f \in BOOLEAN PROVE ~Ending(t, f)
  <2>1. CASE f = TRUE
    BY <1>3, <1>4, <2>1, Zenon
  <2>2. CASE f = FALSE
    BY <1>3, <1>4, <2>2, Zenon
  <2> QED
    BY <2>1, <2>2
<1> QED
  BY <1>2, <1>3, <1>4

\* Coroutines of the same step clash with the same others.
LEMMA SameClash ==
    ASSUME NEW c, NEW d, c.task = d.task, c.kind \in StepKinds, d.kind \in StepKinds,
           c.step = d.step
    PROVE  \A e : Clash(c, e) <=> Clash(d, e)
BY DEF Clash, StepKinds

-----------------------------------------------------------------------------
(* Steps of tasks one after another *)

\* A coroutine of t that ends keeps the invariant if it keeps what is said of t and
\* what it adds, about t too, does not clash.
LEMMA HeadSteps ==
    ASSUME PipelineAssumption, TypeInv, StepInv, loop # <<>>, NEW t \in Task,
           NEW new \in Seq(KnownCoroutine), Ran(new), \A n \in DOMAIN new : new[n].task = t,
           UNCHANGED <<pipe, kafkaVars, repeated>>,
           \A u \in Task \ {t} :
               /\ task'[u] = task[u] /\ step'[u] = step[u] /\ LeavesSleep(u)
               /\ \A s \in Steps : <<u, s>> \in sends' => <<u, s>> \in sends,
           t \in Single =>
               /\ TaskInv(t)'
               /\ \A i \in DOMAIN loop, n \in DOMAIN new : i # 1 => ~Clash(loop[i], new[n])
               /\ \A m, n \in DOMAIN new : m # n => ~Clash(new[m], new[n])
    PROVE  StepInv'
<1>1. loop \in Seq(KnownCoroutine) /\ Single' = Single
  BY DEF TypeInv, LoopOK, Single
<1>2. QueueGrows(new)
  BY <1>1, RanGrows
<1>3. ASSUME NEW u \in Task \ {t} PROVE Leaves(u)
  <2>1. LeavesQueue(u)
    BY <1>2, QueueLeaves
  <2>2. LeavesKafka(u)
    <3>1. UNCHANGED <<answers, committed, units>>
      BY DEF kafkaVars
    <3> QED
      BY <3>1, KafkaStays DEF LeavesKafka
  <2> QED
    BY <2>1, <2>2 DEF Leaves
<1>4. ASSUME NEW u \in Single PROVE TaskInv(u)'
  <2>1. CASE u = t
    BY <1>4, <2>1
  <2>2. CASE u # t
    BY <1>3, <1>4, <2>2, TaskFrame DEF StepInv, Single
  <2> QED
    BY <2>1, <2>2
<1>5. QueuedOnce'
  <2>1. /\ \A i \in DOMAIN loop, n \in DOMAIN new : i # 1 => ~Clash(loop[i], new[n])
        /\ \A m, n \in DOMAIN new : m # n => ~Clash(new[m], new[n])
    <3>1. CASE t \in Single
      BY <3>1
    <3>2. CASE t \notin Single
      BY <3>2 DEF Clash
    <3> QED
      BY <3>1, <3>2
  <2> QED
    BY <1>1, <2>1, RanOnce DEF StepInv
<1>6. AnsweredOnce'
  BY <1>1 DEF StepInv, AnsweredOnce, kafkaVars
<1> QED
  BY <1>1, <1>4, <1>5, <1>6 DEF StepInv

\* That with nothing or with one coroutine to add.
LEMMA HeadStepsNone ==
    ASSUME PipelineAssumption, TypeInv, StepInv, loop # <<>>, NEW t \in Task, Ran(<<>>),
           UNCHANGED <<pipe, kafkaVars, repeated>>,
           \A u \in Task \ {t} :
               /\ task'[u] = task[u] /\ step'[u] = step[u] /\ LeavesSleep(u)
               /\ \A s \in Steps : <<u, s>> \in sends' => <<u, s>> \in sends,
           t \in Single => TaskInv(t)'
    PROVE  StepInv'
<1> PICK new : new = <<>>
  OBVIOUS
<1>1. new \in Seq(KnownCoroutine) /\ DOMAIN new = {} /\ Ran(new)
  BY HasNone
<1> QED
  BY <1>1, HeadSteps

\* The same, for one coroutine that follows, about the task of the one that ran.
LEMMA HeadStepsOne ==
    ASSUME PipelineAssumption, TypeInv, StepInv, loop # <<>>, NEW t \in Task,
           NEW d \in KnownCoroutine, Ran(<<d>>), d.task = t,
           UNCHANGED <<pipe, kafkaVars, repeated>>,
           \A u \in Task \ {t} :
               /\ task'[u] = task[u] /\ step'[u] = step[u] /\ LeavesSleep(u)
               /\ \A s \in Steps : <<u, s>> \in sends' => <<u, s>> \in sends,
           t \in Single =>
               TaskInv(t)' /\ \A i \in DOMAIN loop : i # 1 => ~Clash(loop[i], d)
    PROVE  StepInv'
<1> PICK new : new = <<d>>
  OBVIOUS
<1>1. new \in Seq(KnownCoroutine) /\ DOMAIN new = {1} /\ new[1] = d /\ Ran(new)
  BY HasOne
<1>2. /\ \A n \in DOMAIN new : new[n].task = t
      /\ \A m, n \in DOMAIN new : m # n => ~Clash(new[m], new[n])
  BY <1>1
<1>3. t \in Single => \A i \in DOMAIN loop, n \in DOMAIN new : i # 1 => ~Clash(loop[i], new[n])
  BY <1>1
<1> QED
  BY <1>1, <1>2, <1>3, HeadSteps

\* What is at the head of the queue is queued.
LEMMA HeadQueued ==
    ASSUME TypeInv, loop # <<>>, NEW c, c = Head(loop)
    PROVE  /\ 1 \in DOMAIN loop /\ loop[1] = c
           /\ c.kind \in StepKinds => Queued(c.kind, c.task, c.step)
           /\ c.kind = "start" => Starting(c.task)
           /\ c.kind = "finish" => Ending(c.task, c.failed)
<1>1. 1 \in DOMAIN loop /\ loop[1] = c
  BY HeadTailProperties, LenProperties, EmptySeq DEF TypeInv, LoopOK
<1> QED
  BY <1>1 DEF Queued, Has, Starting, HasStart, Ending, HasEnd

\* One coroutine for the same step follows the head.
LEMMA OneFollows ==
    ASSUME TypeInv, StepInv, loop # <<>>, NEW c, c = Head(loop), NEW d,
           d.task = c.task, d.kind \in StepKinds, c.kind \in StepKinds, d.step = c.step
    PROVE  \A i \in DOMAIN loop : i # 1 => ~Clash(loop[i], d)
<1>1. 1 \in DOMAIN loop /\ loop[1] = c
  BY HeadQueued
<1>2. \A i \in DOMAIN loop : i # 1 => ~Clash(c, loop[i])
  BY <1>1 DEF StepInv, QueuedOnce
<1> QED
  BY <1>2, SameClash, ClashSymmetric

\* What LeavesSleep says where no sleep begins or ends.
LEMMA SleepStays == sleeping' = sleeping => \A t : LeavesSleep(t)
BY DEF LeavesSleep

\* A step is launched.
LEMMA StepsLaunch ==
    ASSUME PipelineAssumption, TypeInv, StepInv, Launch
    PROVE  StepInv'
<1> PICK c : c = Head(loop)
  OBVIOUS
<1> PICK t : t = c.task
  OBVIOUS
<1> PICK s : s = c.step
  OBVIOUS
<1>1. /\ loop # <<>> /\ c.kind = "launch" /\ c.kind \in StepKinds
      /\ UNCHANGED <<pipe, task, sleeping, sends, kafkaVars, repeated>>
  BY DEF Launch, Head1, StepKinds
<1>2. /\ c \in KnownCoroutine /\ t \in Task /\ s \in Steps /\ c.body \in BOOLEAN
      /\ Queued("launch", t, s)
  BY <1>1, HeadKnown, HeadQueued DEF TypeInv
<1>3. \A u \in Task \ {t} :
          /\ task'[u] = task[u] /\ LeavesSleep(u)
          /\ \A r \in Steps : <<u, r>> \in sends' => <<u, r>> \in sends
  BY <1>1, SleepStays
<1>4. CASE t \in Rows
  <2> DEFINE d == ExecuteStep(t, s, c.body)
  <2>1. Ran(<<d>>) /\ UpdateStep(t, s, "Running")
    BY <1>4 DEF Launch
  <2>2. d \in KnownCoroutine
    BY <1>2, KnownMade DEF TypeInv
  <2>3. d.task = t /\ d.kind = "execute" /\ d.kind \in StepKinds /\ d.step = s
    BY DEF ExecuteStep, StepKinds
  <2> HIDE DEF d
  <2>4. <<d>> \in Seq(KnownCoroutine) /\ DOMAIN <<d>> = {1} /\ <<d>>[1] = d
    BY <2>2, HasOne
  <2>5. /\ step'[t][s] = "Running" /\ \A r \in Steps \ {s} : step'[t][r] = step[t][r]
        /\ \A u \in Task \ {t} : step'[u] = step[u]
    BY <1>2, <1>4, <2>1, UpdateStepType DEF TypeInv, Status
  <2>6. \A i \in DOMAIN loop : i # 1 => ~Clash(loop[i], d)
    BY <1>1, <2>3, OneFollows
  <2>7. ASSUME t \in Single PROVE TaskInv(t)'
    <3>1. TaskInv(t) /\ StepPlaces(t, s) /\ step[t][s] = "Pending" /\ Steps' = Steps
      BY <1>1, <1>2, <2>7 DEF StepInv, TaskInv, StepPlaces, Steps
    <3>2. QueueGrows(<<d>>) /\ \A k \in StepKinds : Queued(k, t, s)' => Has(<<d>>, k, t, s)
      BY <1>1, <2>1, <2>4, <2>7, RanGrows, HeadAlone DEF TypeInv, LoopOK, StepInv
    <3>3. /\ \A k \in StepKinds : Queued(k, t, s)' => k = "execute"
          /\ \A k \in StepKinds, r \in Steps \ {s} : Queued(k, t, r)' => Queued(k, t, r)
          /\ Starting(t)' => Starting(t)
          /\ \A f : Ending(t, f)' => Ending(t, f)
      BY <2>2, <2>3, <3>2, HasOne DEF QueueGrows
    <3>4. /\ \A r : Unread(t, r)' <=> Unread(t, r)
          /\ Answered(t)' = Answered(t) /\ units' = units
      BY <1>1, KafkaStays DEF kafkaVars
    <3>5. task'[t] = task[t] /\ task[t] # "absent"
      BY <1>1, <1>4 DEF Rows, Status
    <3>6. Moves(t, s, "Running")
      BY <1>1, <1>2, <2>5, <3>3, <3>4, <3>5, SleepStays DEF Moves
    <3>7. ~Untouched(t, s)
      BY <1>2 DEF Untouched
    <3>8. /\ NothingBefore(t)'
          /\ \A r \in Steps \ {s} : StepPlaces(t, r)' /\ ChildrenWait(t, r)'
          /\ \A r \in Children(s) : Untouched(t, r)'
      BY <1>1, <1>2, <3>1, <3>6, <3>7, OtherSteps DEF TypeInv
    <3>9. EndFollowsSteps(t)'
      BY <1>1, <1>2, <2>5, <3>1, <3>3, <3>5, EndWaits
    <3>10. StepPlaces(t, s)'
      BY <1>1, <2>5, <3>1, <3>3, <3>4 DEF StepPlaces, StepKinds
    <3>11. ChildrenWait(t, s)'
      BY <1>1, <3>3, <3>8 DEF ChildrenWait, StepKinds, Children, Steps
    <3> QED
      BY <3>1, <3>8, <3>9, <3>10, <3>11 DEF TaskInv
  <2> QED
    BY <1>1, <1>2, <1>3, <2>1, <2>2, <2>3, <2>5, <2>6, <2>7, HeadStepsOne
<1>5. CASE t \notin Rows
  <2>1. Ran(<<>>) /\ UNCHANGED step
    BY <1>5 DEF Launch
  <2>2. ASSUME t \in Single PROVE TaskInv(t)'
    <3>1. QueueGrows(<<>>)
      BY <1>1, <2>1, HasNone, RanGrows DEF TypeInv, LoopOK
    <3>2. Leaves(t)
      BY <1>1, <2>1, <3>1, HasNone, QueueLeaves, KafkaStays, SleepStays
         DEF Leaves, LeavesKafka, kafkaVars
    <3> QED
      BY <1>1, <1>2, <2>2, <3>2, TaskFrame DEF StepInv
  <2> QED
    BY <1>1, <1>2, <1>3, <2>1, <2>2, HeadStepsNone
<1> QED
  BY <1>4, <1>5

\* What the queue has after its head, a coroutine of step s of task t, has ended.
LEMMA HeadMoves ==
    ASSUME TypeInv, StepInv, loop # <<>>, NEW c, c = Head(loop), c.kind \in StepKinds,
           c.task \in Single, NEW new \in Seq(KnownCoroutine), Ran(new)
    PROVE  /\ QueueGrows(new)
           /\ \A k \in StepKinds : Queued(k, c.task, c.step)' => Has(new, k, c.task, c.step)
BY RanGrows, HeadAlone DEF TypeInv, LoopOK, StepInv

\* A task of which nothing but the queue changes.
LEMMA HeadLeaves ==
    ASSUME TypeInv, StepInv, loop # <<>>, NEW t \in Single, Ran(<<>>),
           UNCHANGED <<pipe, task, sends, sleeping, kafkaVars>>, step'[t] = step[t]
    PROVE  TaskInv(t)'
<1>1. QueueGrows(<<>>)
  BY HasNone, RanGrows DEF TypeInv, LoopOK
<1>2. LeavesQueue(t)
  BY <1>1, HasNone, QueueLeaves
<1>3. LeavesKafka(t)
  BY KafkaStays DEF LeavesKafka, kafkaVars
<1> QED
  BY <1>2, <1>3, SleepStays, TaskFrame DEF Leaves, StepInv, Single

\* A step is given to the producer.
LEMMA StepsExecuteSend ==
    ASSUME PipelineAssumption, TypeInv, StepInv, ExecuteSend
    PROVE  StepInv'
<1> PICK c : c = Head(loop)
  OBVIOUS
<1> PICK t : t = c.task
  OBVIOUS
<1> PICK s : s = c.step
  OBVIOUS
<1>1. /\ loop # <<>> /\ c.kind = "execute" /\ c.kind \in StepKinds /\ Ran(<<>>)
      /\ UNCHANGED <<pipe, rowVars, sleeping, kafkaVars, repeated>>
      /\ sends' = IF t \in Rows THEN sends \cup {<<t, s>>} ELSE sends
  BY DEF ExecuteSend, Head1, StepKinds
<1>2. t \in Task /\ s \in Steps /\ Queued("execute", t, s)
  BY <1>1, HeadKnown, HeadQueued DEF TypeInv
<1>3. \A u \in Task \ {t} :
          /\ task'[u] = task[u] /\ step'[u] = step[u] /\ LeavesSleep(u)
          /\ \A r \in Steps : <<u, r>> \in sends' => <<u, r>> \in sends
  BY <1>1, SleepStays DEF rowVars
<1>4. ASSUME t \in Single, t \in Rows PROVE TaskInv(t)'
  <2>1. /\ TaskInv(t) /\ StepPlaces(t, s) /\ ChildrenWait(t, s) /\ step[t][s] = "Running"
        /\ <<t, s>> \notin sends \cup units /\ s \notin Answered(t)
        /\ Steps' = Steps /\ step' = step /\ task' = task
    BY <1>1, <1>2, <1>4 DEF StepInv, TaskInv, StepPlaces, Steps, rowVars
  <2>2. QueueGrows(<<>>) /\ \A k \in StepKinds : Queued(k, t, s)' => Has(<<>>, k, t, s)
    BY <1>1, <1>4, HasNone, HeadMoves
  <2>3. /\ \A k \in StepKinds : ~Queued(k, t, s)'
        /\ \A k \in StepKinds, r \in Steps : Queued(k, t, r)' => Queued(k, t, r)
        /\ Starting(t)' => Starting(t)
        /\ \A f \in BOOLEAN : Ending(t, f)' => Ending(t, f)
    BY <2>2, HasNone DEF QueueGrows
  <2>4. /\ \A r : Unread(t, r)' <=> Unread(t, r)
        /\ Answered(t)' = Answered(t) /\ units' = units
    BY <1>1, KafkaStays DEF kafkaVars
  <2>5. Moves(t, s, "Running")
    BY <1>1, <1>4, <2>1, <2>3, <2>4, SleepStays DEF Moves, Rows, Status
  <2>6. ~Untouched(t, s)
    BY <2>1 DEF Untouched
  <2>7. /\ NothingBefore(t)'
        /\ \A r \in Steps \ {s} : StepPlaces(t, r)' /\ ChildrenWait(t, r)'
        /\ \A r \in Children(s) : Untouched(t, r)'
    BY <1>1, <1>2, <2>1, <2>5, <2>6, OtherSteps DEF TypeInv
  <2>8. EndFollowsSteps(t)'
    BY <1>1, <1>2, <2>1, <2>3, EndWaits
  <2>9. StepPlaces(t, s)'
    BY <1>1, <2>1, <2>3, <2>4 DEF StepPlaces, StepKinds
  <2>10. ChildrenWait(t, s)'
    BY <1>1, <2>3, <2>7 DEF ChildrenWait, StepKinds, Children, Steps
  <2> QED
    BY <2>1, <2>7, <2>8, <2>9, <2>10 DEF TaskInv
<1>5. ASSUME t \in Single, t \notin Rows PROVE TaskInv(t)'
  BY <1>1, <1>5, HeadLeaves DEF rowVars
<1> QED
  BY <1>1, <1>2, <1>3, <1>4, <1>5, HeadStepsNone

\* A task whose steps are all done, or that has failed, ends.
LEMMA FinishEnds ==
    ASSUME PipelineAssumption, TypeInv, NEW t \in Task, NEW failed \in BOOLEAN,
           Finish(t, failed)
    PROVE  /\ \A u \in Task \ {t} : task'[u] = task[u]
           /\ task'[t] = "absent" <=> task[t] = "absent"
           /\ task'[t] = "deleted" <=> task[t] = "deleted"
           /\ \/ task'[t] = task[t]
              \/ t \in Rows /\ task'[t] = "Failed"
              \/ t \in Rows /\ task'[t] = "Finished" /\ ~failed
<1>1. t \in Rows => task[t] \notin {"absent", "deleted"}
  BY DEF Rows, Status
<1> QED
  BY <1>1, FinishTypes DEF TypeInv

\* What is still to be read was answered.
LEMMA UnreadAnswered ==
    ASSUME PipelineAssumption, RowsOK, NEW t, NEW s \in Steps, Unread(t, s)
    PROVE  s \in Answered(t)
BY PipeFacts DEF Unread, Answered

\* A step without arguments is skipped.
LEMMA StepsExecuteSkip ==
    ASSUME PipelineAssumption, TypeInv, StepInv, ExecuteSkip
    PROVE  StepInv'
<1> PICK c : c = Head(loop)
  OBVIOUS
<1> PICK t : t = c.task
  OBVIOUS
<1> PICK s : s = c.step
  OBVIOUS
<1>1. /\ loop # <<>> /\ c.kind = "execute" /\ c.kind \in StepKinds /\ Ran(<<>>)
      /\ UNCHANGED <<pipe, sleeping, sends, kafkaVars, repeated>>
      /\ UpdateStep(t, s, "Finished")
      /\ IF t \in Rows /\ IsCompleted(step', t) THEN Finish(t, FALSE)
         ELSE UNCHANGED <<task, outVars, faults>>
  BY DEF ExecuteSkip, Head1, StepKinds
<1>2. t \in Task /\ s \in Steps /\ Queued("execute", t, s)
  BY <1>1, HeadKnown, HeadQueued DEF TypeInv
<1>3. /\ t \in Rows => step'[t][s] = "Finished"
      /\ t \notin Rows => step' = step
      /\ \A r \in Steps \ {s} : step'[t][r] = step[t][r]
      /\ \A u \in Task \ {t} : step'[u] = step[u]
  <2>1. t \notin Rows => step' = step
    BY <1>1 DEF UpdateStep
  <2>2. "Finished" \in Status
    BY DEF Status
  <2> QED
    BY <1>1, <1>2, <2>1, <2>2, UpdateStepType DEF TypeInv
<1>4. /\ \A u \in Task \ {t} : task'[u] = task[u]
      /\ task'[t] = "absent" <=> task[t] = "absent"
      /\ task'[t] = task[t] \/ (t \in Rows /\ IsCompleted(step', t))
  BY <1>1, <1>2, FinishEnds
<1>5. \A u \in Task \ {t} :
          /\ task'[u] = task[u] /\ step'[u] = step[u] /\ LeavesSleep(u)
          /\ \A r \in Steps : <<u, r>> \in sends' => <<u, r>> \in sends
  BY <1>1, <1>3, <1>4, SleepStays
<1>6. ASSUME t \in Single, t \in Rows PROVE TaskInv(t)'
  <2>1. /\ TaskInv(t) /\ StepPlaces(t, s) /\ ChildrenWait(t, s) /\ step[t][s] = "Running"
        /\ <<t, s>> \notin sends \cup units /\ s \notin Answered(t)
        /\ Steps' = Steps
    BY <1>1, <1>2, <1>6 DEF StepInv, TaskInv, StepPlaces, Steps
  <2>2. QueueGrows(<<>>) /\ \A k \in StepKinds : Queued(k, t, s)' => Has(<<>>, k, t, s)
    BY <1>1, <1>6, HasNone, HeadMoves
  <2>3. /\ \A k \in StepKinds : ~Queued(k, t, s)'
        /\ \A k \in StepKinds, r \in Steps : Queued(k, t, r)' => Queued(k, t, r)
        /\ Starting(t)' => Starting(t)
        /\ \A f \in BOOLEAN : Ending(t, f)' => Ending(t, f)
    BY <2>2, HasNone DEF QueueGrows
  <2>4. /\ \A r : Unread(t, r)' <=> Unread(t, r)
        /\ Answered(t)' = Answered(t) /\ units' = units
    BY <1>1, KafkaStays DEF kafkaVars
  <2>5. Moves(t, s, "Finished")
    BY <1>1, <1>3, <1>4, <1>6, <2>1, <2>3, <2>4, SleepStays DEF Moves, Rows, Status
  <2>6. ~Untouched(t, s)
    BY <2>1 DEF Untouched
  <2>7. /\ NothingBefore(t)'
        /\ \A r \in Steps \ {s} : StepPlaces(t, r)' /\ ChildrenWait(t, r)'
        /\ \A r \in Children(s) : Untouched(t, r)'
    BY <1>1, <1>2, <2>1, <2>5, <2>6, OtherSteps DEF TypeInv
  <2>8. EndFollowsSteps(t)'
    <3>1. CASE task'[t] = task[t]
      BY <1>1, <1>2, <1>3, <2>1, <2>3, <3>1, EndWaits, ZenonT(30)
    <3>2. CASE IsCompleted(step', t)
      <4>1. AllFinished(t)'
        BY <2>1, <3>2 DEF AllFinished, IsCompleted
      <4>2. ~Ending(t, FALSE) /\ ~Ending(t, TRUE)
        BY <1>1, <1>2, <1>3, <2>1, <4>1, EndWaits
      <4>3. ~Ending(t, FALSE)' /\ ~Ending(t, TRUE)'
        BY <2>3, <4>2
      <4> QED
        BY <4>1, <4>3 DEF EndFollowsSteps
    <3> QED
      BY <1>4, <3>1, <3>2
  <2>9. StepPlaces(t, s)'
    <3>1. ~Unread(t, s)
      BY <1>2, <2>1, UnreadAnswered DEF TypeInv
    <3> QED
      BY <1>1, <1>3, <1>6, <2>1, <2>3, <2>4, <3>1 DEF StepPlaces, StepKinds
  <2>10. ChildrenWait(t, s)'
    BY <1>1, <2>3, <2>7 DEF ChildrenWait, StepKinds, Children, Steps
  <2> QED
    BY <2>1, <2>7, <2>8, <2>9, <2>10 DEF TaskInv
<1>7. ASSUME t \in Single, t \notin Rows PROVE TaskInv(t)'
  BY <1>1, <1>3, <1>7, HeadLeaves
<1> QED
  BY <1>1, <1>2, <1>5, <1>6, <1>7, HeadStepsNone

\* An answer is processed.
LEMMA StepsProcess ==
    ASSUME PipelineAssumption, TypeInv, StepInv, Process
    PROVE  StepInv'
<1> PICK c : c = Head(loop)
  OBVIOUS
<1> PICK t : t = c.task
  OBVIOUS
<1> PICK s : s = c.step
  OBVIOUS
<1>1. /\ loop # <<>> /\ c.kind = "process" /\ c.kind \in StepKinds
      /\ UNCHANGED <<pipe, task, sleeping, sends, kafkaVars, repeated>>
  BY DEF Process, Head1, StepKinds
<1>2. t \in Task /\ s \in Steps /\ Queued("process", t, s) /\ c.outcome \in AnswerKinds
  BY <1>1, HeadKnown, HeadQueued DEF TypeInv
<1>3. CASE t \notin Rows
  <2>1. Ran(<<>>) /\ step' = step
    BY <1>3 DEF Process
  <2>2. t \in Single => TaskInv(t)'
    BY <1>1, <2>1, HeadLeaves
  <2> QED
    BY <1>1, <1>2, <2>1, <2>2, SleepStays, HeadStepsNone
<1>4. CASE t \in Rows
  <2> DEFINE status == StepStatus(c.outcome)
             d == IF c.outcome = "error" THEN FinishTask(t, TRUE)
                  ELSE IF IsCompleted(step', t) THEN FinishTask(t, FALSE)
                  ELSE NextSteps(t, s, c.outcome)
  <2>1. UpdateStep(t, s, status) /\ Ran(<<d>>)
    BY <1>4 DEF Process
  <2>2. d \in KnownCoroutine /\ d.task = t
    <3>1. d \in KnownCoroutine
      BY <1>2, KnownMade DEF TypeInv
    <3> QED
      BY <3>1 DEF FinishTask, NextSteps
  <2>3. \/ d.kind = "next" /\ d.step = s /\ status = "Finished"
        \/ d.kind = "finish" /\ d.failed = TRUE /\ status = "Failed"
        \/ /\ d.kind = "finish" /\ d.failed = FALSE
           /\ status = "Finished" /\ IsCompleted(step', t)
    <3>1. status = IF c.outcome = "error" THEN "Failed" ELSE "Finished"
      BY DEF StepStatus
    <3>2. CASE c.outcome = "error"
      BY <3>1, <3>2 DEF FinishTask
    <3>3. CASE c.outcome # "error" /\ IsCompleted(step', t)
      BY <3>1, <3>3 DEF FinishTask
    <3>4. CASE c.outcome # "error" /\ ~IsCompleted(step', t)
      BY <3>1, <3>4 DEF NextSteps
    <3> QED
      BY <3>2, <3>3, <3>4
  <2> HIDE DEF d, status
  <2>4. status \in {"Finished", "Failed"}
    BY <2>3
  <2>5. /\ step'[t][s] = status /\ \A r \in Steps \ {s} : step'[t][r] = step[t][r]
        /\ \A u \in Task \ {t} : step'[u] = step[u]
    BY <1>2, <1>4, <2>1, <2>4, UpdateStepType DEF TypeInv, Status
  <2>6. ASSUME t \in Single
        PROVE  TaskInv(t)' /\ \A i \in DOMAIN loop : i # 1 => ~Clash(loop[i], d)
    <3>1. /\ TaskInv(t) /\ StepPlaces(t, s) /\ ChildrenWait(t, s) /\ step[t][s] = "Running"
          /\ s \in Answered(t) /\ ~Unread(t, s) /\ Steps' = Steps
      BY <1>1, <1>2, <2>6 DEF StepInv, TaskInv, StepPlaces, Steps
    <3>2. <<t, s>> \notin sends \cup units /\ ~Queued("execute", t, s)
      BY <3>1 DEF StepPlaces
    <3>3. /\ <<d>> \in Seq(KnownCoroutine)
          /\ \A k, r : Has(<<d>>, k, t, r) => d.kind = k /\ d.step = r
          /\ HasStart(<<d>>, t) => d.kind = "start"
          /\ \A f : HasEnd(<<d>>, t, f) => d.kind = "finish" /\ d.failed = f
      BY <2>2, HasOne
    <3>4. QueueGrows(<<d>>) /\ \A k \in StepKinds : Queued(k, t, s)' => Has(<<d>>, k, t, s)
      BY <1>1, <2>1, <2>6, <3>3, HeadMoves
    <3>5. /\ \A k \in StepKinds : Queued(k, t, s)' => k = d.kind /\ k = "next"
          /\ \A k \in StepKinds, r \in Steps \ {s} : Queued(k, t, r)' => Queued(k, t, r)
          /\ Starting(t)' => Starting(t)
      BY <2>3, <3>3, <3>4 DEF QueueGrows, StepKinds
    <3>6. \A f : Ending(t, f)' => Ending(t, f) \/ (d.kind = "finish" /\ d.failed = f)
      BY <3>3, <3>4 DEF QueueGrows
    <3>7. /\ \A r : Unread(t, r)' <=> Unread(t, r)
          /\ Answered(t)' = Answered(t) /\ units' = units
      BY <1>1, KafkaStays DEF kafkaVars
    <3>8. Moves(t, s, status)
      BY <1>1, <1>4, <2>5, <3>1, <3>5, <3>7, SleepStays DEF Moves, Rows, Status
    <3>9. ~Untouched(t, s)
      BY <3>1 DEF Untouched
    <3>10. /\ NothingBefore(t)' /\ ~Starting(t)
           /\ \A r \in Steps \ {s} : StepPlaces(t, r)' /\ ChildrenWait(t, r)'
           /\ \A r \in Children(s) : Untouched(t, r)'
      BY <1>1, <1>2, <3>1, <3>8, <3>9, OtherSteps DEF TypeInv
    <3>11. /\ ~Ending(t, FALSE) /\ task[t] # "Finished"
           /\ SomeFailed(t) => SomeFailed(t)'
           /\ task[t] = "Failed" => SomeFailed(t)'
           /\ AllFinished(t)' => task[t] # "Failed" /\ ~Ending(t, TRUE)
      <4>1. /\ pipe' = pipe /\ step[t][s] \in {"Pending", "Running"} /\ TaskInv(t)
            /\ \A r \in Steps \ {s} : step'[t][r] = step[t][r]
        BY <1>1, <2>5, <3>1
      <4> QED
        BY <1>2, <4>1, EndWaits
    <3>12. EndFollowsSteps(t)'
      <4>1. Ending(t, FALSE)' => AllFinished(t)' /\ task'[t] \notin {"Finished", "Failed"}
        <5>1. ASSUME d.kind = "finish", d.failed = FALSE
              PROVE  AllFinished(t)' /\ task'[t] \notin {"Finished", "Failed"}
          <6>1. AllFinished(t)'
            BY <2>3, <3>1, <5>1 DEF AllFinished, IsCompleted
          <6> QED
            BY <1>1, <3>11, <6>1
        <5> QED
          BY <3>6, <3>11, <5>1
      <4>2. Ending(t, TRUE)' => SomeFailed(t)'
        <5>1. Ending(t, TRUE) => SomeFailed(t)'
          BY <3>1, <3>11 DEF TaskInv, EndFollowsSteps
        <5>2. ASSUME d.kind = "finish", d.failed = TRUE PROVE SomeFailed(t)'
          BY <1>2, <2>3, <2>5, <3>1, <5>2 DEF SomeFailed
        <5> QED
          BY <3>6, <5>1, <5>2
      <4> QED
        BY <1>1, <3>11, <4>1, <4>2 DEF EndFollowsSteps
    <3>13. StepPlaces(t, s)'
      BY <1>1, <2>4, <2>5, <3>1, <3>2, <3>5, <3>7 DEF StepPlaces, StepKinds
    <3>14. ChildrenWait(t, s)'
      <4>1. Queued("next", t, s)' => status = "Finished"
        BY <2>3, <3>5 DEF StepKinds
      <4> QED
        BY <1>1, <2>4, <2>5, <3>10, <4>1 DEF ChildrenWait, Children, Steps
    <3>15. \A i \in DOMAIN loop : i # 1 => ~Clash(loop[i], d)
      <4>1. CASE d.kind = "next"
        BY <1>1, <2>2, <2>3, <4>1, OneFollows DEF StepKinds
      <4>2. CASE d.kind = "finish"
        BY <2>2, <3>10, <3>11, <4>2
           DEF Clash, Starting, HasStart, Ending, HasEnd, StepKinds
      <4> QED
        BY <2>3, <4>1, <4>2
    <3> QED
      BY <3>1, <3>10, <3>12, <3>13, <3>14, <3>15 DEF TaskInv
  <2> QED
    BY <1>1, <1>2, <2>1, <2>2, <2>5, <2>6, SleepStays, HeadStepsOne
<1> QED
  BY <1>3, <1>4

\* The steps after one that is done are launched.
LEMMA StepsNext ==
    ASSUME PipelineAssumption, TypeInv, StepInv, Next1
    PROVE  StepInv'
<1> PICK c : c = Head(loop)
  OBVIOUS
<1> PICK t : t = c.task
  OBVIOUS
<1> PICK s : s = c.step
  OBVIOUS
<1>1. /\ loop # <<>> /\ c.kind = "next" /\ c.kind \in StepKinds
      /\ UNCHANGED <<pipe, rowVars, sleeping, sends, kafkaVars, repeated>>
      /\ Steps' = Steps /\ \A r : Children(r)' = Children(r)
  BY DEF Next1, Head1, StepKinds, Steps, Children
<1>2. t \in Task /\ s \in Steps /\ Queued("next", t, s) /\ c.outcome \in AnswerKinds
  BY <1>1, HeadKnown, HeadQueued DEF TypeInv
<1>3. CASE t \notin Rows
  <2>1. Ran(<<>>)
    BY <1>3 DEF Next1
  <2>2. t \in Single => TaskInv(t)'
    BY <1>1, <2>1, HeadLeaves DEF rowVars
  <2> QED
    BY <1>1, <1>2, <2>1, <2>2, SleepStays, HeadStepsNone DEF rowVars
<1>4. CASE t \in Rows
  <2> DEFINE m == Cardinality(Children(s))
  <2>1. PICK q \in [1 .. m -> Children(s)] :
            /\ \A i, j \in DOMAIN q : i # j => q[i] # q[j]
            /\ Ran([i \in DOMAIN q |-> LaunchStep(t, q[i], c.outcome = "result")])
    BY <1>4 DEF Next1
  <2>2. m \in Nat /\ Children(s) \subseteq Steps
    BY PipeFacts, FS_CardinalityType DEF TypeInv
  <2> PICK new : new = [i \in DOMAIN q |-> LaunchStep(t, q[i], c.outcome = "result")]
    OBVIOUS
  <2>3. \A i \in 1 .. m : /\ new[i] \in KnownCoroutine /\ new[i].task = t
                          /\ new[i].kind = "launch" /\ new[i].step = q[i]
    <3>1. \A i \in 1 .. m : new[i] = LaunchStep(t, q[i], c.outcome = "result")
      BY <2>1
    <3> QED
      BY <1>2, <2>1, <2>2, <3>1, KnownMade DEF TypeInv, LaunchStep
  <2>4. new \in Seq(KnownCoroutine) /\ DOMAIN new = 1 .. m /\ DOMAIN q = 1 .. m
    <3>1. new = [i \in 1 .. m |-> new[i]] /\ DOMAIN new = 1 .. m
      BY <2>1
    <3> QED
      BY <2>1, <2>2, <2>3, <3>1, IsASeq
  <2>5. Ran(new)
    BY <2>1
  <2> HIDE DEF m
  <2>6. /\ \A k, r : Has(new, k, t, r) => k = "launch" /\ r \in Children(s)
        /\ ~HasStart(new, t) /\ \A f : ~HasEnd(new, t, f)
    BY <2>1, <2>3, <2>4 DEF Has, HasStart, HasEnd
  <2>7. ASSUME t \in Single
        PROVE  /\ TaskInv(t)'
               /\ \A i \in DOMAIN loop, n \in DOMAIN new : i # 1 => ~Clash(loop[i], new[n])
               /\ \A i, n \in DOMAIN new : i # n => ~Clash(new[i], new[n])
    <3>1. /\ TaskInv(t) /\ step[t][s] = "Finished" /\ step'[t] = step[t] /\ task'[t] = task[t]
          /\ \A r \in Children(s) : Untouched(t, r)
      BY <1>1, <1>2, <2>7 DEF StepInv, TaskInv, ChildrenWait, rowVars
    <3>2. QueueGrows(new) /\ \A k \in StepKinds : Queued(k, t, s)' => Has(new, k, t, s)
      BY <1>1, <2>4, <2>5, <2>7, HeadMoves
    <3>3. /\ \A k \in StepKinds, r \in Steps :
                 Queued(k, t, r)' => Queued(k, t, r) \/ (k = "launch" /\ r \in Children(s))
          /\ Starting(t)' => Starting(t)
          /\ \A f \in BOOLEAN : Ending(t, f)' => Ending(t, f)
          /\ ~Queued("next", t, s)'
      <4>1. \A k \in StepKinds, r \in Steps :
                Queued(k, t, r)' => Queued(k, t, r) \/ (k = "launch" /\ r \in Children(s))
        BY <2>6, <3>2 DEF QueueGrows
      <4>2. Starting(t)' => Starting(t)
        BY <2>6, <3>2 DEF QueueGrows
      <4>3. \A f : Ending(t, f)' => Ending(t, f)
        BY <2>6, <3>2 DEF QueueGrows
      <4>4. "next" \in StepKinds /\ ~Has(new, "next", t, s)
        BY <2>6 DEF StepKinds
      <4> QED
        BY <3>2, <4>1, <4>2, <4>3, <4>4
    <3>4. /\ \A r : Unread(t, r)' <=> Unread(t, r)
          /\ Answered(t)' = Answered(t) /\ units' = units /\ sends' = sends
      BY <1>1, KafkaStays DEF kafkaVars
    <3>5. ~Starting(t) /\ ~Asleep(t) /\ task[t] # "absent"
      <4>1. ~Untouched(t, s)
        BY <3>1 DEF Untouched
      <4> QED
        BY <1>2, <3>1, <4>1 DEF TaskInv, NothingBefore
    <3>6. NothingBefore(t)'
      BY <1>1, <3>1, <3>3, <3>5 DEF NothingBefore, Asleep
    <3>7. EndFollowsSteps(t)'
      BY <1>1, <3>1, <3>3, ZenonT(30) DEF TaskInv, EndFollowsSteps, AllFinished, SomeFailed
    <3>8. ASSUME NEW r \in Steps PROVE StepPlaces(t, r)'
      <4>1. StepPlaces(t, r)
        BY <3>1 DEF TaskInv
      <4>2. Queued("launch", t, r)' =>
                /\ step'[t][r] = "Pending"
                /\ pipe.parent[r] = r \/ step'[t][pipe.parent[r]] = "Finished"
        <5>1. CASE r \in Children(s)
          BY <3>1, <5>1 DEF Untouched, Children
        <5>2. CASE r \notin Children(s)
          BY <3>1, <3>3, <4>1, <5>2 DEF StepPlaces, StepKinds
        <5> QED
          BY <5>1, <5>2
      <4>3. /\ Queued("execute", t, r)' => Queued("execute", t, r)
            /\ Queued("process", t, r)' => Queued("process", t, r)
        BY <3>3 DEF StepKinds
      <4> QED
        BY <1>1, <3>1, <3>4, <4>1, <4>2, <4>3 DEF StepPlaces
    <3>9. ASSUME NEW r \in Steps PROVE ChildrenWait(t, r)'
      <4>1. CASE r = s
        BY <1>1, <3>1, <3>3, <4>1 DEF ChildrenWait
      <4>2. CASE r # s
        <5>1. Children(r) \cap Children(s) = {} /\ Children(r) \subseteq Steps
          BY <4>2 DEF Children
        <5>2. \A x \in Children(r) : Untouched(t, x) => Untouched(t, x)'
          BY <3>1, <3>3, <5>1 DEF Untouched, StepKinds
        <5>3. ChildrenWait(t, r) /\ (Queued("next", t, r)' => Queued("next", t, r))
          BY <3>1, <3>3 DEF TaskInv, StepKinds
        <5> QED
          BY <1>1, <3>1, <5>2, <5>3 DEF ChildrenWait
      <4> QED
        BY <4>1, <4>2
    <3>10. ASSUME NEW i \in DOMAIN loop, NEW n \in DOMAIN new PROVE ~Clash(loop[i], new[n])
      <4>1. new[n].step \in Children(s) /\ new[n].kind = "launch" /\ new[n].task = t
        BY <2>1, <2>3, <2>4
      <4>2. \A k \in StepKinds : ~Queued(k, t, new[n].step)
        BY <1>2, <2>2, <3>1, <4>1, NothingQueued DEF TypeInv
      <4> QED
        BY <3>5, <4>1, <4>2 DEF Clash, Queued, Has, Starting, HasStart
    <3>11. ASSUME NEW i \in DOMAIN new, NEW n \in DOMAIN new, i # n
           PROVE  ~Clash(new[i], new[n])
      BY <2>1, <2>3, <2>4, <3>11 DEF Clash
    <3> QED
      BY <1>1, <3>1, <3>6, <3>7, <3>8, <3>9, <3>10, <3>11 DEF TaskInv
  <2>8. \A n \in DOMAIN new : new[n].task = t
    BY <2>3, <2>4
  <2> QED
    BY <1>1, <1>2, <2>4, <2>5, <2>7, <2>8, SleepStays, HeadSteps DEF rowVars
<1> QED
  BY <1>3, <1>4

\* The coroutine that ends a task runs.
LEMMA StepsRunFinish ==
    ASSUME PipelineAssumption, TypeInv, StepInv, RunFinish
    PROVE  StepInv'
<1> PICK c : c = Head(loop)
  OBVIOUS
<1> PICK t : t = c.task
  OBVIOUS
<1>1. /\ loop # <<>> /\ c.kind = "finish" /\ Finish(t, c.failed) /\ Ran(<<>>)
      /\ UNCHANGED <<pipe, step, sleeping, sends, kafkaVars, repeated>>
      /\ Steps' = Steps
  BY DEF RunFinish, Head1, Steps
<1>2. t \in Task /\ c.failed \in BOOLEAN /\ Ending(t, c.failed)
  BY <1>1, HeadKnown, HeadQueued DEF TypeInv
<1>3. /\ \A u \in Task \ {t} : task'[u] = task[u]
      /\ task'[t] = "absent" <=> task[t] = "absent"
      /\ task'[t] = "deleted" <=> task[t] = "deleted"
      /\ task'[t] \in {task[t], "Failed", "Finished"}
      /\ task'[t] = "Finished" => task[t] = "Finished" \/ ~c.failed
  BY <1>1, <1>2, FinishEnds
<1>4. ASSUME t \in Single PROVE TaskInv(t)'
  <2>1. TaskInv(t)
    BY <1>4 DEF StepInv
  <2>2. QueueGrows(<<>>)
    BY <1>1, HasNone, RanGrows DEF TypeInv, LoopOK
  <2>3. LeavesQueue(t)
    BY <2>2, HasNone, QueueLeaves
  <2>4. LeavesKafka(t)
    BY <1>1, KafkaStays DEF LeavesKafka, kafkaVars
  <2>5. AllFinished(t) \/ SomeFailed(t)
    BY <1>2, <2>1, Zenon DEF TaskInv, EndFollowsSteps
  <2>6. /\ AllFinished(t) => ~SomeFailed(t)
        /\ pipe.top \in Steps
    BY PipeFacts DEF AllFinished, SomeFailed, TypeInv
  <2>7. ~Starting(t) /\ ~Asleep(t)
    BY <2>1, <2>5, <2>6 DEF TaskInv, NothingBefore, Untouched, AllFinished, SomeFailed
  <2>8. c.failed = FALSE => ~Ending(t, FALSE)'
    BY <1>1, <1>4, HasNone, HeadAlone DEF TypeInv, LoopOK, StepInv
  <2>9. EndFollowsSteps(t)'
    <3>1. (AllFinished(t)' <=> AllFinished(t)) /\ (SomeFailed(t)' <=> SomeFailed(t))
      BY <1>1 DEF AllFinished, SomeFailed
    <3>2. /\ Ending(t, FALSE)' => Ending(t, FALSE)
          /\ Ending(t, TRUE)' => Ending(t, TRUE)
      BY <2>3 DEF LeavesQueue
    <3>3. CASE c.failed = FALSE
      <4>1. AllFinished(t)
        BY <1>2, <2>1, <3>3, Zenon DEF TaskInv, EndFollowsSteps
      <4>2. ~Ending(t, TRUE)
        BY <2>1, <2>6, <4>1 DEF TaskInv, EndFollowsSteps
      <4> QED
        BY <2>8, <3>1, <3>2, <3>3, <4>1, <4>2 DEF EndFollowsSteps
    <3>4. CASE c.failed = TRUE
      <4>1. SomeFailed(t)
        BY <1>2, <2>1, <3>4, Zenon DEF TaskInv, EndFollowsSteps
      <4>2. task[t] # "Finished" /\ ~Ending(t, FALSE)
        BY <2>1, <2>6, <4>1 DEF TaskInv, EndFollowsSteps
      <4> QED
        BY <1>3, <3>1, <3>2, <3>4, <4>1, <4>2 DEF EndFollowsSteps
    <3> QED
      BY <1>2, <3>3, <3>4
  <2>10. NothingBefore(t)'
    <3>1. ~Starting(t)' /\ ~Asleep(t)'
      BY <1>1, <2>3, <2>7 DEF LeavesQueue, Asleep
    <3>2. task[t] # "absent"
      BY <2>1, <2>5, <2>6 DEF TaskInv, NothingBefore, Untouched, AllFinished, SomeFailed
    <3> QED
      BY <1>3, <3>1, <3>2 DEF NothingBefore, Asleep
  <2>11. ASSUME NEW s \in Steps PROVE StepPlaces(t, s)' /\ ChildrenWait(t, s)'
    <3>1. StepPlaces(t, s) /\ ChildrenWait(t, s) /\ Children(s) \subseteq Steps
          /\ Children(s)' = Children(s)
      BY <1>1, <2>1 DEF TaskInv, Children, Steps
    <3>2. /\ \A k \in StepKinds, r \in Steps : Queued(k, t, r)' => Queued(k, t, r)
          /\ <<t, s>> \in sends' => <<t, s>> \in sends
          /\ <<t, s>> \in units' => <<t, s>> \in units
          /\ Unread(t, s)' => Unread(t, s)
          /\ Answered(t)' = Answered(t) /\ step'[t] = step[t]
      BY <1>1, <2>3, <2>4 DEF LeavesQueue, LeavesKafka
    <3>3. StepPlaces(t, s)'
      BY <1>1, <3>1, <3>2 DEF StepPlaces, StepKinds
    <3>4. ChildrenWait(t, s)'
      BY <1>1, <3>1, <3>2 DEF ChildrenWait, StepKinds, Untouched
    <3> QED
      BY <3>3, <3>4
  <2> QED
    BY <1>1, <2>9, <2>10, <2>11 DEF TaskInv
<1> QED
  BY <1>1, <1>2, <1>3, <1>4, SleepStays, HeadStepsNone

\* A task of which no step was begun is still well when its first step is queued, or when
\* all of its steps failed.
LEMMA TaskEarly ==
    ASSUME PipelineAssumption, RowsOK, NEW t \in Task, TaskInv(t), pipe' = pipe,
           \A s \in Steps : Untouched(t, s), LeavesKafka(t),
           \A k \in StepKinds, s \in Steps :
               Queued(k, t, s)' => k = "launch" /\ s = pipe.top /\ step'[t] = step[t],
           ~Ending(t, FALSE)', ~Ending(t, TRUE)', ~Starting(t)', ~Asleep(t)',
           task'[t] \notin {"absent", "Finished"},
           \/ step'[t] = step[t] /\ task'[t] # "Failed"
           \/ \A s \in Steps : step'[t][s] = "Failed"
    PROVE  TaskInv(t)'
<1>1. Steps' = Steps /\ (\A s : Children(s)' = Children(s))
  BY DEF Steps, Children
<1>2. pipe.top \in Steps /\ pipe.parent[pipe.top] = pipe.top
  BY PipeFacts
<1>3. NothingBefore(t)'
  BY DEF NothingBefore, Asleep
<1>4. EndFollowsSteps(t)'
  BY <1>1, <1>2 DEF EndFollowsSteps, SomeFailed
<1>5. \A s \in Steps : step[t][s] = "Pending"
  BY DEF Untouched
<1>6. ASSUME NEW s \in Steps PROVE StepPlaces(t, s)'
  <2>1. <<t, s>> \notin sends' \cup units' /\ s \notin Answered(t)' /\ ~Unread(t, s)'
    BY NothingQueued DEF LeavesKafka
  <2>2. ~Queued("execute", t, s)' /\ ~Queued("process", t, s)'
    BY DEF StepKinds
  <2>3. Queued("launch", t, s)' =>
            step'[t][s] = "Pending" /\ pipe.parent[s] = s
    BY <1>2, <1>5 DEF StepKinds
  <2> QED
    BY <2>1, <2>2, <2>3 DEF StepPlaces
<1>7. ASSUME NEW s \in Steps PROVE ChildrenWait(t, s)'
  <2>1. ~Queued("next", t, s)'
    BY DEF StepKinds
  <2>2. \A c \in Children(s) : c \in Steps /\ c # pipe.top
    BY <1>2 DEF Children
  <2>3. \A c \in Children(s) : ~Queued("launch", t, c)'
    BY <2>2 DEF StepKinds
  <2>4. step'[t] = step[t] => \A c \in Children(s) : Untouched(t, c)'
    BY <1>5, <2>2, <2>3 DEF Untouched
  <2> QED
    BY <1>1, <2>1, <2>4 DEF ChildrenWait
<1> QED
  BY <1>1, <1>3, <1>4, <1>6, <1>7 DEF TaskInv

\* So is one that is to start.
LEMMA TaskStarts ==
    ASSUME PipelineAssumption, RowsOK, NEW t \in Task, TaskInv(t), pipe' = pipe,
           \A s \in Steps : Untouched(t, s), LeavesKafka(t),
           \A k \in StepKinds, s \in Steps : ~Queued(k, t, s)',
           ~Ending(t, FALSE)', ~Ending(t, TRUE)', step'[t] = step[t],
           task'[t] \in {"Pending", "deleted"}, ~(Starting(t)' /\ Asleep(t)'),
           \A v, w \in sleeping' : v.task = t /\ w.task = t => v = w
    PROVE  TaskInv(t)'
<1>1. Steps' = Steps /\ (\A s : Children(s)' = Children(s))
  BY DEF Steps, Children
<1>2. \A s \in Steps : step'[t][s] = "Pending" /\ Untouched(t, s)'
  BY DEF Untouched, StepKinds
<1>3. NothingBefore(t)'
  BY <1>1, <1>2 DEF NothingBefore, Asleep
<1>4. EndFollowsSteps(t)'
  BY DEF EndFollowsSteps
<1>5. ASSUME NEW s \in Steps PROVE StepPlaces(t, s)'
  <2>1. <<t, s>> \notin sends' \cup units' /\ s \notin Answered(t)' /\ ~Unread(t, s)'
    BY NothingQueued DEF LeavesKafka
  <2>2. ~Queued("launch", t, s)' /\ ~Queued("execute", t, s)' /\ ~Queued("process", t, s)'
    BY DEF StepKinds
  <2> QED
    BY <2>1, <2>2 DEF StepPlaces
<1>6. ASSUME NEW s \in Steps PROVE ChildrenWait(t, s)'
  BY <1>1, <1>2 DEF ChildrenWait, StepKinds, Children
<1> QED
  BY <1>1, <1>3, <1>4, <1>5, <1>6 DEF TaskInv

\* What a file that cannot be used does to its task.
LEMMA UnusableRows ==
    ASSUME PipelineAssumption, TypeInv, NEW t \in Task, FileUnusable(t),
           task[t] \in {"Pending", "deleted"}
    PROVE  /\ \A u \in Task \ {t} : task'[u] = task[u] /\ step'[u] = step[u]
           /\ task'[t] \notin {"absent", "Finished"}
           /\ \/ step'[t] = step[t] /\ task'[t] # "Failed"
              \/ \A s \in Steps : step'[t][s] = "Failed"
           /\ t \in Rows => \A s \in Steps : step'[t][s] = "Failed"
<1>1. Finish(t, TRUE)
  BY DEF FileUnusable
<1>2. /\ \A u \in Task \ {t} : task'[u] = task[u]
      /\ task'[t] = task[t] \/ (t \in Rows /\ task'[t] = "Failed")
  BY <1>1, FinishEnds
<1> QED
  BY <1>2, FileUnusableTypes DEF TypeInv

\* A task starts, or sees that its file is not ready.
LEMMA StepsStart ==
    ASSUME PipelineAssumption, TypeInv, StepInv, Start
    PROVE  StepInv'
<1> PICK c : c = Head(loop)
  OBVIOUS
<1> PICK t : t = c.task
  OBVIOUS
<1> PICK w : w = [task |-> t, retry |-> c.retry]
  OBVIOUS
<1>1. /\ loop # <<>> /\ c.kind = "start"
      /\ UNCHANGED <<pipe, sends, kafkaVars, repeated>>
      /\ \/ Started(t)
         \/ sleeping' = sleeping \cup {w} /\ Ran(<<>>) /\ UNCHANGED rowVars
         \/ FileUnusable(t) /\ Ran(<<>>) /\ UNCHANGED sleeping
  BY DEF Start, Head1
<1>2. t \in Task /\ Starting(t)
  BY <1>1, HeadKnown, HeadQueued DEF TypeInv
<1>3. LeavesKafka(t)
  BY <1>1, KafkaStays DEF LeavesKafka, kafkaVars
<1>4. ASSUME t \in Single
      PROVE  /\ TaskInv(t) /\ (\A s \in Steps : Untouched(t, s)) /\ ~Asleep(t)
             /\ task[t] \in {"Pending", "deleted"}
  BY <1>2, <1>4 DEF StepInv, TaskInv, NothingBefore
<1>5. ASSUME t \in Single, NEW new \in Seq(KnownCoroutine), Ran(new)
      PROVE  /\ \A k, s : Queued(k, t, s)' => Has(new, k, t, s)
             /\ Starting(t)' => HasStart(new, t)
             /\ \A f : Ending(t, f)' => HasEnd(new, t, f)
  BY <1>1, <1>5, HeadAlone DEF TypeInv, LoopOK, StepInv
<1>6. ASSUME t \in Single, Ran(<<>>)
      PROVE  /\ \A k \in StepKinds, s \in Steps : ~Queued(k, t, s)'
             /\ ~Starting(t)' /\ ~Ending(t, FALSE)' /\ ~Ending(t, TRUE)'
  BY <1>5, <1>6, HasNone
<1>7. CASE Started(t)
  <2>1. /\ task' = ChangeStatus(t, "Running") /\ UNCHANGED <<step, sleeping>>
        /\ Ran(<<>>) \/ Ran(<<LaunchStep(t, pipe.top, TRUE)>>)
    BY <1>7 DEF Started
  <2>2. "Running" \in Status /\ pipe.top \in Steps
    BY PipeFacts DEF Status, TypeInv
  <2>3. /\ \A u \in Task \ {t} : task'[u] = task[u]
        /\ t \in Rows => task'[t] = "Running"
        /\ t \notin Rows => task'[t] = task[t]
    <3>1. RowsOK
      BY DEF TypeInv
    <3> QED
      BY <1>2, <2>1, <2>2, <3>1, ChangeStatusType
  <2>4. t \in Single => task'[t] \notin {"absent", "Finished", "Failed"}
    BY <1>4, <2>3
  <2>5. CASE Ran(<<>>)
    <3>1. ASSUME t \in Single PROVE TaskInv(t)'
      <4>1. ~Asleep(t)'
        BY <1>4, <2>1, <3>1 DEF Asleep
      <4> QED
        BY <1>1, <1>2, <1>3, <1>4, <1>6, <2>1, <2>4, <2>5, <3>1, <4>1, TaskEarly DEF TypeInv
    <3> QED
      BY <1>1, <1>2, <2>1, <2>3, <2>5, <3>1, SleepStays, HeadStepsNone
  <2>6. CASE Ran(<<LaunchStep(t, pipe.top, TRUE)>>)
    <3> PICK d : d = LaunchStep(t, pipe.top, TRUE)
      OBVIOUS
    <3>1. d \in KnownCoroutine
      BY <1>2, <2>2, KnownMade DEF TypeInv
    <3>2. d.task = t /\ d.kind = "launch" /\ d.step = pipe.top
      BY DEF LaunchStep
    <3>3. Ran(<<d>>)
      BY <2>6
    <3>4. /\ <<d>> \in Seq(KnownCoroutine)
          /\ \A k, s : Has(<<d>>, k, t, s) => d.kind = k /\ d.step = s
          /\ HasStart(<<d>>, t) => d.kind = "start"
          /\ \A f : HasEnd(<<d>>, t, f) => d.kind = "finish"
      <4>1. /\ <<d>> \in Seq(KnownCoroutine)
            /\ \A k, x, s : Has(<<d>>, k, x, s) => d.kind = k /\ d.task = x /\ d.step = s
            /\ \A x : HasStart(<<d>>, x) => d.kind = "start" /\ d.task = x
            /\ \A x, f : HasEnd(<<d>>, x, f) =>
                             d.kind = "finish" /\ d.task = x /\ d.failed = f
        BY <3>1, OneKnown
      <4> QED
        BY <4>1
    <3>5. ASSUME t \in Single PROVE TaskInv(t)'
      <4>1. ~Asleep(t)'
        BY <1>4, <2>1, <3>5 DEF Asleep
      <4>2. /\ \A k \in StepKinds, s \in Steps : Queued(k, t, s)' => k = "launch" /\ s = pipe.top
            /\ ~Starting(t)' /\ ~Ending(t, FALSE)' /\ ~Ending(t, TRUE)'
        BY <1>5, <3>2, <3>3, <3>4, <3>5
      <4> QED
        BY <1>1, <1>2, <1>3, <1>4, <2>1, <2>4, <3>5, <4>1, <4>2, TaskEarly DEF TypeInv
    <3>6. ASSUME t \in Single, NEW i \in DOMAIN loop, i # 1 PROVE ~Clash(loop[i], d)
      <4>1. ~Clash(loop[1], loop[i]) /\ loop[1] = c
        BY <1>1, <3>6, HeadQueued DEF StepInv, QueuedOnce
      <4> QED
        BY <1>1, <3>2, <4>1 DEF Clash
    <3> QED
      BY <1>1, <1>2, <2>1, <2>3, <3>1, <3>2, <3>3, <3>5, <3>6, SleepStays, HeadStepsOne
  <2> QED
    BY <2>1, <2>5, <2>6
<1>8. CASE sleeping' = sleeping \cup {w} /\ Ran(<<>>) /\ UNCHANGED rowVars
  <2>1. ASSUME t \in Single PROVE TaskInv(t)'
    <3>1. \A v, x \in sleeping' : v.task = t /\ x.task = t => v = x
      BY <1>4, <1>8, <2>1 DEF Asleep
    <3> QED
      BY <1>1, <1>2, <1>3, <1>4, <1>6, <1>8, <2>1, <3>1, TaskStarts DEF TypeInv, rowVars
  <2>2. \A u \in Task \ {t} : LeavesSleep(u)
    BY <1>8 DEF LeavesSleep
  <2> QED
    BY <1>1, <1>2, <1>8, <2>1, <2>2, HeadStepsNone DEF rowVars
<1>9. CASE FileUnusable(t) /\ Ran(<<>>) /\ UNCHANGED sleeping
  <2>1. \A u \in Task \ {t} : task'[u] = task[u] /\ step'[u] = step[u]
    <3>1. Finish(t, TRUE)
      BY <1>9 DEF FileUnusable
    <3>2. \A u \in Task \ {t} : task'[u] = task[u]
      BY <1>2, <3>1, FinishEnds
    <3>3. \A u \in Task \ {t} : step'[u] = step[u]
      BY <1>2, <1>9, FileUnusableTypes DEF TypeInv
    <3> QED
      BY <3>2, <3>3
  <2>2. ASSUME t \in Single PROVE TaskInv(t)'
    <3>1. ~Asleep(t)'
      BY <1>4, <1>9, <2>2 DEF Asleep
    <3>2. /\ task'[t] \notin {"absent", "Finished"}
          /\ \/ step'[t] = step[t] /\ task'[t] # "Failed"
             \/ \A s \in Steps : step'[t][s] = "Failed"
      BY <1>2, <1>4, <1>9, <2>2, UnusableRows
    <3> QED
      BY <1>1, <1>2, <1>3, <1>4, <1>6, <1>9, <2>2, <3>1, <3>2, TaskEarly DEF TypeInv
  <2> QED
    BY <1>1, <1>2, <1>9, <2>1, <2>2, SleepStays, HeadStepsNone
<1> QED
  BY <1>1, <1>7, <1>8, <1>9

\* A coroutine that is put at the end of the queue.
LEMMA AppendedOne ==
    ASSUME TypeInv, StepInv, NEW d \in KnownCoroutine, loop' = Append(loop, d)
    PROVE  /\ \A k \in StepKinds : \A t, s :
                  Queued(k, t, s)' =>
                      Queued(k, t, s) \/ (d.kind = k /\ d.task = t /\ d.step = s)
           /\ \A t : Starting(t)' => Starting(t) \/ (d.kind = "start" /\ d.task = t)
           /\ \A t, f : Ending(t, f)' => Ending(t, f) \/ (d.kind = "finish" /\ d.task = t)
           /\ (repeated' = repeated /\ \A i \in DOMAIN loop : ~Clash(loop[i], d)) =>
                  QueuedOnce'
<1> PICK new : new = <<d>>
  OBVIOUS
<1>1. /\ new \in Seq(KnownCoroutine) /\ DOMAIN new = {1} /\ new[1] = d
      /\ loop \in Seq(KnownCoroutine)
  BY HasOne DEF TypeInv, LoopOK
<1>2. loop' = loop \o new
  BY <1>1, AppendIsConcat
<1>3. /\ \A k, t, s : Has(new, k, t, s) => d.kind = k /\ d.task = t /\ d.step = s
      /\ \A t : HasStart(new, t) => d.kind = "start" /\ d.task = t
      /\ \A t, f : HasEnd(new, t, f) => d.kind = "finish" /\ d.task = t
  BY <1>1 DEF Has, HasStart, HasEnd
<1>4. QueueGrows(new)
  BY <1>1, <1>2, AddedGrows
<1>5. ASSUME repeated' = repeated, \A i \in DOMAIN loop : ~Clash(loop[i], d)
      PROVE  QueuedOnce'
  <2>1. /\ \A i \in DOMAIN loop, n \in DOMAIN new : ~Clash(loop[i], new[n])
        /\ \A m, n \in DOMAIN new : m # n => ~Clash(new[m], new[n])
    BY <1>1, <1>5
  <2> QED
    BY <1>1, <1>2, <1>5, <2>1, AddedOnce DEF StepInv
<1> QED
  BY <1>3, <1>4, <1>5 DEF QueueGrows

\* A step of the system that leaves every task alone keeps the invariant.
LEMMA AllLeft ==
    ASSUME StepInv, pipe' = pipe, repeated' = repeated, QueuedOnce', AnsweredOnce',
           \A u \in Single : Leaves(u)
    PROVE  StepInv'
<1>1. Single' = Single
  BY DEF Single
<1>2. \A u \in Single : TaskInv(u)'
  BY TaskFrame DEF StepInv, Single
<1> QED
  BY <1>1, <1>2 DEF StepInv

\* Another look at the file, or one too many.
LEMMA StepsWake ==
    ASSUME PipelineAssumption, TypeInv, StepInv, NEW w \in sleeping, Wake(w)
    PROVE  StepInv'
<1> PICK t : t = w.task
  OBVIOUS
<1>1. /\ t \in Task /\ w.retry \in 1 .. MaxRetries /\ sleeping' = sleeping \ {w}
      /\ UNCHANGED <<pipe, sends, kafkaVars, repeated, answers>>
      /\ Single' = Single
  BY DEF Wake, TypeInv, LoopOK, kafkaVars, Single
<1>2. \A u : LeavesSleep(u)
  BY <1>1 DEF LeavesSleep
<1>3. \A u : LeavesKafka(u)
  BY <1>1, KafkaStays DEF LeavesKafka, kafkaVars
<1>4. ASSUME t \in Single
      PROVE  /\ TaskInv(t) /\ (\A s \in Steps : Untouched(t, s)) /\ ~Starting(t)
             /\ task[t] \in {"Pending", "deleted"} /\ ~Asleep(t)'
             /\ \A k \in StepKinds, s \in Steps : ~Queued(k, t, s)
             /\ ~Ending(t, FALSE) /\ ~Ending(t, TRUE)
  <2>1. Asleep(t) /\ TaskInv(t)
    BY <1>4 DEF Asleep, StepInv
  <2>2. /\ \A s \in Steps : Untouched(t, s)
        /\ task[t] \in {"Pending", "deleted"} /\ ~Starting(t)
    BY <2>1 DEF TaskInv, NothingBefore
  <2>3. ~Asleep(t)'
    BY <1>1, <2>1 DEF TaskInv, NothingBefore, Asleep
  <2> QED
    BY <1>1, <2>1, <2>2, <2>3, NothingQueued DEF TypeInv
<1>5. AnsweredOnce'
  BY <1>1 DEF StepInv, AnsweredOnce
<1>6. CASE w.retry < MaxRetries
  <2> PICK d : d = [StartTask(t) EXCEPT !.retry = w.retry + 1]
    OBVIOUS
  <2>1. loop' = Append(loop, d) /\ UNCHANGED rowVars
    BY <1>6 DEF Wake
  <2>2. d \in KnownCoroutine /\ d.kind = "start" /\ d.task = t
    <3>1. w.retry + 1 \in 1 .. MaxRetries
      BY <1>1, <1>6 DEF PipelineAssumption
    <3>2. d \in KnownCoroutine
      BY <1>1, <3>1, KnownMade DEF TypeInv
    <3> QED
      BY <3>2 DEF StartTask
  <2>3. /\ \A k \in StepKinds : \A u, s : Queued(k, u, s)' => Queued(k, u, s)
        /\ \A u : Starting(u)' => Starting(u) \/ u = t
        /\ \A u, f : Ending(u, f)' => Ending(u, f)
        /\ (\A i \in DOMAIN loop : ~Clash(loop[i], d)) => QueuedOnce'
    BY <1>1, <2>1, <2>2, AppendedOne DEF StepKinds
  <2>4. ASSUME NEW u \in Single, u # t PROVE Leaves(u)
    BY <1>2, <1>3, <2>1, <2>3, <2>4 DEF Leaves, LeavesQueue, rowVars
  <2>5. ASSUME t \in Single
        PROVE  TaskInv(t)' /\ \A i \in DOMAIN loop : ~Clash(loop[i], d)
    <3>1. TaskInv(t)'
      BY <1>1, <1>3, <1>4, <2>1, <2>3, <2>5, TaskStarts DEF TypeInv, rowVars, Asleep
    <3>2. ASSUME NEW i \in DOMAIN loop PROVE ~Clash(loop[i], d)
      <4>1. /\ loop[i] \in KnownCoroutine
            /\ loop[i].kind \in {"start", "finish"} \cup StepKinds
            /\ loop[i].kind \in StepKinds => loop[i].step \in Steps
            /\ loop[i].kind = "finish" => loop[i].failed \in BOOLEAN
        BY ElementOfSeq, LenProperties, CoroutineFields DEF TypeInv, LoopOK, KnownCoroutine
      <4>2. CASE loop[i].kind = "start"
        BY <1>4, <2>2, <2>5, <4>2 DEF Clash, Starting, HasStart
      <4>3. CASE loop[i].kind \in StepKinds
        BY <1>4, <2>2, <2>5, <4>1, <4>3 DEF Clash, Queued, Has
      <4>4. CASE loop[i].kind = "finish"
        <5>1. loop[i].failed = TRUE \/ loop[i].failed = FALSE
          BY <4>1, <4>4
        <5> QED
          BY <1>4, <2>2, <2>5, <4>4, <5>1 DEF Clash, Ending, HasEnd
      <4> QED
        BY <4>1, <4>2, <4>3, <4>4
    <3> QED
      BY <3>1, <3>2
  <2>6. QueuedOnce'
    <3>1. t \notin Single => \A i \in DOMAIN loop : ~Clash(loop[i], d)
      BY <2>2 DEF Clash
    <3> QED
      BY <2>3, <2>5, <3>1
  <2>7. \A u \in Single : TaskInv(u)'
    BY <1>1, <2>4, <2>5, TaskFrame DEF StepInv, Single
  <2> QED
    BY <1>1, <1>5, <2>6, <2>7 DEF StepInv
<1>7. CASE ~(w.retry < MaxRetries)
  <2>1. loop' = loop /\ (FileUnusable(t) \/ GivesUp)
    BY <1>7 DEF Wake, GivesUp
  <2>2. FileUnusable(t) => Finish(t, TRUE)
    BY DEF FileUnusable
  <2>3. \A u \in Task \ {t} : task'[u] = task[u]
    BY <1>1, <2>1, <2>2, FinishEnds DEF GivesUp, rowVars
  <2>4. \A u \in Task \ {t} : step'[u] = step[u]
    BY <1>1, <2>1, FileUnusableTypes DEF TypeInv, GivesUp, rowVars
  <2>5. /\ \A k, u, s : Queued(k, u, s)' <=> Queued(k, u, s)
        /\ \A u : Starting(u)' <=> Starting(u)
        /\ \A u, f : Ending(u, f)' <=> Ending(u, f)
    BY <2>1 DEF Queued, Starting, Ending
  <2>6. ASSUME NEW u \in Single, u # t PROVE TaskInv(u)'
    <3>1. Leaves(u)
      BY <1>2, <1>3, <2>3, <2>4, <2>5, <2>6 DEF Leaves, LeavesQueue, Single
    <3> QED
      BY <1>1, <2>6, <3>1, TaskFrame DEF StepInv, Single
  <2>7. ASSUME t \in Single PROVE TaskInv(t)'
    <3>1. /\ task'[t] \notin {"absent", "Finished"}
          /\ \/ step'[t] = step[t] /\ task'[t] # "Failed"
             \/ \A s \in Steps : step'[t][s] = "Failed"
      <4>1. CASE FileUnusable(t)
        BY <1>1, <1>4, <2>7, <4>1, UnusableRows
      <4>2. CASE GivesUp
        BY <1>4, <2>7, <4>2 DEF GivesUp, rowVars
      <4> QED
        BY <2>1, <4>1, <4>2
    <3> QED
      BY <1>1, <1>3, <1>4, <2>5, <2>7, <3>1, TaskEarly DEF TypeInv
  <2>8. QueuedOnce'
    BY <1>1, <2>1 DEF StepInv, QueuedOnce, Clash, Single
  <2> QED
    BY <1>1, <1>5, <2>6, <2>7, <2>8 DEF StepInv
<1> QED
  BY <1>6, <1>7

\* Tasks are added: their coroutines follow the rest of the queue.
LEMMA StepsExecute ==
    ASSUME PipelineAssumption, TypeInv, StepInv, NEW ts \in SUBSET Task, Execute(ts)
    PROVE  StepInv'
<1> PICK q \in Ascending(ts) : loop' = loop \o [i \in DOMAIN q |-> StartTask(q[i])]
  BY DEF Execute, InitializeExecution
<1> PICK new : new = [i \in DOMAIN q |-> StartTask(q[i])]
  OBVIOUS
<1>1. /\ UNCHANGED <<pipe, step, sleeping, sends, kafkaVars, repeated>>
      /\ \A t \in ts : task[t] = "absent" /\ t \in pipe.files /\ task'[t] = "Pending"
      /\ \A u \in Task \ ts : task'[u] = task[u]
      /\ Single' = Single /\ loop' = loop \o new
  BY DEF Execute, InitializeExecution, Single
<1>2. Cardinality(ts) \in Nat /\ q \in [1 .. Cardinality(ts) -> ts]
  <2>1. ts \subseteq pipe.files /\ IsFiniteSet(ts)
    BY <1>1, PipeFacts, FS_Subset DEF TypeInv
  <2> QED
    BY <2>1, FS_CardinalityType DEF Ascending
<1>3. /\ DOMAIN new = 1 .. Cardinality(ts) /\ DOMAIN new = DOMAIN q
      /\ \A i \in DOMAIN new : new[i] = StartTask(q[i]) /\ q[i] \in ts /\ q[i] \in Task
  BY <1>2
<1>4. /\ new \in Seq(KnownCoroutine)
      /\ \A i \in DOMAIN new : new[i].kind = "start" /\ new[i].task = q[i] /\ new[i].task \in ts
  <2>1. \A i \in DOMAIN new : new[i] \in KnownCoroutine
    BY <1>3, KnownMade DEF TypeInv
  <2>2. new = [i \in 1 .. Cardinality(ts) |-> new[i]]
    BY <1>3
  <2>3. new \in Seq(KnownCoroutine)
    BY <1>2, <1>3, <2>1, <2>2, IsASeq, SMTT(30)
  <2> QED
    BY <1>3, <2>3 DEF StartTask
<1>5. QueueGrows(new) /\ loop \in Seq(KnownCoroutine)
  BY <1>1, <1>4, AddedGrows DEF TypeInv, LoopOK
<1>6. /\ \A k \in StepKinds : \A t, s : ~Has(new, k, t, s)
      /\ \A t : HasStart(new, t) => t \in ts
      /\ \A t, f : ~HasEnd(new, t, f)
  BY <1>4 DEF Has, HasStart, HasEnd, StepKinds
<1>7. /\ \A k \in StepKinds : \A u, s : Queued(k, u, s)' => Queued(k, u, s)
      /\ \A u : Starting(u)' => Starting(u) \/ u \in ts
      /\ \A u, f : Ending(u, f)' => Ending(u, f)
  BY <1>5, <1>6 DEF QueueGrows
<1>8. \A u : LeavesKafka(u) /\ LeavesSleep(u)
  BY <1>1, KafkaStays, SleepStays DEF LeavesKafka, kafkaVars
<1>9. ASSUME NEW t \in ts, t \in Single
      PROVE  /\ TaskInv(t) /\ (\A s \in Steps : Untouched(t, s)) /\ ~Starting(t) /\ ~Asleep(t)
             /\ \A k \in StepKinds, s \in Steps : ~Queued(k, t, s)
             /\ ~Ending(t, FALSE) /\ ~Ending(t, TRUE)
  <2>1. TaskInv(t) /\ task[t] = "absent" /\ t \in Task
    BY <1>1, <1>9 DEF StepInv
  <2>2. (\A s \in Steps : Untouched(t, s)) /\ ~Starting(t) /\ ~Asleep(t)
    BY <2>1 DEF TaskInv, NothingBefore
  <2> QED
    BY <2>1, <2>2, NothingQueued DEF TypeInv
<1>10. ASSUME NEW t \in Single PROVE TaskInv(t)'
  <2>1. CASE t \in ts
    <3>1. ~Asleep(t)' /\ \A v \in sleeping' : v.task # t
      BY <1>1, <1>9, <1>10, <2>1 DEF Asleep
    <3> QED
      BY <1>1, <1>7, <1>8, <1>9, <1>10, <2>1, <3>1, TaskStarts DEF TypeInv
  <2>2. CASE t \notin ts
    <3>1. Leaves(t)
      BY <1>1, <1>7, <1>8, <1>10, <2>2 DEF Leaves, LeavesQueue, Single
    <3> QED
      BY <1>1, <1>10, <3>1, TaskFrame DEF StepInv, Single
  <2> QED
    BY <2>1, <2>2
<1>11. QueuedOnce'
  <2>1. ASSUME NEW i \in DOMAIN loop, NEW n \in DOMAIN new PROVE ~Clash(loop[i], new[n])
    <3>1. /\ loop[i] \in KnownCoroutine
          /\ loop[i].kind \in {"start", "finish"} \cup StepKinds
          /\ loop[i].kind \in StepKinds => loop[i].step \in Steps
          /\ loop[i].kind = "finish" => loop[i].failed \in BOOLEAN
      BY <1>5, ElementOfSeq, LenProperties, CoroutineFields DEF KnownCoroutine
    <3>2. new[n].task \in ts /\ new[n].kind = "start"
      BY <1>4
    <3>3. SUFFICES ASSUME loop[i].task = new[n].task, new[n].task \in Single PROVE FALSE
      BY DEF Clash
    <3>4. CASE loop[i].kind = "start"
      BY <1>9, <3>2, <3>3, <3>4 DEF Starting, HasStart
    <3>5. CASE loop[i].kind \in StepKinds
      BY <1>9, <3>1, <3>2, <3>3, <3>5 DEF Queued, Has
    <3>6. CASE loop[i].kind = "finish"
      <4>1. loop[i].failed = TRUE \/ loop[i].failed = FALSE
        BY <3>1, <3>6
      <4> QED
        BY <1>9, <3>2, <3>3, <3>6, <4>1 DEF Ending, HasEnd
    <3> QED
      BY <3>1, <3>4, <3>5, <3>6
  <2>2. ASSUME NEW m \in DOMAIN new, NEW n \in DOMAIN new, m # n
        PROVE  ~Clash(new[m], new[n])
    <3>1. m \in Nat /\ n \in Nat /\ q[m] \in Nat /\ q[n] \in Nat
      <4>1. Task \subseteq Nat
        BY DEF PipelineAssumption
      <4>2. q[m] \in Task /\ q[n] \in Task
        BY <1>3
      <4>3. m \in 1 .. Cardinality(ts) /\ n \in 1 .. Cardinality(ts)
        BY <1>3
      <4>4. m \in Nat /\ n \in Nat
        BY <1>2, <4>3
      <4> QED
        BY <4>1, <4>2, <4>4, Zenon
    <3>2. \A i, j \in DOMAIN q : i < j => q[i] < q[j]
      BY DEF Ascending
    <3>3. m < n \/ n < m
      BY <2>2, <3>1
    <3>4. q[m] # q[n]
      BY <1>3, <3>1, <3>2, <3>3
    <3> QED
      BY <1>4, <3>4 DEF Clash
  <2> QED
    BY <1>1, <1>4, <1>5, <2>1, <2>2, AddedOnce DEF StepInv
<1>12. AnsweredOnce'
  BY <1>1 DEF StepInv, AnsweredOnce, kafkaVars
<1> QED
  BY <1>1, <1>10, <1>11, <1>12 DEF StepInv

\* Deleting a task, reading a message, a commit that fails, a process that ends or is
\* started again leave tasks alone.
LEMMA StepsQuiet ==
    ASSUME PipelineAssumption, TypeInv, StepInv,
           (\E t \in Task : DeleteTask(t)) \/ Receive \/ CommitFails \/ Crash \/ Restart
    PROVE  StepInv'
<1>1. /\ UNCHANGED <<pipe, step, units, answers, committed, repeated>>
      /\ \A u \in Task : task'[u] \in {task[u], "deleted"}
      /\ loop' = loop \/ loop' = <<>>
      /\ sends' = sends \/ sends' = {}
      /\ sleeping' = sleeping \/ sleeping' = {}
  BY DEF DeleteTask, Receive, CommitFails, Crash, Restart, rowVars, kafkaVars, TypeInv, RowsOK
<1>2. QueuedOnce' /\ AnsweredOnce' /\ Single' = Single
  <2>1. CASE loop' = loop
    BY <1>1, <2>1 DEF StepInv, QueuedOnce, AnsweredOnce, Clash, Single
  <2>2. CASE loop' = <<>>
    BY <1>1, <2>2, HasNone DEF StepInv, QueuedOnce, AnsweredOnce, Single
  <2> QED
    BY <1>1, <2>1, <2>2
<1>3. ASSUME NEW u \in Single PROVE Leaves(u)
  <2>1. LeavesQueue(u)
    <3>1. CASE loop' = loop
      BY <3>1 DEF LeavesQueue, Queued, Starting, Ending
    <3>2. CASE loop' = <<>>
      BY <3>2, HasNone DEF LeavesQueue, Queued, Starting, Ending
    <3> QED
      BY <1>1, <3>1, <3>2
  <2>2. LeavesKafka(u) /\ LeavesSleep(u)
    BY <1>1, KafkaStays DEF LeavesKafka, LeavesSleep
  <2> QED
    BY <1>1, <1>3, <2>1, <2>2 DEF Leaves, Single
<1> QED
  BY <1>1, <1>2, <1>3, AllLeft

\* The topic with one more answer, m.
LEMMA OneAnswered ==
    ASSUME NEW S, answers \in Seq(S), NEW m \in S, answers' = Append(answers, m),
           committed' = committed, committed \in 0 .. Len(answers)
    PROVE  /\ \A t, s : Unread(t, s)' <=> (Unread(t, s) \/ (m.task = t /\ m.step = s))
           /\ \A t, s : s \in Answered(t)' <=>
                  (s \in Answered(t) \/ (m.task = t /\ m.step = s /\ s \in Step))
           /\ \A t, s : s \in WithResult(t)' <=>
                  \/ s \in WithResult(t)
                  \/ m.task = t /\ m.step = s /\ s \in Step /\ m.outcome = "result"
           /\ \A t : m.task # t => Answered(t)' = Answered(t) /\ WithResult(t)' = WithResult(t)
           /\ \A i \in DOMAIN answers' :
                  \/ i \in DOMAIN answers /\ answers'[i] = answers[i]
                  \/ i = Len(answers) + 1 /\ i \notin DOMAIN answers /\ answers'[i] = m
<1>1. /\ Len(answers) \in Nat /\ DOMAIN answers = 1 .. Len(answers)
      /\ DOMAIN answers' = 1 .. (Len(answers) + 1)
      /\ \A i \in 1 .. Len(answers) : answers'[i] = answers[i]
      /\ answers'[Len(answers) + 1] = m
  BY AppendProperties, LenProperties
<1>2. /\ \A i \in DOMAIN answers : i \in DOMAIN answers' /\ answers'[i] = answers[i]
      /\ \A i \in DOMAIN answers' :
             \/ i \in DOMAIN answers /\ answers'[i] = answers[i]
             \/ i = Len(answers) + 1 /\ i \notin DOMAIN answers /\ answers'[i] = m
      /\ Len(answers) + 1 \in DOMAIN answers' /\ Len(answers) + 1 > committed
  BY <1>1
<1>3. \A t, s : Unread(t, s)' <=> (Unread(t, s) \/ (m.task = t /\ m.step = s))
  BY <1>1, <1>2 DEF Unread
<1>4. \A t, s : s \in Answered(t)' <=>
          (s \in Answered(t) \/ (m.task = t /\ m.step = s /\ s \in Step))
  BY <1>1, <1>2 DEF Answered
<1>5. \A t, s : s \in WithResult(t)' <=>
          \/ s \in WithResult(t)
          \/ m.task = t /\ m.step = s /\ s \in Step /\ m.outcome = "result"
  BY <1>1, <1>2 DEF WithResult
<1>6. \A t : m.task # t => Answered(t)' = Answered(t) /\ WithResult(t)' = WithResult(t)
  <2> SUFFICES ASSUME NEW t, m.task # t
               PROVE  Answered(t)' = Answered(t) /\ WithResult(t)' = WithResult(t)
    OBVIOUS
  <2>1. Answered(t) \subseteq Step /\ Answered(t)' \subseteq Step
        /\ WithResult(t) \subseteq Step /\ WithResult(t)' \subseteq Step
    BY DEF Answered, WithResult
  <2>2. \A s : s \in Answered(t)' <=> s \in Answered(t)
    BY <1>4
  <2>3. \A s : s \in WithResult(t)' <=> s \in WithResult(t)
    BY <1>5
  <2> QED
    BY <2>2, <2>3
<1> QED
  BY <1>2, <1>3, <1>4, <1>5, <1>6

\* The same of a known message.
LEMMA OneMessage ==
    ASSUME answers \in Seq(KnownMessage), committed' = committed,
           committed \in 0 .. Len(answers)
    PROVE  \A m \in KnownMessage : answers' = Append(answers, m) =>
               /\ \A t, s : Unread(t, s)' <=> (Unread(t, s) \/ (m.task = t /\ m.step = s))
               /\ \A t : m.task # t => Answered(t)' = Answered(t)
               /\ \A i \in DOMAIN answers' :
                      \/ i \in DOMAIN answers /\ answers'[i] = answers[i]
                      \/ i = Len(answers) + 1 /\ i \notin DOMAIN answers /\ answers'[i] = m
BY OneAnswered

\* A step that was sent and is not answered: it stays so when it changes hands, the
\* queue is left as it is.
LEMMA StepInFlight ==
    ASSUME PipelineAssumption, TypeInv, NEW t \in Single, NEW s \in Steps, TaskInv(t),
           <<t, s>> \in sends \cup units,
           UNCHANGED <<pipe, task, step, loop, sleeping>>,
           \A r \in Steps \ {s} :
               /\ <<t, r>> \in sends' => <<t, r>> \in sends
               /\ <<t, r>> \in units' => <<t, r>> \in units
               /\ Unread(t, r)' => Unread(t, r)
               /\ r \in Answered(t)' <=> r \in Answered(t),
           <<t, s>> \notin sends' \cap units',
           <<t, s>> \in sends' \cup units' => s \notin Answered(t)'
    PROVE  TaskInv(t)'
<1>1. t \in Task /\ Steps' = Steps
  BY DEF Single, Steps
<1>2. /\ StepPlaces(t, s) /\ ChildrenWait(t, s) /\ step[t][s] = "Running"
      /\ s \notin Answered(t)
  BY DEF TaskInv, StepPlaces
<1>3. ~Queued("execute", t, s) /\ ~Queued("process", t, s) /\ ~Queued("launch", t, s)
      /\ ~Queued("next", t, s)
  BY <1>2 DEF StepPlaces, ChildrenWait
<1>4. /\ \A k, u, r : Queued(k, u, r)' <=> Queued(k, u, r)
      /\ \A u : Starting(u)' <=> Starting(u)
      /\ \A u, f : Ending(u, f)' <=> Ending(u, f)
  BY DEF Queued, Starting, Ending
<1>5. ~Untouched(t, s) /\ task[t] # "absent"
  BY <1>2 DEF Untouched, TaskInv, NothingBefore
<1>6. Moves(t, s, "Running")
  BY <1>2, <1>4, <1>5, SleepStays DEF Moves
<1>7. /\ NothingBefore(t)'
      /\ \A r \in Steps \ {s} : StepPlaces(t, r)' /\ ChildrenWait(t, r)'
      /\ \A r \in Children(s) : Untouched(t, r)'
  BY <1>1, <1>2, <1>5, <1>6, OtherSteps DEF TypeInv
<1>8. EndFollowsSteps(t)'
  BY <1>1, <1>2, <1>4, EndWaits
<1>9. StepPlaces(t, s)'
  BY <1>1, <1>2, <1>3, <1>4 DEF StepPlaces
<1>10. ChildrenWait(t, s)'
  BY <1>1, <1>3, <1>4, <1>7 DEF ChildrenWait, Children
<1> QED
  BY <1>1, <1>7, <1>8, <1>9, <1>10 DEF TaskInv

\* What the producer was given is sent, or lost.
LEMMA StepsSent ==
    ASSUME PipelineAssumption, TypeInv, StepInv, NEW u \in sends, Sent(u)
    PROVE  StepInv'
<1> PICK t \in Task, s \in Steps : u = <<t, s>>
  BY DEF TypeInv, LoopOK
<1>1. /\ UNCHANGED <<pipe, task, step, loop, sleeping, answers, committed, repeated>>
      /\ sends' = sends \ {<<t, s>>} /\ units \subseteq units'
      /\ units' \subseteq units \cup {<<t, s>>}
      /\ Single' = Single
  BY DEF Sent, rowVars, Single
<1>2. QueuedOnce' /\ AnsweredOnce'
  BY <1>1 DEF StepInv, QueuedOnce, AnsweredOnce, Clash, Single
<1>3. /\ \A x, r : Unread(x, r)' <=> Unread(x, r)
      /\ \A x : Answered(x)' = Answered(x)
  BY <1>1, KafkaStays
<1>4. ASSUME NEW x \in Single PROVE TaskInv(x)'
  <2>1. CASE x = t
    <3>1. TaskInv(t) /\ s \notin Answered(t)
      BY <1>4, <2>1 DEF StepInv, TaskInv, StepPlaces
    <3> QED
      BY <1>1, <1>3, <1>4, <2>1, <3>1, StepInFlight
  <2>2. CASE x # t
    <3>1. LeavesQueue(x)
      BY <1>1 DEF LeavesQueue, Queued, Starting, Ending
    <3>2. LeavesKafka(x) /\ LeavesSleep(x)
      BY <1>1, <1>3, <2>2, SleepStays DEF LeavesKafka
    <3>3. Leaves(x)
      BY <1>1, <3>1, <3>2 DEF Leaves
    <3> QED
      BY <1>1, <1>4, <3>3, TaskFrame DEF StepInv, Single
  <2> QED
    BY <2>1, <2>2
<1> QED
  BY <1>1, <1>2, <1>4 DEF StepInv

\* A model answers.
LEMMA StepsAnswer ==
    ASSUME PipelineAssumption, TypeInv, StepInv, NEW u \in units, NEW o \in Outcomes,
           Answer(u, o)
    PROVE  StepInv'
<1>0. units \subseteq Task \X Steps
  BY DEF TypeInv, KafkaOK
<1> PICK t \in Task, s \in Steps : u = <<t, s>>
  BY <1>0
<1> PICK m : m = [task |-> t, step |-> s, outcome |-> o]
  OBVIOUS
<1>1. /\ UNCHANGED <<pipe, task, step, loop, sleeping, sends, committed, repeated>>
      /\ units' = units \ {<<t, s>>} /\ answers' = Append(answers, m)
      /\ Single' = Single
  BY DEF Answer, rowVars, Single
<1>2. m.task = t /\ m.step = s /\ m \in KnownMessage /\ s \in Step
  BY PipeFacts DEF PipelineAssumption, TypeInv, KnownMessage, Message
<1>3. /\ \A x, r : Unread(x, r)' <=> (Unread(x, r) \/ (t = x /\ s = r))
      /\ \A x, r : r \in Answered(x)' <=> (r \in Answered(x) \/ (t = x /\ s = r))
      /\ \A x : x # t => Answered(x)' = Answered(x)
      /\ \A i \in DOMAIN answers' :
             \/ i \in DOMAIN answers /\ answers'[i] = answers[i]
             \/ i = Len(answers) + 1 /\ i \notin DOMAIN answers /\ answers'[i] = m
  <2>1. answers \in Seq(KnownMessage) /\ committed \in 0 .. Len(answers)
    BY LenProperties DEF TypeInv, KafkaOK
  <2> QED
    BY <1>1, <1>2, <2>1, OneAnswered
<1>4. t \in Single => TaskInv(t) /\ s \notin Answered(t) /\ <<t, s>> \notin sends
  BY DEF StepInv, TaskInv, StepPlaces
<1>5. QueuedOnce'
  BY <1>1 DEF StepInv, QueuedOnce, Clash, Single
<1>6. AnsweredOnce'
  <2>1. ASSUME t \in Single, NEW i \in DOMAIN answers, answers[i].task = t
        PROVE  answers[i].step # s
    BY <1>2, <1>4, <2>1 DEF Answered
  <2> QED
    BY <1>1, <1>2, <1>3, <2>1 DEF StepInv, AnsweredOnce
<1>7. ASSUME NEW x \in Single PROVE TaskInv(x)'
  <2>1. CASE x = t
    BY <1>1, <1>3, <1>4, <1>7, <2>1, StepInFlight
  <2>2. CASE x # t
    <3>1. LeavesQueue(x)
      BY <1>1 DEF LeavesQueue, Queued, Starting, Ending
    <3>2. LeavesKafka(x) /\ LeavesSleep(x)
      BY <1>1, <1>3, <2>2, SleepStays DEF LeavesKafka
    <3>3. Leaves(x)
      BY <1>1, <3>1, <3>2 DEF Leaves
    <3> QED
      BY <1>1, <1>7, <3>3, TaskFrame DEF StepInv, Single
  <2> QED
    BY <2>1, <2>2
<1> QED
  BY <1>1, <1>5, <1>6, <1>7 DEF StepInv

\* An answer comes twice: nothing more is said of its task.
LEMMA StepsAnswerAgain ==
    ASSUME PipelineAssumption, TypeInv, StepInv, NEW i \in DOMAIN answers,
           NEW o \in Outcomes, NEW again \in BOOLEAN, AnswerAgain(i, o, again)
    PROVE  StepInv'
<1> PICK m : m = [answers[i] EXCEPT !.outcome = o]
  OBVIOUS
<1> PICK t : t = answers[i].task
  OBVIOUS
<1>1. /\ UNCHANGED <<pipe, task, step, loop, sleeping, sends, units, committed>>
      /\ answers' = Append(answers, m) /\ repeated' = repeated \cup {t}
      /\ Single' = Single \ {t}
  BY DEF AnswerAgain, rowVars, Single
<1>2. m.task = t /\ m \in KnownMessage
  <2>1. answers[i] \in KnownMessage
    BY ElementOfSeq, LenProperties DEF TypeInv, KafkaOK
  <2>2. o \in AnswerKinds
    BY DEF PipelineAssumption
  <2> QED
    BY <2>1, <2>2 DEF KnownMessage, Message
<1>3. /\ \A x, r : Unread(x, r)' <=> (Unread(x, r) \/ (t = x /\ m.step = r))
      /\ \A x : x # t => Answered(x)' = Answered(x)
      /\ \A n \in DOMAIN answers' :
             \/ n \in DOMAIN answers /\ answers'[n] = answers[n]
             \/ n = Len(answers) + 1 /\ n \notin DOMAIN answers /\ answers'[n] = m
  <2>1. answers \in Seq(KnownMessage) /\ committed \in 0 .. Len(answers)
    BY LenProperties DEF TypeInv, KafkaOK
  <2>2. /\ m \in KnownMessage /\ answers' = Append(answers, m) /\ committed' = committed
        /\ m.task = t
    BY <1>1, <1>2
  <2>3. /\ \A x, r : Unread(x, r)' <=> (Unread(x, r) \/ (m.task = x /\ m.step = r))
        /\ \A x : m.task # x => Answered(x)' = Answered(x)
        /\ \A n \in DOMAIN answers' :
               \/ n \in DOMAIN answers /\ answers'[n] = answers[n]
               \/ n = Len(answers) + 1 /\ n \notin DOMAIN answers /\ answers'[n] = m
    BY <2>1, <2>2, OneMessage
  <2> QED
    BY <2>2, <2>3
<1>4. QueuedOnce'
  BY <1>1 DEF StepInv, QueuedOnce, Clash
<1>5. AnsweredOnce'
  BY <1>1, <1>2, <1>3 DEF StepInv, AnsweredOnce
<1>6. ASSUME NEW x \in Single, x # t PROVE TaskInv(x)'
  <2>1. LeavesQueue(x)
    BY <1>1 DEF LeavesQueue, Queued, Starting, Ending
  <2>2. LeavesKafka(x) /\ LeavesSleep(x)
    BY <1>1, <1>3, <1>6, SleepStays DEF LeavesKafka
  <2>3. Leaves(x)
    BY <1>1, <2>1, <2>2 DEF Leaves
  <2> QED
    BY <1>1, <1>6, <2>3, TaskFrame DEF StepInv, Single
<1> QED
  BY <1>1, <1>4, <1>5, <1>6 DEF StepInv

\* The consumer commits a message and hands it on.
LEMMA StepsCommit ==
    ASSUME PipelineAssumption, TypeInv, StepInv, Commit
    PROVE  StepInv'
<1> PICK t : t = answers[position].task
  OBVIOUS
<1> PICK s : s = answers[position].step
  OBVIOUS
<1> PICK d : d = ProcessMessage(answers[position])
  OBVIOUS
<1>1. /\ UNCHANGED <<pipe, task, step, sleeping, sends, units, answers, repeated>>
      /\ loop' = Append(loop, d) /\ committed' = position
      /\ Single' = Single /\ Steps' = Steps
  BY DEF Commit, rowVars, Single, Steps
<1>2. /\ position \in 1 .. Len(answers) /\ position = committed + 1
      /\ position \in DOMAIN answers /\ committed \in Nat /\ Len(answers) \in Nat
  BY LenProperties DEF Commit, TypeInv, KafkaOK
<1>3. /\ answers[position] \in KnownMessage /\ t \in Task /\ s \in Steps /\ s \in Step
      /\ answers[position].outcome \in AnswerKinds
  <2>1. answers[position] \in KnownMessage
    BY <1>2, ElementOfSeq DEF TypeInv, KafkaOK
  <2> QED
    BY <2>1 DEF KnownMessage, Message
<1>4. d \in KnownCoroutine /\ d.kind = "process" /\ d.task = t /\ d.step = s
  <2>1. d = ProcessMessage([task |-> t, step |-> s, outcome |-> answers[position].outcome])
    BY DEF ProcessMessage
  <2>2. d \in KnownCoroutine
    BY <1>3, <2>1, KnownMade DEF TypeInv
  <2> QED
    BY <2>2 DEF ProcessMessage
<1>5. /\ \A k \in StepKinds : \A x, r :
             Queued(k, x, r)' => Queued(k, x, r) \/ (k = "process" /\ x = t /\ r = s)
      /\ \A x : Starting(x)' => Starting(x)
      /\ \A x, f : Ending(x, f)' => Ending(x, f)
      /\ (\A i \in DOMAIN loop : ~Clash(loop[i], d)) => QueuedOnce'
  BY <1>1, <1>4, AppendedOne
<1>6. /\ \A x, r : Unread(x, r)' => Unread(x, r)
      /\ \A x : Answered(x)' = Answered(x)
      /\ Unread(t, s) /\ s \in Answered(t)
  <2>1. \A i \in DOMAIN answers : i > position => i > committed
    BY <1>2, LenProperties DEF TypeInv, KafkaOK
  <2>2. position > committed
    BY <1>2
  <2> QED
    BY <1>1, <1>2, <1>3, <2>1, <2>2 DEF Unread, Answered
<1>7. AnsweredOnce'
  BY <1>1 DEF StepInv, AnsweredOnce
<1>8. ASSUME t \in Single
      PROVE  /\ TaskInv(t)' /\ ~Starting(t)
             /\ \A k \in StepKinds : ~Queued(k, t, s)
  <2>1. /\ TaskInv(t) /\ StepPlaces(t, s) /\ ChildrenWait(t, s) /\ step[t][s] = "Running"
        /\ <<t, s>> \notin sends \cup units
    BY <1>3, <1>6, <1>8 DEF StepInv, TaskInv, StepPlaces
  <2>2. ~Queued("launch", t, s) /\ ~Queued("execute", t, s) /\ ~Queued("process", t, s)
        /\ ~Queued("next", t, s)
    BY <1>6, <2>1 DEF StepPlaces, ChildrenWait
  <2>3. ~Unread(t, s)'
    <3>1. \A i \in DOMAIN answers :
              (answers[i].task = t /\ answers[i].step = s) => i = position
      BY <1>2, <1>8 DEF StepInv, AnsweredOnce
    <3> QED
      BY <1>1, <1>2, <3>1 DEF Unread
  <2>4. ~Untouched(t, s) /\ task[t] # "absent"
    BY <1>3, <2>1 DEF Untouched, TaskInv, NothingBefore
  <2>5. Moves(t, s, "Running")
    BY <1>1, <1>5, <1>6, <2>1, <2>4, SleepStays DEF Moves
  <2>6. /\ NothingBefore(t)' /\ ~Starting(t)
        /\ \A r \in Steps \ {s} : StepPlaces(t, r)' /\ ChildrenWait(t, r)'
        /\ \A r \in Children(s) : Untouched(t, r)'
    BY <1>1, <1>3, <2>1, <2>4, <2>5, OtherSteps DEF TypeInv
  <2>7. EndFollowsSteps(t)'
    BY <1>1, <1>3, <1>5, <2>1, EndWaits
  <2>8. ~Queued("launch", t, s)' /\ ~Queued("execute", t, s)' /\ ~Queued("next", t, s)'
    BY <1>5, <2>2 DEF StepKinds
  <2>9. StepPlaces(t, s)'
    BY <1>1, <1>6, <2>1, <2>3, <2>8 DEF StepPlaces
  <2>10. ChildrenWait(t, s)'
    BY <1>1, <2>6, <2>8 DEF ChildrenWait, Children
  <2> QED
    BY <1>1, <2>2, <2>6, <2>7, <2>9, <2>10 DEF TaskInv, StepKinds
<1>9. QueuedOnce'
  <2>1. ASSUME NEW i \in DOMAIN loop PROVE ~Clash(loop[i], d)
    BY <1>4, <1>8 DEF Clash, Starting, HasStart, Queued, Has, StepKinds
  <2> QED
    BY <1>5, <2>1
<1>10. ASSUME NEW x \in Single, x # t PROVE TaskInv(x)'
  <2>1. LeavesQueue(x)
    BY <1>5, <1>10 DEF LeavesQueue
  <2>2. LeavesKafka(x) /\ LeavesSleep(x)
    BY <1>1, <1>6, SleepStays DEF LeavesKafka
  <2>3. Leaves(x)
    BY <1>1, <2>1, <2>2 DEF Leaves
  <2> QED
    BY <1>1, <1>10, <2>3, TaskFrame DEF StepInv, Single
<1> QED
  BY <1>1, <1>7, <1>8, <1>9, <1>10 DEF StepInv

\* Initially nothing is queued.
LEMMA StepsInit == ASSUME PipelineAssumption, Init PROVE StepInv
<1>1. /\ loop = <<>> /\ answers = <<>> /\ DOMAIN loop = {} /\ DOMAIN answers = {}
      /\ sends = {} /\ units = {} /\ sleeping = {}
      /\ \A t \in Task : task[t] = "absent" /\ \A s \in Steps : step[t][s] = "Pending"
  BY HasNone DEF Init
<1>2. /\ \A k, t, s : ~Queued(k, t, s)
      /\ \A t : ~Starting(t) /\ ~Asleep(t)
      /\ \A t, f : ~Ending(t, f)
  BY <1>1 DEF Queued, Has, Starting, HasStart, Ending, HasEnd, Asleep
<1>3. \A t, s : ~Unread(t, s) /\ s \notin Answered(t)
  BY <1>1 DEF Unread, Answered
<1>4. QueuedOnce /\ AnsweredOnce
  BY <1>1 DEF QueuedOnce, AnsweredOnce
<1>5. ASSUME NEW t \in Single PROVE TaskInv(t)
  <2>1. NothingBefore(t) /\ EndFollowsSteps(t)
    BY <1>1, <1>2, <1>5 DEF NothingBefore, EndFollowsSteps, Untouched, Single
  <2>2. \A s \in Steps : StepPlaces(t, s) /\ ChildrenWait(t, s)
    BY <1>1, <1>2, <1>3, <1>5 DEF StepPlaces, ChildrenWait, Untouched, Single, Children
  <2> QED
    BY <2>1, <2>2 DEF TaskInv
<1> QED
  BY <1>4, <1>5 DEF StepInv

\* Every step of the system keeps the invariant.
LEMMA StepsStep == ASSUME PipelineAssumption, TypeInv, StepInv, [Next]_vars PROVE StepInv'
<1>1. CASE UNCHANGED vars
  <2>1. /\ UNCHANGED <<pipe, task, step, loop, sleeping, sends, units, answers, committed>>
        /\ repeated' = repeated
    BY <1>1 DEF vars
  <2>2. QueuedOnce' /\ AnsweredOnce'
    BY <2>1 DEF StepInv, QueuedOnce, AnsweredOnce, Clash, Single
  <2>3. ASSUME NEW u \in Single PROVE Leaves(u)
    BY <2>1, KafkaStays, SleepStays
       DEF Leaves, LeavesQueue, LeavesKafka, Queued, Starting, Ending
  <2> QED
    BY <2>1, <2>2, <2>3, AllLeft
<1>2. CASE Next
  BY <1>2, StepsExecute, StepsQuiet, StepsStart, StepsLaunch, StepsExecuteSend,
     StepsExecuteSkip, StepsProcess, StepsNext, StepsRunFinish, StepsWake, StepsSent,
     StepsAnswer, StepsAnswerAgain, StepsCommit DEF Next, Coroutines
<1> QED
  BY <1>1, <1>2

\* For a task none of whose steps was answered twice: a step is in one place at a time,
\* from its launch to its processing, after the step before it and before those after
\* it; the task starts once, and ends as its steps did.
THEOREM StepInvariant == Spec => []StepInv
<1>1. Init => StepInv
  BY PipelineAssumption, StepsInit
<1>2. TypeInv /\ StepInv /\ [Next]_vars => StepInv'
  BY PipelineAssumption, StepsStep
<1> QED
  BY <1>1, <1>2, TypeInvariant, PTL DEF Spec

-----------------------------------------------------------------------------
(* What the steps of the system do, seen from outside *)

\* What the coroutine of task t may change: its own rows, its own results and those of
\* tasks that are not alone, and what it adds is its own.
OnlyOf(t) ==
    /\ UNCHANGED <<pipe, units, answers, repeated>>
    /\ \A u \in Task \ {t} :
           /\ task'[u] = task[u] /\ step'[u] = step[u]
           /\ posted'[u] = posted[u] /\ (Alone(u) => store'[u] = store[u])
    /\ task'[t] = "absent" <=> task[t] = "absent"
    /\ task'[t] = "deleted" <=> task[t] = "deleted"
    /\ \A i \in DOMAIN loop' : loop'[i].task = t \/ \E j \in DOMAIN loop : loop'[i] = loop[j]
    /\ \A w \in sleeping' : w.task = t \/ w \in sleeping
    /\ \A u \in Task \ {t}, s \in Steps : <<u, s>> \in sends' => <<u, s>> \in sends
    /\ faults \subseteq faults'

\* A task that is alone has its own results listed, and only its own listed or removed.
LEMMA AloneLists ==
    ASSUME OutOK, NEW t \in Task, Alone(t)
    PROVE  /\ Under(t) = {t} /\ Listed(t) = {t} \X store[t]
           /\ \A u \in Task \ {t} : t \notin Under(u)
<1>1. Under(t) = {t} /\ \A u \in Task \ {t} : t \notin Under(u)
  BY DEF Under, Alone
<1>2. store[t] \subseteq Step
  BY DEF OutOK
<1>3. ASSUME NEW o PROVE o \in Listed(t) <=> o \in {t} \X store[t]
  BY <1>1, <1>2 DEF Listed
<1> QED
  BY <1>1, <1>3

\* Where the end of a task leaves what was found.
LEMMA FinishStores ==
    ASSUME PipelineAssumption, OutOK, NEW t \in Task, NEW failed \in BOOLEAN,
           Finish(t, failed)
    PROVE  /\ \A u \in Task \ {t} :
                  posted'[u] = posted[u] /\ (Alone(u) => store'[u] = store[u])
           /\ \/ store' = store /\ posted' = posted
              \/ /\ ~failed /\ pipe.type = "inference"
                 /\ Alone(t) => /\ posted'[t] = {t} \X store[t]
                                /\ store'[t] \in {store[t], {}}
           /\ faults \subseteq faults'
<1> PICK f \in SUBSET {"merge", "webhook", "token"} :
        /\ Happen(f)
        /\ IF "token" \in f THEN UNCHANGED <<task, outVars>>
           ELSE LET merges == ~failed /\ pipe.type = "inference"
                    managed == Listed(t) # {} /\ "merge" \notin f
                    status == IF failed \/ (merges /\ ~managed)
                              THEN "Failed" ELSE "Finished"
                IN  /\ IF merges THEN ManageResult(t, managed)
                       ELSE UNCHANGED <<store, posted>>
                    /\ task' = ChangeStatus(t, status)
                    /\ SendStatus(task', t, status, "webhook" \in f)
  BY DEF Finish
<1>1. faults \subseteq faults'
  BY DEF Happen
<1>2. CASE UNCHANGED <<store, posted>>
  BY <1>1, <1>2
<1>3. CASE ~UNCHANGED <<store, posted>>
  <2>1. ~failed /\ pipe.type = "inference"
    BY <1>3 DEF outVars
  <2>2. ManageResult(t, Listed(t) # {} /\ "merge" \notin f)
    BY <1>3 DEF outVars
  <2>3. /\ posted' = [posted EXCEPT ![t] = Listed(t)]
        /\ \/ store' = store
           \/ store' = [n \in Task |-> IF n \in Under(t) THEN {} ELSE store[n]]
    BY <1>3, <2>2 DEF ManageResult
  <2>4. /\ posted'[t] = Listed(t) /\ \A u \in Task \ {t} : posted'[u] = posted[u]
        /\ \A u \in Task : /\ u \notin Under(t) => store'[u] = store[u]
                           /\ store'[u] \in {store[u], {}}
    BY <2>3 DEF OutOK
  <2>5. \A u \in Task \ {t} : Alone(u) => store'[u] = store[u]
    BY <2>4, AloneLists
  <2>6. Alone(t) => posted'[t] = {t} \X store[t]
    BY <2>4, AloneLists
  <2> QED
    BY <1>1, <2>1, <2>4, <2>5, <2>6
<1> QED
  BY <1>2, <1>3

\* What is added to the queue is there with the rest of it.
LEMMA RanTasks ==
    ASSUME TypeInv, loop # <<>>
    PROVE  \A t : \A new \in Seq(KnownCoroutine) :
               (Ran(new) /\ \A n \in DOMAIN new : new[n].task = t) =>
                   \A i \in DOMAIN loop' :
                       loop'[i].task = t \/ \E j \in DOMAIN loop : loop'[i] = loop[j]
BY RanElements DEF TypeInv, LoopOK

\* A coroutine that ran and left nothing behind: the queue has what it had.
LEMMA RanNoTask ==
    ASSUME TypeInv, loop # <<>>, Ran(<<>>)
    PROVE  \A i \in DOMAIN loop' : \E j \in DOMAIN loop : loop'[i] = loop[j]
<1> PICK new : new = <<>>
  OBVIOUS
<1>1. new \in Seq(KnownCoroutine) /\ DOMAIN new = {} /\ Ran(new)
  BY HasNone
<1> QED
  BY <1>1, RanElements DEF TypeInv, LoopOK

\* One that left another: the queue has what it had, and that.
LEMMA RanOneTask ==
    ASSUME TypeInv, loop # <<>>, NEW d \in KnownCoroutine, Ran(<<d>>)
    PROVE  \A i \in DOMAIN loop' :
               loop'[i].task = d.task \/ \E j \in DOMAIN loop : loop'[i] = loop[j]
<1> PICK new : new = <<d>>
  OBVIOUS
<1>1. new \in Seq(KnownCoroutine) /\ DOMAIN new = {1} /\ new[1] = d /\ Ran(new)
  BY HasOne
<1> QED
  BY <1>1, RanTasks

\* Coroutines and sleeps change what is of their task.
LEMMA CoroutinesOnlyOf ==
    ASSUME PipelineAssumption, TypeInv, Coroutines, NEW t, t = Head(loop).task
    PROVE  OnlyOf(t) /\ t \in Task /\ loop # <<>>
<1> PICK c : c = Head(loop)
  OBVIOUS
<1> PICK s : s = c.step
  OBVIOUS
<1>1. loop # <<>> /\ UNCHANGED <<pipe, units, answers, repeated>> /\ t = c.task
  BY DEF Coroutines, Start, Launch, ExecuteSend, ExecuteSkip, Process, Next1, RunFinish, Head1,
     kafkaVars
<1>2. /\ t \in Task /\ (c.kind \in StepKinds => s \in Steps)
      /\ c.kind \in {"launch", "execute"} => c.body \in BOOLEAN
      /\ c.kind \in {"process", "next"} => c.outcome \in AnswerKinds
      /\ c.kind = "finish" => c.failed \in BOOLEAN
  BY <1>1, HeadKnown DEF TypeInv
<1>3. t \in Rows => task[t] \notin {"absent", "deleted"}
  BY DEF Rows, Status
<1>4. ASSUME NEW failed \in BOOLEAN, Finish(t, failed)
      PROVE  /\ \A u \in Task \ {t} :
                    /\ task'[u] = task[u] /\ posted'[u] = posted[u]
                    /\ Alone(u) => store'[u] = store[u]
             /\ task'[t] = "absent" <=> task[t] = "absent"
             /\ task'[t] = "deleted" <=> task[t] = "deleted"
             /\ faults \subseteq faults'
  <2>1. OutOK
    BY DEF TypeInv
  <2>2. /\ \A u \in Task \ {t} :
               posted'[u] = posted[u] /\ (Alone(u) => store'[u] = store[u])
        /\ faults \subseteq faults'
    BY <1>2, <1>4, <2>1, FinishStores
  <2>3. /\ \A u \in Task \ {t} : task'[u] = task[u]
        /\ task'[t] = "absent" <=> task[t] = "absent"
        /\ task'[t] = "deleted" <=> task[t] = "deleted"
    BY <1>2, <1>4, FinishEnds
  <2> QED
    BY <2>2, <2>3
<1>5. ASSUME NEW status \in Status, UpdateStep(t, s, status), s \in Steps
      PROVE  \A u \in Task \ {t} : step'[u] = step[u]
  BY <1>2, <1>5, UpdateStepType DEF TypeInv
<1>6. "Running" \in Status /\ "Finished" \in Status /\ "Failed" \in Status
  BY DEF Status
<1>7. CASE Start
  <2>1. UNCHANGED sends
    BY <1>7 DEF Start
  <2>2. CASE Started(t)
    <3>1. /\ task' = ChangeStatus(t, "Running") /\ UNCHANGED <<step, sleeping, store, posted>>
          /\ Ran(<<>>) \/ Ran(<<LaunchStep(t, pipe.top, TRUE)>>)
          /\ faults \subseteq faults'
      BY <2>2 DEF Started, Happen
    <3>2. /\ \A u \in Task \ {t} : task'[u] = task[u]
          /\ task'[t] = "absent" <=> task[t] = "absent"
          /\ task'[t] = "deleted" <=> task[t] = "deleted"
      BY <1>2, <1>3, <1>6, <3>1, ChangeStatusType DEF TypeInv
    <3>3. LaunchStep(t, pipe.top, TRUE) \in KnownCoroutine
      BY <1>2, KnownMade, PipeFacts DEF TypeInv
    <3>4. LaunchStep(t, pipe.top, TRUE).task = t
      BY DEF LaunchStep
    <3>5. \A i \in DOMAIN loop' : loop'[i].task = t \/ \E j \in DOMAIN loop : loop'[i] = loop[j]
      BY <1>1, <3>1, <3>3, <3>4, RanNoTask, RanOneTask
    <3> QED
      BY <1>1, <2>1, <3>1, <3>2, <3>5, <1>2 DEF OnlyOf
  <2>3. CASE sleeping' = sleeping \cup {[task |-> t, retry |-> c.retry]} /\ Ran(<<>>)
             /\ UNCHANGED <<rowVars, outVars, faults>>
    BY <1>1, <1>2, <2>1, <2>3, RanNoTask DEF OnlyOf, rowVars, outVars
  <2>4. CASE FileUnusable(t) /\ Ran(<<>>) /\ UNCHANGED sleeping
    <3>1. Finish(t, TRUE)
      BY <2>4 DEF FileUnusable
    <3>2. \A u \in Task \ {t} : step'[u] = step[u]
      BY <1>2, <2>4, FileUnusableTypes DEF TypeInv
    <3> QED
      BY <1>1, <1>2, <1>4, <2>1, <2>4, <3>1, <3>2, RanNoTask DEF OnlyOf
  <2> QED
    BY <1>1, <1>7, <2>2, <2>3, <2>4 DEF Start
<1>8. CASE Launch
  <2>1. c.kind = "launch" /\ UNCHANGED <<task, sleeping, sends, outVars, faults>>
    BY <1>8 DEF Launch, Head1
  <2>2. \/ UpdateStep(t, s, "Running") /\ Ran(<<ExecuteStep(t, s, c.body)>>)
        \/ UNCHANGED step /\ Ran(<<>>)
    BY <1>1, <1>8 DEF Launch
  <2>3. ExecuteStep(t, s, c.body) \in KnownCoroutine /\ s \in Steps
    BY <1>2, <2>1, KnownMade DEF TypeInv, StepKinds
  <2>4. ExecuteStep(t, s, c.body).task = t
    BY DEF ExecuteStep
  <2>5. \A i \in DOMAIN loop' : loop'[i].task = t \/ \E j \in DOMAIN loop : loop'[i] = loop[j]
    BY <1>1, <2>2, <2>3, <2>4, RanNoTask, RanOneTask
  <2>6. \A u \in Task \ {t} : step'[u] = step[u]
    BY <1>5, <1>6, <2>2, <2>3
  <2> QED
    BY <1>1, <1>2, <2>1, <2>5, <2>6 DEF OnlyOf, outVars
<1>9. CASE ExecuteSend
  <2>1. /\ UNCHANGED <<rowVars, sleeping, outVars, faults>> /\ Ran(<<>>)
        /\ \A u \in Task \ {t}, r \in Steps : <<u, r>> \in sends' => <<u, r>> \in sends
    BY <1>1, <1>9 DEF ExecuteSend
  <2> QED
    BY <1>1, <1>2, <2>1, RanNoTask DEF OnlyOf, rowVars, outVars
<1>10. CASE ExecuteSkip
  <2>1. /\ UpdateStep(t, s, "Finished") /\ Ran(<<>>) /\ UNCHANGED <<sleeping, sends>>
        /\ UNCHANGED <<task, outVars, faults>> \/ Finish(t, FALSE)
        /\ c.kind = "execute"
    BY <1>1, <1>10 DEF ExecuteSkip, Head1
  <2>2. \A u \in Task \ {t} : step'[u] = step[u]
    BY <1>2, <1>5, <1>6, <2>1 DEF StepKinds
  <2>3. CASE UNCHANGED <<task, outVars, faults>>
    BY <1>1, <1>2, <2>1, <2>2, <2>3, RanNoTask DEF OnlyOf, outVars
  <2>4. CASE Finish(t, FALSE)
    BY <1>1, <1>2, <1>4, <2>1, <2>2, <2>4, RanNoTask DEF OnlyOf
  <2> QED
    BY <2>1, <2>3, <2>4
<1>11. CASE Process
  <2> PICK d : d = IF c.outcome = "error" THEN FinishTask(t, TRUE)
                   ELSE IF IsCompleted(step', t) THEN FinishTask(t, FALSE)
                   ELSE NextSteps(t, s, c.outcome)
    OBVIOUS
  <2>1. /\ UNCHANGED <<task, sleeping, sends, outVars, faults>> /\ c.kind = "process"
        /\ \/ UNCHANGED step /\ Ran(<<>>)
           \/ UpdateStep(t, s, StepStatus(c.outcome)) /\ Ran(<<d>>)
    BY <1>1, <1>11 DEF Process, Head1
  <2>2. d \in KnownCoroutine /\ d.task = t
    <3>1. d \in KnownCoroutine
      BY <1>2, <2>1, KnownMade DEF TypeInv, StepKinds
    <3> QED
      BY <3>1 DEF FinishTask, NextSteps
  <2>3. StepStatus(c.outcome) \in Status
    BY DEF StepStatus, Status
  <2>4. \A u \in Task \ {t} : step'[u] = step[u]
    BY <1>2, <1>5, <2>1, <2>3 DEF StepKinds
  <2>5. \A i \in DOMAIN loop' : loop'[i].task = t \/ \E j \in DOMAIN loop : loop'[i] = loop[j]
    BY <1>1, <2>1, <2>2, RanNoTask, RanOneTask
  <2> QED
    BY <1>1, <1>2, <2>1, <2>4, <2>5 DEF OnlyOf, outVars
<1>12. CASE Next1
  <2>1. UNCHANGED <<rowVars, sleeping, sends, outVars, faults>> /\ c.kind = "next"
    BY <1>1, <1>12 DEF Next1, Head1
  <2>2. \A i \in DOMAIN loop' : loop'[i].task = t \/ \E j \in DOMAIN loop : loop'[i] = loop[j]
    <3>1. CASE Ran(<<>>)
      BY <1>1, <3>1, RanNoTask
    <3>2. CASE ~Ran(<<>>)
      <4>1. PICK q \in [1 .. Cardinality(Children(s)) -> Children(s)] :
                Ran([i \in DOMAIN q |-> LaunchStep(t, q[i], c.outcome = "result")])
        BY <1>1, <1>12, <3>2 DEF Next1
      <4>2. Cardinality(Children(s)) \in Nat /\ Children(s) \subseteq Steps
        BY PipeFacts, FS_CardinalityType DEF TypeInv
      <4> PICK new : new = [i \in 1 .. Cardinality(Children(s)) |->
                                LaunchStep(t, q[i], c.outcome = "result")]
        OBVIOUS
      <4>3. \A i \in 1 .. Cardinality(Children(s)) :
                /\ LaunchStep(t, q[i], c.outcome = "result") \in KnownCoroutine
                /\ LaunchStep(t, q[i], c.outcome = "result").task = t
        BY <1>2, <4>1, <4>2, KnownMade DEF TypeInv, LaunchStep
      <4>4. /\ new \in Seq(KnownCoroutine) /\ Ran(new)
            /\ \A n \in DOMAIN new : new[n].task = t
        BY <4>1, <4>2, <4>3, IsASeq
      <4>5. \E x \in Seq(KnownCoroutine) : Ran(x) /\ \A n \in DOMAIN x : x[n].task = t
        BY <4>4
      <4> QED
        BY <1>1, <4>5, RanTasks, Zenon
    <3> QED
      BY <3>1, <3>2
  <2> QED
    BY <1>1, <1>2, <2>1, <2>2 DEF OnlyOf, rowVars, outVars
<1>13. CASE RunFinish
  <2>1. /\ Finish(t, c.failed) /\ Ran(<<>>) /\ UNCHANGED <<step, sleeping, sends>>
        /\ c.kind = "finish"
    BY <1>1, <1>13 DEF RunFinish, Head1
  <2> QED
    BY <1>1, <1>2, <1>4, <2>1, RanNoTask DEF OnlyOf
<1> QED
  BY <1>1, <1>2, <1>7, <1>8, <1>9, <1>10, <1>11, <1>12, <1>13 DEF Coroutines

\* What wakes up is about its own task.
LEMMA WakeOnlyOf ==
    ASSUME PipelineAssumption, TypeInv, NEW w \in sleeping, Wake(w), NEW t, t = w.task
    PROVE  OnlyOf(t) /\ t \in Task
<1>1. /\ t \in Task /\ w.retry \in 1 .. MaxRetries /\ sleeping' = sleeping \ {w}
      /\ UNCHANGED <<pipe, units, answers, repeated, sends>>
  BY DEF Wake, TypeInv, LoopOK, kafkaVars
<1>2. CASE w.retry < MaxRetries
  <2> PICK d : d = [StartTask(t) EXCEPT !.retry = w.retry + 1]
    OBVIOUS
  <2>1. loop' = Append(loop, d) /\ UNCHANGED <<rowVars, outVars, faults>>
    BY <1>2 DEF Wake
  <2>2. d \in KnownCoroutine /\ d.task = t
    <3>1. w.retry + 1 \in 1 .. MaxRetries
      BY <1>1, <1>2 DEF PipelineAssumption
    <3>2. d \in KnownCoroutine
      BY <1>1, <3>1, KnownMade DEF TypeInv
    <3> QED
      BY <3>2 DEF StartTask
  <2>3. loop \in Seq(KnownCoroutine)
    BY DEF TypeInv, LoopOK
  <2>4. \A i \in DOMAIN loop' : loop'[i].task = t \/ \E j \in DOMAIN loop : loop'[i] = loop[j]
    BY <2>1, <2>2, <2>3, AppendProperties, LenProperties
  <2> QED
    BY <1>1, <2>1, <2>4 DEF OnlyOf, rowVars, outVars
<1>3. CASE ~(w.retry < MaxRetries)
  <2>1. loop' = loop /\ (FileUnusable(t) \/ GivesUp)
    BY <1>3 DEF Wake, GivesUp
  <2>2. CASE FileUnusable(t)
    <3>1. Finish(t, TRUE)
      BY <2>2 DEF FileUnusable
    <3>2. \A u \in Task \ {t} : step'[u] = step[u]
      BY <1>1, <2>2, FileUnusableTypes DEF TypeInv
    <3>3. /\ \A u \in Task \ {t} :
                 posted'[u] = posted[u] /\ (Alone(u) => store'[u] = store[u])
          /\ faults \subseteq faults'
      BY <1>1, <3>1, FinishStores DEF TypeInv
    <3>4. /\ \A u \in Task \ {t} : task'[u] = task[u]
          /\ task'[t] = "absent" <=> task[t] = "absent"
          /\ task'[t] = "deleted" <=> task[t] = "deleted"
      BY <1>1, <3>1, FinishEnds
    <3> QED
      BY <1>1, <2>1, <3>2, <3>3, <3>4 DEF OnlyOf
  <2>3. CASE GivesUp
    BY <1>1, <2>1, <2>3 DEF OnlyOf, GivesUp, Fault, Happen, rowVars, outVars
  <2> QED
    BY <2>1, <2>2, <2>3
<1> QED
  BY <1>2, <1>3

\* Before a task starts nothing has been done for it.
LEMMA BeforeStart ==
    ASSUME PipelineAssumption, TypeInv, StepInv, NEW t \in Single, Starting(t) \/ Asleep(t)
    PROVE  /\ \A s \in Steps : Untouched(t, s) /\ step[t][s] = "Pending" /\ s \notin Answered(t)
           /\ ~AllFinished(t) /\ ~SomeFailed(t) /\ task[t] \in {"Pending", "deleted"}
<1>1. TaskInv(t) /\ t \in Task
  BY DEF StepInv, Single
<1>2. task[t] \in {"Pending", "deleted"} /\ \A s \in Steps : Untouched(t, s)
  BY <1>1 DEF TaskInv, NothingBefore
<1> QED
  BY <1>1, <1>2, NothingQueued DEF TypeInv, Untouched

\* A step that is skipped was running, and its task had not ended.
LEMMA BeforeSkip ==
    ASSUME PipelineAssumption, TypeInv, StepInv, ExecuteSkip,
           NEW t \in Single, t = Head(loop).task, t \in Rows, NEW s, s = Head(loop).step
    PROVE  /\ s \in Steps /\ step[t][s] = "Running" /\ step'[t][s] = "Finished"
           /\ \A r \in Steps \ {s} : step'[t][r] = step[t][r]
           /\ IsCompleted(step', t) =>
                  AllFinished(t)' /\ task[t] \notin {"Finished", "Failed"}
           /\ task'[t] = task[t] \/ (IsCompleted(step', t) /\ Finish(t, FALSE))
<1> PICK c : c = Head(loop)
  OBVIOUS
<1>1. /\ loop # <<>> /\ c.kind = "execute" /\ c.kind \in StepKinds /\ pipe' = pipe
      /\ UpdateStep(t, s, "Finished") /\ t = c.task /\ s = c.step
      /\ IF t \in Rows /\ IsCompleted(step', t) THEN Finish(t, FALSE)
         ELSE UNCHANGED <<task, outVars, faults>>
  BY DEF ExecuteSkip, Head1, StepKinds
<1>2. t \in Task /\ s \in Steps /\ Queued("execute", t, s) /\ Steps' = Steps
  BY <1>1, HeadKnown, HeadQueued DEF TypeInv, Steps
<1>3. TaskInv(t) /\ step[t][s] = "Running"
  BY <1>2 DEF StepInv, TaskInv, StepPlaces
<1>4. step'[t][s] = "Finished" /\ \A r \in Steps \ {s} : step'[t][r] = step[t][r]
  <2>1. "Finished" \in Status
    BY DEF Status
  <2> QED
    BY <1>1, <1>2, <2>1, UpdateStepType DEF TypeInv
<1>5. ASSUME IsCompleted(step', t)
      PROVE  AllFinished(t)' /\ task[t] \notin {"Finished", "Failed"}
  <2>1. AllFinished(t)'
    BY <1>2, <1>5 DEF AllFinished, IsCompleted
  <2> QED
    BY <1>1, <1>2, <1>3, <1>4, <2>1, EndWaits
<1>6. task'[t] = task[t] \/ (IsCompleted(step', t) /\ Finish(t, FALSE))
  BY <1>1
<1> QED
  BY <1>2, <1>3, <1>4, <1>5, <1>6

\* A task that is ended has all of its steps done, or one that failed.
LEMMA BeforeFinish ==
    ASSUME PipelineAssumption, TypeInv, StepInv, RunFinish,
           NEW t \in Single, t = Head(loop).task
    PROVE  /\ Finish(t, Head(loop).failed) /\ step' = step /\ pipe' = pipe
           /\ Head(loop).failed = FALSE =>
                  AllFinished(t) /\ task[t] \notin {"Finished", "Failed"}
           /\ Head(loop).failed = TRUE =>
                  SomeFailed(t) /\ ~AllFinished(t) /\ task[t] # "Finished"
           /\ Head(loop).failed \in BOOLEAN /\ t \in Task
<1> PICK c : c = Head(loop)
  OBVIOUS
<1>1. /\ loop # <<>> /\ c.kind = "finish" /\ Finish(t, c.failed) /\ t = c.task
      /\ step' = step /\ pipe' = pipe
  BY DEF RunFinish, Head1
<1>2. t \in Task /\ c.failed \in BOOLEAN /\ Ending(t, c.failed)
  BY <1>1, HeadKnown, HeadQueued DEF TypeInv
<1>3. EndFollowsSteps(t)
  BY DEF StepInv, TaskInv
<1>4. SomeFailed(t) => ~AllFinished(t)
  BY DEF SomeFailed, AllFinished
<1>5. ASSUME c.failed = FALSE
      PROVE  AllFinished(t) /\ task[t] \notin {"Finished", "Failed"}
  BY <1>2, <1>3, <1>5, Zenon DEF EndFollowsSteps
<1>6. ASSUME c.failed = TRUE
      PROVE  SomeFailed(t) /\ ~AllFinished(t) /\ task[t] # "Finished"
  <2>1. SomeFailed(t)
    BY <1>2, <1>3, <1>6, Zenon DEF EndFollowsSteps
  <2> QED
    BY <1>3, <1>4, <2>1 DEF EndFollowsSteps
<1> QED
  BY <1>1, <1>2, <1>5, <1>6

\* The head of the queue or the sleep that ends is of a task that is to start.
LEMMA StartsNow ==
    ASSUME TypeInv, NEW t, Start, t = Head(loop).task
    PROVE  Starting(t)
BY HeadQueued DEF Start, Head1

\* What wakes up was asleep.
LEMMA WakesNow ==
    ASSUME NEW w \in sleeping, NEW t, t = w.task PROVE Asleep(t)
BY DEF Asleep

-----------------------------------------------------------------------------
(* Tasks that have ended *)

\* A step leaves a task that has ended alone, but for its deletion.
LEMMA EndsOnce ==
    ASSUME PipelineAssumption, TypeInv, StepInv, [Next]_vars, NEW t \in Single,
           task[t] \in {"Finished", "Failed"}
    PROVE  task'[t] \in {task[t], "deleted"}
<1>1. t \in Task
  BY DEF Single
<1>2. CASE UNCHANGED vars
  BY <1>2 DEF vars
<1>3. ASSUME NEW ts \in SUBSET Task, Execute(ts) PROVE task'[t] = task[t]
  BY <1>1, <1>3 DEF Execute, InitializeExecution
<1>4. ASSUME NEW u \in Task, DeleteTask(u) PROVE task'[t] \in {task[t], "deleted"}
  BY <1>1, <1>4 DEF DeleteTask, TypeInv, RowsOK
<1>5. CASE Coroutines
  <2> PICK u : u = Head(loop).task
    OBVIOUS
  <2>1. u # t => task'[t] = task[t]
    BY <1>1, <1>5, CoroutinesOnlyOf DEF OnlyOf
  <2>2. ASSUME u = t PROVE task'[t] = task[t]
    <3>1. CASE Start
      BY <2>2, <3>1, StartsNow, BeforeStart
    <3>2. CASE Launch \/ ExecuteSend \/ Process \/ Next1
      BY <3>2 DEF Launch, ExecuteSend, Process, Next1, rowVars
    <3>3. CASE ExecuteSkip
      <4>1. t \in Rows
        BY <1>1 DEF Rows, Status
      <4> QED
        BY <2>2, <3>3, <4>1, BeforeSkip
    <3>4. CASE RunFinish
      <4>1. /\ Finish(t, Head(loop).failed) /\ Head(loop).failed \in BOOLEAN
            /\ Head(loop).failed = FALSE => task[t] \notin {"Finished", "Failed"}
            /\ Head(loop).failed = TRUE => task[t] # "Finished"
        BY <2>2, <3>4, BeforeFinish
      <4>2. Head(loop).failed = TRUE /\ task[t] = "Failed"
        BY <4>1
      <4>3. Finish(t, TRUE)
        BY <4>1, <4>2
      <4> QED
        BY <1>1, <4>2, <4>3, FinishEnds
    <3> QED
      BY <1>5, <3>1, <3>2, <3>3, <3>4 DEF Coroutines
  <2> QED
    BY <2>1, <2>2
<1>6. ASSUME NEW w \in sleeping, Wake(w) PROVE task'[t] = task[t]
  <2> PICK u : u = w.task
    OBVIOUS
  <2>1. u # t
    BY WakesNow, BeforeStart
  <2> QED
    BY <1>1, <1>6, <2>1, WakeOnlyOf DEF OnlyOf
<1>7. CASE \/ \E u \in sends : Sent(u)
           \/ \E u \in units, o \in Outcomes : Answer(u, o)
           \/ \E i \in DOMAIN answers, o \in Outcomes, again \in BOOLEAN :
                  AnswerAgain(i, o, again)
           \/ Receive \/ Commit \/ CommitFails \/ Crash \/ Restart
  BY <1>7 DEF Sent, Answer, AnswerAgain, Receive, Commit, CommitFails, Crash, Restart, rowVars
<1> QED
  BY <1>2, <1>3, <1>4, <1>5, <1>6, <1>7 DEF Next

\* A task that has ended stays as it ended, or is deleted, as long as none of its steps
\* is answered twice (process_message, finish).
THEOREM EndedStay == Spec => EndedTasksStay
<1>1. TypeInv /\ StepInv /\ [Next]_vars =>
          [\A t \in Task \ repeated :
               task[t] \in {"Finished", "Failed"} => task'[t] \in {task[t], "deleted"}]_vars
  BY PipelineAssumption, EndsOnce DEF Single
<1> QED
  BY <1>1, TypeInvariant, StepInvariant, PTL DEF Spec, EndedTasksStay

-----------------------------------------------------------------------------
(* What is merged *)

\* Steps that are all done stay so.
LEMMA FinishedStay ==
    ASSUME PipelineAssumption, TypeInv, StepInv, [Next]_vars, NEW t \in Single, AllFinished(t)
    PROVE  AllFinished(t)'
<1>1. t \in Task /\ TaskInv(t)
  BY DEF Single, StepInv
<1>2. pipe' = pipe => Steps' = Steps
  BY DEF Steps
<1>3. ASSUME pipe' = pipe, step'[t] = step[t] PROVE AllFinished(t)'
  BY <1>2, <1>3 DEF AllFinished
<1>4. CASE Coroutines
  <2> PICK u : u = Head(loop).task
    OBVIOUS
  <2>1. u # t => AllFinished(t)'
    BY <1>1, <1>3, <1>4, CoroutinesOnlyOf DEF OnlyOf
  <2>2. ASSUME u = t PROVE AllFinished(t)'
    <3>1. CASE Start
      BY <2>2, <3>1, StartsNow, BeforeStart
    <3>2. CASE ExecuteSend \/ Next1
      BY <1>3, <3>2 DEF ExecuteSend, Next1, rowVars
    <3>3. CASE Launch \/ Process
      <4> PICK s : s = Head(loop).step
        OBVIOUS
      <4>1. /\ loop # <<>> /\ Head(loop).kind \in {"launch", "process"}
            /\ Head(loop).kind \in StepKinds
        BY <3>3 DEF Launch, Process, Head1, StepKinds
      <4>2. s \in Steps /\ (Queued("launch", t, s) \/ Queued("process", t, s))
        BY <2>2, <4>1, HeadKnown, HeadQueued DEF TypeInv
      <4>3. step[t][s] # "Finished"
        BY <1>1, <4>2 DEF TaskInv, StepPlaces
      <4> QED
        BY <4>2, <4>3 DEF AllFinished
    <3>4. CASE ExecuteSkip
      <4>1. pipe' = pipe /\ (t \notin Rows => step' = step)
        BY <2>2, <3>4 DEF ExecuteSkip, UpdateStep
      <4> PICK s : s = Head(loop).step
        OBVIOUS
      <4>2. t \in Rows => s \in Steps /\ step[t][s] = "Running"
        BY <2>2, <3>4, BeforeSkip
      <4> QED
        BY <1>3, <4>1, <4>2 DEF AllFinished
    <3>5. CASE RunFinish
      BY <1>3, <3>5 DEF RunFinish
    <3> QED
      BY <1>4, <3>1, <3>2, <3>3, <3>4, <3>5 DEF Coroutines
  <2> QED
    BY <2>1, <2>2
<1>5. ASSUME NEW w \in sleeping, Wake(w) PROVE AllFinished(t)'
  <2> PICK u : u = w.task
    OBVIOUS
  <2>1. u # t
    BY WakesNow, BeforeStart
  <2> QED
    BY <1>1, <1>3, <1>5, <2>1, WakeOnlyOf DEF OnlyOf
<1>6. CASE \/ UNCHANGED vars
           \/ \E ts \in SUBSET Task : Execute(ts)
           \/ \E u \in Task : DeleteTask(u)
           \/ \E u \in sends : Sent(u)
           \/ \E u \in units, o \in Outcomes : Answer(u, o)
           \/ \E i \in DOMAIN answers, o \in Outcomes, again \in BOOLEAN :
                  AnswerAgain(i, o, again)
           \/ Receive \/ Commit \/ CommitFails \/ Crash \/ Restart
  BY <1>3, <1>6 DEF vars, Execute, DeleteTask, Sent, Answer, AnswerAgain, Receive, Commit,
     CommitFails, Crash, Restart, rowVars
<1> QED
  BY <1>4, <1>5, <1>6 DEF Next

\* What StoreInv says of one task.
TaskStored(t) ==
    /\ posted[t] # {} => AllFinished(t)
    /\ Alone(t) => /\ posted[t] # {} => posted[t] = ResultsOf(t)
                   /\ pipe.type = "inference" =>
                          \/ store[t] = WithResult(t)
                          \/ AllFinished(t) /\ store[t] = {}

\* The end of a task whose steps are all done stores and posts what was found.
LEMMA FinishStored ==
    ASSUME PipelineAssumption, TypeInv, NEW t \in Single, TaskStored(t),
           NEW failed \in BOOLEAN, Finish(t, failed), UNCHANGED <<pipe, answers>>,
           ~failed => AllFinished(t)', AllFinished(t) => AllFinished(t)'
    PROVE  TaskStored(t)'
<1>1. WithResult(t)' = WithResult(t) /\ ResultsOf(t)' = ResultsOf(t) /\ Alone(t)' = Alone(t)
  BY DEF WithResult, ResultsOf, Alone
<1>2. \/ store' = store /\ posted' = posted
      \/ /\ ~failed /\ pipe.type = "inference"
         /\ Alone(t) => posted'[t] = {t} \X store[t] /\ store'[t] \in {store[t], {}}
  BY FinishStores DEF TypeInv, Single
<1>3. CASE store' = store /\ posted' = posted
  BY <1>1, <1>3 DEF TaskStored
<1>4. CASE ~(store' = store /\ posted' = posted)
  <2>1. AllFinished(t)'
    BY <1>2, <1>4
  <2>2. ASSUME Alone(t)
        PROVE  /\ posted'[t] # {} => posted'[t] = ResultsOf(t)
               /\ store'[t] \in {WithResult(t), {}}
    <3>1. posted'[t] = {t} \X store[t] /\ store'[t] \in {store[t], {}}
      BY <1>2, <1>4, <2>2
    <3>2. store[t] = WithResult(t) \/ store[t] = {}
      BY <1>2, <1>4, <2>2 DEF TaskStored
    <3> QED
      BY <3>1, <3>2 DEF ResultsOf
  <2> QED
    BY <1>1, <2>1, <2>2 DEF TaskStored
<1> QED
  BY <1>3, <1>4

\* What a pair is made of.
LEMMA PairOf ==
    ASSUME NEW A, NEW B, NEW u \in A \X B
    PROVE  \E x \in A, y \in B : u = <<x, y>>
OBVIOUS

\* A model answers: its result is stored with its answer.
LEMMA AnswerStored ==
    ASSUME PipelineAssumption, TypeInv, NEW t \in Single, TaskStored(t), TaskInv(t),
           AllFinished(t) => AllFinished(t)',
           NEW u \in units, NEW o \in Outcomes, Answer(u, o)
    PROVE  TaskStored(t)'
<1>0. t \in Task
  BY DEF Single
<1> PICK x \in Task, s \in Steps : u = <<x, s>>
  <2>1. u \in Task \X Steps
    BY DEF TypeInv, KafkaOK
  <2> QED
    BY ONLY <2>1, PairOf
<1> PICK m : m = [task |-> x, step |-> s, outcome |-> o]
  OBVIOUS
<1>1. /\ answers' = Append(answers, m) /\ committed' = committed /\ pipe' = pipe
      /\ posted' = posted
      /\ store' = IF o = "result" /\ pipe.type = "inference"
                  THEN [store EXCEPT ![x] = @ \cup {s}] ELSE store
      /\ m.task = x /\ m.step = s /\ m.outcome = o /\ s \in Step /\ o \in AnswerKinds
  BY PipeFacts DEF Answer, TypeInv, PipelineAssumption
<1>2. \A y, r : r \in WithResult(y)' <=>
                    r \in WithResult(y) \/ (x = y /\ s = r /\ o = "result")
  <2>1. answers \in Seq(KnownMessage) /\ committed \in 0 .. Len(answers)
    BY LenProperties DEF TypeInv, KafkaOK
  <2>2. m \in KnownMessage
    BY <1>1 DEF KnownMessage, Message
  <2> QED
    BY <1>1, <2>1, <2>2, OneAnswered
<1>3. CASE x # t
  <2>1. WithResult(t)' = WithResult(t) /\ ResultsOf(t)' = ResultsOf(t)
    <3>1. \A r : r \in WithResult(t)' <=> r \in WithResult(t)
      BY <1>2, <1>3
    <3>2. WithResult(t) \subseteq Step /\ WithResult(t)' \subseteq Step
      BY DEF WithResult
    <3> QED
      BY <3>1, <3>2 DEF ResultsOf
  <2>2. store'[t] = store[t] /\ Alone(t)' = Alone(t)
    BY <1>0, <1>1, <1>3 DEF TypeInv, OutOK, Alone
  <2> QED
    BY <1>0, <1>1, <2>1, <2>2 DEF TaskStored
<1>4. CASE x = t
  <2>1. ~AllFinished(t)
    BY <1>0, <1>4 DEF TaskInv, StepPlaces, AllFinished
  <2>2. /\ posted'[t] = {} /\ Alone(t)' = Alone(t)
        /\ Alone(t) /\ pipe.type = "inference" => store[t] = WithResult(t)
    BY <1>0, <1>1, <2>1 DEF TaskStored, Alone
  <2>3. WithResult(t)' = IF o = "result" THEN WithResult(t) \cup {s} ELSE WithResult(t)
    <3>1. \A r : r \in WithResult(t)' <=>
              r \in (IF o = "result" THEN WithResult(t) \cup {s} ELSE WithResult(t))
      BY <1>2, <1>4
    <3>2. WithResult(t) \subseteq Step /\ WithResult(t)' \subseteq Step
      BY DEF WithResult
    <3> QED
      BY <1>1, <3>1, <3>2
  <2>4. pipe.type = "inference" =>
            store'[t] = IF o = "result" THEN store[t] \cup {s} ELSE store[t]
    BY <1>0, <1>1, <1>4 DEF TypeInv, OutOK
  <2> QED
    BY <1>1, <2>2, <2>3, <2>4 DEF TaskStored
<1> QED
  BY <1>3, <1>4

\* A step of any action keeps StoreInv.
LEMMA StoredStep ==
    ASSUME PipelineAssumption, TypeInv, StepInv, StoreInv, [Next]_vars
    PROVE  StoreInv'
<1>1. \A t \in Single : TaskStored(t)
  BY DEF StoreInv, TaskStored
<1>2. SUFFICES ASSUME NEW t \in Single, t \in Single' PROVE TaskStored(t)'
  <2>1. Single' \subseteq Single
    BY DEF Single, Next, vars, Execute, DeleteTask, Coroutines, Start, Launch, ExecuteSend,
       ExecuteSkip, Process, Next1, RunFinish, Wake, Sent, Answer, AnswerAgain, Receive,
       Commit, CommitFails, Crash, Restart
  <2> QED
    BY <1>2, <2>1 DEF StoreInv, TaskStored
<1>3. t \in Task /\ TaskStored(t) /\ TaskInv(t)
  BY <1>1 DEF Single, StepInv
<1>4. AllFinished(t) => AllFinished(t)'
  BY FinishedStay
<1>5. ASSUME UNCHANGED <<pipe, answers>>, Alone(t) => store'[t] = store[t],
             posted'[t] = posted[t]
      PROVE  TaskStored(t)'
  <2>1. /\ WithResult(t)' = WithResult(t) /\ ResultsOf(t)' = ResultsOf(t)
        /\ Alone(t)' = Alone(t)
    BY <1>5 DEF WithResult, ResultsOf, Alone
  <2> QED
    BY <1>3, <1>4, <1>5, <2>1 DEF TaskStored
<1>6. CASE Coroutines
  <2> PICK u : u = Head(loop).task
    OBVIOUS
  <2>1. OnlyOf(u)
    BY <1>6, CoroutinesOnlyOf
  <2>2. CASE u # t
    BY <1>3, <1>5, <2>1, <2>2 DEF OnlyOf
  <2>3. CASE u = t
    <3>1. CASE Start
      <4>1. (store' = store /\ posted' = posted) \/ FileUnusable(t)
        BY <2>3, <3>1 DEF Start, Started, outVars
      <4>2. ASSUME FileUnusable(t) PROVE TaskStored(t)'
        BY <1>3, <1>4, <2>1, <4>2, FinishStored DEF FileUnusable, OnlyOf
      <4> QED
        BY <1>5, <2>1, <4>1, <4>2 DEF OnlyOf
    <3>2. CASE Launch \/ ExecuteSend \/ Process \/ Next1
      BY <1>5, <2>1, <3>2 DEF Launch, ExecuteSend, Process, Next1, outVars, OnlyOf
    <3>3. CASE ExecuteSkip
      <4>1. \/ store' = store /\ posted' = posted
            \/ t \in Rows /\ IsCompleted(step', t) /\ Finish(t, FALSE)
        BY <2>3, <3>3 DEF ExecuteSkip, outVars
      <4>2. ASSUME t \in Rows, IsCompleted(step', t), Finish(t, FALSE) PROVE TaskStored(t)'
        <5>1. AllFinished(t)'
          BY <2>3, <3>3, <4>2, BeforeSkip
        <5> QED
          BY <1>3, <1>4, <2>1, <4>2, <5>1, FinishStored DEF OnlyOf
      <4> QED
        BY <1>5, <2>1, <4>1, <4>2 DEF OnlyOf
    <3>4. CASE RunFinish
      <4> PICK failed : failed = Head(loop).failed
        OBVIOUS
      <4>1. Finish(t, failed) /\ failed \in BOOLEAN /\ (failed = FALSE => AllFinished(t))
        BY <2>3, <3>4, BeforeFinish
      <4> QED
        BY <1>3, <1>4, <2>1, <4>1, FinishStored DEF OnlyOf
    <3> QED
      BY <1>6, <3>1, <3>2, <3>3, <3>4 DEF Coroutines
  <2> QED
    BY <2>2, <2>3
<1>7. ASSUME NEW w \in sleeping, Wake(w) PROVE TaskStored(t)'
  <2> PICK u : u = w.task
    OBVIOUS
  <2>1. OnlyOf(u)
    BY <1>7, WakeOnlyOf
  <2>2. CASE u # t
    BY <1>3, <1>5, <2>1, <2>2 DEF OnlyOf
  <2>3. CASE u = t
    <3>1. (store' = store /\ posted' = posted) \/ FileUnusable(t)
      BY <1>7, <2>3 DEF Wake, outVars
    <3>2. ASSUME FileUnusable(t) PROVE TaskStored(t)'
      BY <1>3, <1>4, <2>1, <3>2, FinishStored DEF FileUnusable, OnlyOf
    <3> QED
      BY <1>5, <2>1, <3>1, <3>2 DEF OnlyOf
  <2> QED
    BY <2>2, <2>3
<1>8. ASSUME NEW u \in units, NEW o \in Outcomes, Answer(u, o) PROVE TaskStored(t)'
  BY <1>3, <1>4, <1>8, AnswerStored
<1>9. ASSUME NEW i \in DOMAIN answers, NEW o \in Outcomes, NEW again \in BOOLEAN,
             AnswerAgain(i, o, again)
      PROVE  TaskStored(t)'
  <2> PICK m : m = [answers[i] EXCEPT !.outcome = o]
    OBVIOUS
  <2>1. /\ answers' = Append(answers, m) /\ committed' = committed /\ pipe' = pipe
        /\ posted' = posted /\ repeated' = repeated \cup {answers[i].task}
    BY <1>9 DEF AnswerAgain
  <2>2. /\ answers[i].task # t
        /\ \/ store' = store
           \/ store' = [store EXCEPT ![answers[i].task] = @ \cup {answers[i].step}]
    BY <1>2, <1>9, <2>1 DEF Single, AnswerAgain
  <2>3. m \in KnownMessage /\ m.task # t
    <3>1. answers[i] \in KnownMessage /\ o \in AnswerKinds
      BY ElementOfSeq, LenProperties DEF TypeInv, KafkaOK, PipelineAssumption
    <3> QED
      BY <2>2, <3>1 DEF KnownMessage, Message
  <2>4. WithResult(t)' = WithResult(t) /\ ResultsOf(t)' = ResultsOf(t)
    <3>1. /\ answers \in Seq(KnownMessage) /\ Len(answers) \in Nat
          /\ DOMAIN answers = 1 .. Len(answers)
      BY LenProperties DEF TypeInv, KafkaOK
    <3>2. /\ DOMAIN answers' = 1 .. (Len(answers) + 1)
          /\ \A n \in DOMAIN answers : answers'[n] = answers[n] /\ n \in DOMAIN answers'
          /\ \A n \in DOMAIN answers' :
                 (n \in DOMAIN answers /\ answers'[n] = answers[n]) \/ answers'[n] = m
      BY <2>1, <2>3, <3>1, AppendProperties
    <3>3. WithResult(t)' = WithResult(t)
      BY <2>3, <3>2, ZenonT(30) DEF WithResult
    <3> QED
      BY <3>3 DEF ResultsOf
  <2>5. store'[t] = store[t] /\ Alone(t)' = Alone(t)
    BY <1>3, <2>1, <2>2 DEF TypeInv, OutOK, Alone
  <2> QED
    BY <1>3, <1>4, <2>1, <2>4, <2>5 DEF TaskStored
<1>10. CASE \/ UNCHANGED vars
            \/ \E ts \in SUBSET Task : Execute(ts)
            \/ \E u \in Task : DeleteTask(u)
            \/ \E u \in sends : Sent(u)
            \/ Receive \/ Commit \/ CommitFails \/ Crash \/ Restart
  BY <1>5, <1>10 DEF vars, Execute, DeleteTask, Sent, Receive, Commit, CommitFails, Crash,
     Restart, outVars, kafkaVars
<1> QED
  BY <1>6, <1>7, <1>8, <1>9, <1>10 DEF Next

\* Only a task whose steps are all done has results posted, and what is posted of it and
\* what is in object storage is what its steps found (finish,
\* manage_result_for_annotator), unless a step was answered twice or another path in
\* the storage begins alike.
THEOREM StoreInvariant == Spec => []StoreInv
<1>1. PipelineAssumption /\ Init => StoreInv
  <2> SUFFICES ASSUME PipelineAssumption, Init PROVE StoreInv
    OBVIOUS
  <2>1. \A t : WithResult(t) = {}
    BY HasNone DEF Init, WithResult
  <2> QED
    BY <2>1 DEF Init, StoreInv, Single
<1>2. TypeInv /\ StepInv /\ StoreInv /\ [Next]_vars => StoreInv'
  BY PipelineAssumption, StoredStep
<1> QED
  BY <1>1, <1>2, PipelineAssumption, TypeInvariant, StepInvariant, PTL DEF Spec

\* What the annotation service gets for a task is sent when all of its steps are done,
\* and is what all of them found (finish, manage_result_for_annotator), unless a step
\* was answered twice or another path in object storage begins alike.
THEOREM MergedComplete == Spec => []MergedResultsAreComplete
<1>1. StoreInv => MergedResultsAreComplete
  BY DEF StoreInv, MergedResultsAreComplete, Single, AllFinished
<1> QED
  BY <1>1, StoreInvariant, PTL

-----------------------------------------------------------------------------
(* What is added *)

\* A step of the system that handles no task but those that are there, and adds none.
LEMMA NoneAdded ==
    ASSUME AddedInv, pipe' = pipe, faults \subseteq faults',
           \A t \in Task : Handled(t)' => Handled(t),
           \A t \in Task :
               /\ task'[t] = "absent" <=> task[t] = "absent"
               /\ task'[t] = "deleted" => task[t] = "deleted" \/ "delete" \in faults'
    PROVE  AddedInv'
BY DEF AddedInv

\* The coroutine of a task handles that task.
LEMMA OnlyOfAdded ==
    ASSUME TypeInv, AddedInv, NEW u \in Task, OnlyOf(u), Handled(u)
    PROVE  AddedInv'
<1>1. /\ UNCHANGED <<pipe, units, answers>> /\ Steps' = Steps /\ faults \subseteq faults'
      /\ task'[u] = "absent" <=> task[u] = "absent"
      /\ task'[u] = "deleted" <=> task[u] = "deleted"
      /\ \A t \in Task \ {u} : task'[t] = task[t]
  BY DEF OnlyOf, Steps
<1>2. ASSUME NEW t \in Task, Handled(t)' PROVE Handled(t)
  <2>1. CASE t = u
    BY <2>1
  <2>2. CASE t # u
    <3>1. ASSUME NEW i \in DOMAIN loop', loop'[i].task = t
          PROVE  \E j \in DOMAIN loop : loop[j].task = t
      BY <2>2, <3>1 DEF OnlyOf
    <3>2. Asleep(t)' => Asleep(t)
      BY <2>2 DEF OnlyOf, Asleep
    <3>3. \A s \in Steps : <<t, s>> \in sends' \cup units' => <<t, s>> \in sends \cup units
      BY <1>1, <2>2 DEF OnlyOf
    <3> QED
      BY <1>1, <1>2, <3>1, <3>2, <3>3 DEF Handled
  <2> QED
    BY <2>1, <2>2
<1>3. \A t \in Task :
          /\ task'[t] = "absent" <=> task[t] = "absent"
          /\ task'[t] = "deleted" => task[t] = "deleted"
  BY <1>1
<1> QED
  BY <1>1, <1>2, <1>3, NoneAdded

\* Tasks are added.
LEMMA ExecuteAdds ==
    ASSUME PipelineAssumption, TypeInv, AddedInv, NEW ts \in SUBSET Task, Execute(ts)
    PROVE  AddedInv'
<1> PICK q \in Ascending(ts) : loop' = loop \o [i \in DOMAIN q |-> StartTask(q[i])]
  BY DEF Execute, InitializeExecution
<1> PICK new : new = [i \in DOMAIN q |-> StartTask(q[i])]
  OBVIOUS
<1>1. /\ UNCHANGED <<pipe, sleeping, sends, units, answers, faults>>
      /\ \A t \in ts : task[t] = "absent" /\ t \in pipe.files /\ task'[t] = "Pending"
      /\ \A u \in Task \ ts : task'[u] = task[u]
      /\ Steps' = Steps /\ loop' = loop \o new
  BY DEF Execute, InitializeExecution, Steps, kafkaVars
<1>2. Cardinality(ts) \in Nat /\ q \in [1 .. Cardinality(ts) -> ts]
  <2>1. ts \subseteq pipe.files /\ IsFiniteSet(ts)
    BY <1>1, PipeFacts, FS_Subset DEF TypeInv
  <2> QED
    BY <2>1, FS_CardinalityType DEF Ascending
<1>3. /\ DOMAIN new = 1 .. Cardinality(ts)
      /\ \A i \in DOMAIN new : new[i] = StartTask(q[i]) /\ q[i] \in ts /\ q[i] \in Task
  BY <1>2
<1>4. new \in Seq(KnownCoroutine) /\ \A i \in DOMAIN new : new[i].task \in ts
  <2>1. \A i \in DOMAIN new : new[i] \in KnownCoroutine
    BY <1>3, KnownMade DEF TypeInv
  <2>2. new = [i \in 1 .. Cardinality(ts) |-> new[i]]
    BY <1>3
  <2>3. new \in Seq(KnownCoroutine)
    BY <1>2, <1>3, <2>1, <2>2, IsASeq, SMTT(30)
  <2> QED
    BY <1>3, <2>3 DEF StartTask
<1>5. \A i \in DOMAIN loop' :
          loop'[i].task \in ts \/ \E j \in DOMAIN loop : loop'[i] = loop[j]
  BY <1>1, <1>4, AddedElements DEF TypeInv, LoopOK
<1>6. ASSUME NEW t \in Task, t \notin ts, Handled(t)' PROVE Handled(t)
  <2>1. ASSUME NEW i \in DOMAIN loop', loop'[i].task = t
        PROVE  \E j \in DOMAIN loop : loop[j].task = t
    BY <1>5, <1>6, <2>1
  <2>2. Asleep(t)' <=> Asleep(t)
    BY <1>1 DEF Asleep
  <2> QED
    BY <1>1, <1>6, <2>1, <2>2 DEF Handled
<1>7. ASSUME NEW t \in Task
      PROVE  /\ Handled(t)' => task'[t] # "absent"
             /\ task'[t] # "absent" => t \in pipe.files
             /\ task'[t] = "deleted" => "delete" \in faults
  <2>1. CASE t \in ts
    BY <1>1, <2>1
  <2>2. CASE t \notin ts
    BY <1>1, <1>6, <1>7, <2>2 DEF AddedInv
  <2> QED
    BY <2>1, <2>2
<1> QED
  BY <1>1, <1>7 DEF AddedInv

\* Kafka hands on what is of tasks that were added.
LEMMA KafkaAdds ==
    ASSUME PipelineAssumption, TypeInv, AddedInv,
           \/ \E u \in sends : Sent(u)
           \/ \E u \in units, o \in Outcomes : Answer(u, o)
           \/ \E i \in DOMAIN answers, o \in Outcomes, again \in BOOLEAN :
                  AnswerAgain(i, o, again)
           \/ Commit
    PROVE  AddedInv'
<1>1. UNCHANGED <<pipe, task, sleeping>> /\ faults \subseteq faults' /\ Steps' = Steps
  BY DEF Sent, Answer, AnswerAgain, Commit, rowVars, Steps, Fault, Happen
<1>2. SUFFICES ASSUME NEW t \in Task, Handled(t)' PROVE Handled(t)
  BY <1>1, NoneAdded
<1>3. ASSUME NEW u \in sends, Sent(u) PROVE Handled(t)
  <2>1. loop' = loop /\ answers' = answers /\ sends' \cup units' \subseteq sends \cup units
    BY <1>3 DEF Sent
  <2> QED
    BY <1>1, <1>2, <2>1 DEF Handled, Asleep
<1>4. ASSUME NEW m \in KnownMessage, answers' = Append(answers, m),
             UNCHANGED <<loop, sends>>, units' \subseteq units, Handled(m.task)
      PROVE  Handled(t)
  <2>1. \A i \in DOMAIN answers' :
            (i \in DOMAIN answers /\ answers'[i] = answers[i]) \/ answers'[i] = m
    <3>1. answers \in Seq(KnownMessage) /\ Len(answers) \in Nat
          /\ DOMAIN answers = 1 .. Len(answers)
      BY LenProperties DEF TypeInv, KafkaOK
    <3> QED
      BY <1>4, <3>1, AppendProperties
  <2>2. CASE t = m.task
    BY <1>4, <2>2
  <2>3. CASE t # m.task
    BY <1>1, <1>2, <1>4, <2>1, <2>3 DEF Handled, Asleep
  <2> QED
    BY <2>2, <2>3
<1>5. ASSUME NEW u \in units, NEW o \in Outcomes, Answer(u, o) PROVE Handled(t)
  <2>1. u \in Task \X Steps
    BY <1>5 DEF TypeInv, KafkaOK
  <2> PICK x \in Task, s \in Steps : u = <<x, s>>
    BY <2>1
  <2> PICK m : m = [task |-> x, step |-> s, outcome |-> o]
    OBVIOUS
  <2>2. /\ answers' = Append(answers, m) /\ UNCHANGED <<loop, sends>> /\ units' \subseteq units
        /\ m \in KnownMessage /\ m.task = x
    BY <1>5, PipeFacts DEF Answer, PipelineAssumption, TypeInv, KnownMessage, Message
  <2>3. Handled(x)
    BY DEF Handled
  <2> QED
    BY <1>4, <2>2, <2>3
<1>6. ASSUME NEW i \in DOMAIN answers, NEW o \in Outcomes, NEW again \in BOOLEAN,
             AnswerAgain(i, o, again)
      PROVE  Handled(t)
  <2> PICK m : m = [answers[i] EXCEPT !.outcome = o]
    OBVIOUS
  <2>1. answers' = Append(answers, m) /\ UNCHANGED <<loop, sends, units>>
    BY <1>6 DEF AnswerAgain
  <2>2. answers[i] \in KnownMessage /\ o \in AnswerKinds
    BY ElementOfSeq, LenProperties DEF TypeInv, KafkaOK, PipelineAssumption
  <2>3. m \in KnownMessage /\ m.task = answers[i].task
    BY <2>2 DEF KnownMessage, Message
  <2>4. Handled(m.task)
    BY <2>3 DEF Handled
  <2> QED
    BY <1>4, <2>1, <2>3, <2>4
<1>7. ASSUME Commit PROVE Handled(t)
  <2>1. /\ UNCHANGED <<sends, units, answers>> /\ position \in DOMAIN answers
        /\ loop' = Append(loop, ProcessMessage(answers[position]))
    BY <1>7, LenProperties DEF Commit, TypeInv, KafkaOK
  <2>2. ProcessMessage(answers[position]) \in KnownCoroutine
    <3>1. answers[position] \in KnownMessage
      BY <2>1, ElementOfSeq, LenProperties DEF TypeInv, KafkaOK
    <3> PICK m \in KnownMessage : m = answers[position]
      BY <3>1
    <3>2. /\ m.task \in Task /\ m.step \in Steps /\ m.outcome \in AnswerKinds
          /\ m = [task |-> m.task, step |-> m.step, outcome |-> m.outcome]
      BY DEF KnownMessage, Message
    <3> QED
      BY <3>2, KnownMade DEF TypeInv
  <2>3. \A i \in DOMAIN loop' :
            \/ i \in DOMAIN loop /\ loop'[i] = loop[i]
            \/ loop'[i] = ProcessMessage(answers[position])
    <3>1. loop \in Seq(KnownCoroutine) /\ Len(loop) \in Nat /\ DOMAIN loop = 1 .. Len(loop)
      BY LenProperties DEF TypeInv, LoopOK
    <3> QED
      BY <2>1, <2>2, <3>1, AppendProperties
  <2>4. ProcessMessage(answers[position]).task = answers[position].task
    BY DEF ProcessMessage
  <2> QED
    BY <1>1, <1>2, <2>1, <2>3, <2>4 DEF Handled, Asleep
<1> QED
  BY <1>3, <1>5, <1>6, <1>7

\* A step of any action keeps AddedInv.
LEMMA AddedStep ==
    ASSUME PipelineAssumption, TypeInv, AddedInv, [Next]_vars
    PROVE  AddedInv'
<1>1. ASSUME Coroutines PROVE AddedInv'
  <2> PICK u : u = Head(loop).task
    OBVIOUS
  <2>1. OnlyOf(u) /\ u \in Task /\ loop # <<>>
    BY <1>1, CoroutinesOnlyOf
  <2>2. Handled(u)
    BY <2>1, HeadQueued DEF Handled
  <2> QED
    BY <2>1, <2>2, OnlyOfAdded
<1>2. ASSUME NEW w \in sleeping, Wake(w) PROVE AddedInv'
  <2> PICK u : u = w.task
    OBVIOUS
  <2>1. OnlyOf(u) /\ u \in Task
    BY <1>2, WakeOnlyOf DEF TypeInv, LoopOK
  <2>2. Handled(u)
    BY WakesNow DEF Handled
  <2> QED
    BY <2>1, <2>2, OnlyOfAdded
<1>3. ASSUME NEW t \in Task, DeleteTask(t) PROVE AddedInv'
  <2>1. /\ UNCHANGED <<pipe, loop, sleeping, sends, units, answers>> /\ Steps' = Steps
        /\ "delete" \in faults' /\ faults \subseteq faults'
        /\ task[t] # "absent" /\ task' = [task EXCEPT ![t] = "deleted"]
    BY <1>3 DEF DeleteTask, kafkaVars, Steps, Fault, Happen, Rows, Status
  <2>2. \A u \in Task : Handled(u)' <=> Handled(u)
    BY <2>1 DEF Handled, Asleep
  <2>3. \A u \in Task : task'[u] = "absent" <=> task[u] = "absent"
    BY <2>1 DEF TypeInv, RowsOK
  <2> QED
    BY <2>1, <2>2, <2>3, NoneAdded
<1>4. ASSUME UNCHANGED vars \/ Receive \/ CommitFails \/ Crash \/ Restart PROVE AddedInv'
  <2>1. /\ UNCHANGED <<pipe, task, units, answers>> /\ Steps' = Steps
        /\ faults \subseteq faults'
        /\ loop' = loop \/ loop' = <<>>
        /\ sends' = sends \/ sends' = {}
        /\ sleeping' = sleeping \/ sleeping' = {}
    BY <1>4 DEF vars, Receive, CommitFails, Crash, Restart, rowVars, kafkaVars, Steps, Fault, Happen
  <2>2. DOMAIN loop' = {} \/ loop' = loop
    BY <2>1, HasNone
  <2>3. \A u \in Task : Handled(u)' => Handled(u)
    BY <2>1, <2>2 DEF Handled, Asleep
  <2> QED
    BY <2>1, <2>3, NoneAdded
<1> QED
  BY <1>1, <1>2, <1>3, <1>4, ExecuteAdds, KafkaAdds DEF Next

\* Only tasks that were added are handled, and they are tasks of the files; only a request
\* deletes them (add_task, delete_instance).
THEOREM AddedInvariant == Spec => []AddedInv
<1>1. PipelineAssumption /\ Init => AddedInv
  <2> SUFFICES ASSUME PipelineAssumption, Init PROVE AddedInv
    OBVIOUS
  <2>1. \A t \in Task : task[t] = "absent" /\ ~Handled(t)
    BY HasNone DEF Init, Handled, Asleep
  <2> QED
    BY <2>1 DEF AddedInv
<1>2. TypeInv /\ AddedInv /\ [Next]_vars => AddedInv'
  BY PipelineAssumption, AddedStep
<1> QED
  BY <1>1, <1>2, PipelineAssumption, TypeInvariant, PTL DEF Spec

-----------------------------------------------------------------------------
(* What the job is told *)

Healthy == pipe.type = "inference" /\ faults \cap {"webhook", "token", "delete"} = {}

ToldAsEnded ==
    /\ (\E t \in Rows : task[t] = "Failed") => told[Job] = "Failed"
    /\ (Rows # {} /\ \A t \in Rows : task[t] = "Finished") => told[Job] = "Finished"

\* How many tasks of finitely many have a status.
LEMMA Counted ==
    ASSUME NEW tt, NEW files, IsFiniteSet(files),
           \A t \in Task : tt[t] \in Status => t \in files
    PROVE  /\ \A st \in Status :
                  /\ CountTasks(tt, st) \in Nat
                  /\ CountTasks(tt, st) = 0 <=> \A t \in Task : tt[t] # st
                  /\ \A t \in Task : (tt[t] = st /\ \A u \in Task \ {t} : tt[u] # st) =>
                         CountTasks(tt, st) = 1
           /\ \A st \in Status : (\A t \in Task : tt[t] \in Status => tt[t] = st) =>
                  CountTasks(tt, st) = Cardinality({t \in Task : tt[t] \in Status})
<1>1. ASSUME NEW st \in Status
      PROVE  /\ CountTasks(tt, st) \in Nat
             /\ CountTasks(tt, st) = 0 <=> \A t \in Task : tt[t] # st
             /\ \A t \in Task : (tt[t] = st /\ \A u \in Task \ {t} : tt[u] # st) =>
                    CountTasks(tt, st) = 1
  <2> DEFINE S == {t \in Task : tt[t] = st}
  <2>1. IsFiniteSet(S)
    <3>1. S \subseteq files
      OBVIOUS
    <3> QED
      BY <3>1, FS_Subset
  <2>2. Cardinality(S) \in Nat /\ (Cardinality(S) = 0 <=> S = {})
    BY <2>1, FS_CardinalityType, FS_EmptySet
  <2>3. ASSUME NEW t \in Task, tt[t] = st, \A u \in Task \ {t} : tt[u] # st
        PROVE  Cardinality(S) = 1
    <3>1. S = {t}
      BY <2>3
    <3> QED
      BY <3>1, FS_Singleton
  <2> QED
    BY <2>2, <2>3 DEF CountTasks
<1>2. ASSUME NEW st \in Status, \A t \in Task : tt[t] \in Status => tt[t] = st
      PROVE  CountTasks(tt, st) = Cardinality({t \in Task : tt[t] \in Status})
  <2>1. {t \in Task : tt[t] = st} = {t \in Task : tt[t] \in Status}
    BY <1>2
  <2> QED
    BY <2>1 DEF CountTasks
<1> QED
  BY <1>1, <1>2

\* A task gets a status, and the job is told what follows from it.
LEMMA ToldOne ==
    ASSUME PipelineAssumption, TypeInv, AddedInv, ToldAsEnded, pipe.type = "inference",
           NEW t \in Rows, NEW status \in {"Running", "Finished", "Failed"},
           task' = ChangeStatus(t, status), SendStatus(task', t, status, FALSE)
    PROVE  ToldAsEnded'
<1> PICK tt : tt = task'
  OBVIOUS
<1>1. /\ t \in Task /\ tt[t] = status /\ status \in Status
      /\ \A u \in Task \ {t} : tt[u] = task[u]
  BY ChangeStatusType DEF TypeInv, Rows, Status
<1>2. told' = IF JobStatusIfChanged(tt, status) = "none" THEN told
              ELSE [told EXCEPT ![Job] = JobStatusIfChanged(tt, status)]
  BY DEF SendStatus, StatusToTell
<1>3. told'[Job] = IF JobStatusIfChanged(tt, status) = "none" THEN told[Job]
                   ELSE JobStatusIfChanged(tt, status)
  BY <1>2 DEF TypeInv, OutOK
<1>4. /\ \A st \in Status :
             /\ CountTasks(tt, st) \in Nat
             /\ CountTasks(tt, st) = 0 <=> \A u \in Task : tt[u] # st
             /\ \A v \in Task : (tt[v] = st /\ \A u \in Task \ {v} : tt[u] # st) =>
                    CountTasks(tt, st) = 1
      /\ \A st \in Status : (\A u \in Task : tt[u] \in Status => tt[u] = st) =>
             CountTasks(tt, st) = Cardinality({u \in Task : tt[u] \in Status})
  <2>1. ASSUME NEW u \in Task, tt[u] \in Status PROVE u \in pipe.files
    <3>1. task[u] # "absent"
      BY <1>1, <2>1 DEF Rows, Status
    <3> QED
      BY <3>1 DEF AddedInv
  <2>2. IsFiniteSet(pipe.files)
    BY PipeFacts DEF TypeInv
  <2> QED
    BY <2>1, <2>2, Counted
<1>5. "Failed" \in Status /\ "Finished" \in Status /\ "Running" \in Status
  BY DEF Status
<1>6. ASSUME NEW u \in Task, tt[u] = "Failed" PROVE told'[Job] = "Failed"
  <2>1. CountTasks(tt, "Failed") > 0 /\ CountTasks(tt, "Failed") # 0
    BY <1>4, <1>5, <1>6
  <2>2. JobStatusIfChanged(tt, status) =
            IF CountTasks(tt, "Failed") = 1 /\ status = "Failed" THEN "Failed" ELSE "none"
    BY <2>1, Zenon DEF JobStatusIfChanged
  <2>3. CASE \A v \in Task \ {t} : tt[v] # "Failed"
    BY <1>1, <1>3, <1>4, <1>5, <1>6, <2>2, <2>3
  <2>4. ASSUME NEW v \in Task \ {t}, tt[v] = "Failed" PROVE told'[Job] = "Failed"
    <3>1. v \in Rows /\ task[v] = "Failed"
      BY <1>1, <1>5, <2>4 DEF Rows
    <3>2. told[Job] = "Failed"
      BY <3>1 DEF ToldAsEnded
    <3> QED
      BY <1>3, <2>2, <3>2
  <2> QED
    BY <2>3, <2>4
<1>7. ASSUME \A u \in Task : tt[u] \in Status => tt[u] = "Finished"
      PROVE  told'[Job] = "Finished"
  <2>1. CountTasks(tt, "Finished") = Cardinality({u \in Task : tt[u] \in Status})
    BY <1>4, <1>5, <1>7
  <2>2. CountTasks(tt, "Failed") = 0
    BY <1>4, <1>5, <1>7
  <2>3. JobStatusIfChanged(tt, status) = "Finished"
    BY <2>1, <2>2 DEF JobStatusIfChanged
  <2> QED
    BY <1>3, <2>3
<1> QED
  BY <1>6, <1>7 DEF ToldAsEnded, Rows

\* The end of a task, unless the webhook or the token is lost.
LEMMA ToldFinish ==
    ASSUME PipelineAssumption, TypeInv, AddedInv, ToldAsEnded, pipe.type = "inference",
           NEW t \in Rows, NEW failed \in BOOLEAN, Finish(t, failed),
           faults' \cap {"webhook", "token", "delete"} = {}
    PROVE  ToldAsEnded'
<1> PICK f \in SUBSET {"merge", "webhook", "token"} :
        /\ Happen(f)
        /\ IF "token" \in f THEN UNCHANGED <<task, outVars>>
           ELSE LET merges == ~failed /\ pipe.type = "inference"
                    managed == Listed(t) # {} /\ "merge" \notin f
                    status == IF failed \/ (merges /\ ~managed)
                              THEN "Failed" ELSE "Finished"
                IN  /\ IF merges THEN ManageResult(t, managed)
                       ELSE UNCHANGED <<store, posted>>
                    /\ task' = ChangeStatus(t, status)
                    /\ SendStatus(task', t, status, "webhook" \in f)
  BY DEF Finish
<1>1. "token" \notin f /\ "webhook" \notin f
  BY DEF Happen
<1> DEFINE managed == Listed(t) # {} /\ "merge" \notin f
           status == IF failed \/ (~failed /\ pipe.type = "inference" /\ ~managed)
                     THEN "Failed" ELSE "Finished"
<1>2. task' = ChangeStatus(t, status) /\ SendStatus(task', t, status, "webhook" \in f)
  BY <1>1
<1>3. SendStatus(task', t, status, FALSE)
  BY <1>1, <1>2, Zenon DEF SendStatus
<1>4. status \in {"Running", "Finished", "Failed"} /\ task' = ChangeStatus(t, status)
  BY <1>2
<1> HIDE DEF managed, status
<1> QED
  BY <1>3, <1>4, ToldOne, Zenon

\* A step that tells the job nothing.
LEMMA ToldSame ==
    ASSUME ToldAsEnded, task' = task, told' = told
    PROVE  ToldAsEnded'
BY DEF ToldAsEnded, Rows

\* A step of any action keeps ToldInv.
LEMMA ToldStep ==
    ASSUME PipelineAssumption, TypeInv, AddedInv, ToldInv, [Next]_vars
    PROVE  ToldInv'
<1>1. faults \subseteq faults' /\ pipe' = pipe
  BY DEF Next, vars, Execute, DeleteTask, Coroutines, Start, Started, Launch, ExecuteSend,
     ExecuteSkip, Process, Next1, RunFinish, Wake, FileUnusable, Finish, Sent, Answer,
     AnswerAgain, Receive, Commit, CommitFails, Crash, Restart, Fault, Happen
<1>2. SUFFICES ASSUME Healthy, faults' \cap {"webhook", "token", "delete"} = {}
               PROVE  ToldAsEnded'
  BY <1>1 DEF ToldInv, ToldAsEnded, Healthy
<1>3. ToldAsEnded /\ pipe.type = "inference"
  BY <1>2 DEF ToldInv, ToldAsEnded, Healthy
<1>4. ASSUME NEW t \in Task, Handled(t) PROVE t \in Rows
  <2>1. task[t] \in TaskStatus /\ task[t] # "absent" /\ task[t] # "deleted"
    BY <1>2, <1>4 DEF AddedInv, TypeInv, RowsOK, Healthy
  <2> QED
    BY <2>1 DEF Rows, TaskStatus
<1>5. ASSUME NEW ts \in SUBSET Task, Execute(ts) PROVE ToldAsEnded'
  <2>1. /\ told' = told /\ ts # {}
        /\ \A t \in ts : task[t] = "absent" /\ task'[t] = "Pending"
        /\ \A t \in Task \ ts : task'[t] = task[t]
    BY <1>5 DEF Execute, InitializeExecution, outVars
  <2>2. \E t \in Rows' : task'[t] = "Pending"
    BY <2>1 DEF Rows, Status
  <2>3. \A t \in Rows' : task'[t] = "Failed" => t \in Rows /\ task[t] = "Failed"
    BY <2>1 DEF Rows, Status
  <2> QED
    BY <1>3, <2>1, <2>2, <2>3 DEF ToldAsEnded
<1>6. ASSUME NEW t \in Task, DeleteTask(t) PROVE FALSE
  BY <1>2, <1>6 DEF DeleteTask, Fault, Happen
<1>7. ASSUME Coroutines PROVE ToldAsEnded'
  <2> PICK c : c = Head(loop)
    OBVIOUS
  <2> PICK t : t = c.task
    OBVIOUS
  <2>1. t \in Rows
    <3>1. loop # <<>> /\ t \in Task
      BY <1>7, CoroutinesOnlyOf
    <3> QED
      BY <1>4, <3>1, HeadQueued DEF Handled
  <2>2. CASE Start
    <3>1. \/ task' = task /\ told' = told
          \/ Started(t) \/ FileUnusable(t)
      BY <2>2 DEF Start, rowVars, outVars
    <3>2. ASSUME Started(t) PROVE ToldAsEnded'
      <4>1. PICK f \in SUBSET {"webhook", "token"} :
                /\ Happen(f) /\ task' = ChangeStatus(t, "Running")
                /\ SendStatus(task', t, "Running", f # {})
        BY <3>2 DEF Started
      <4>2. f = {}
        BY <1>2, <4>1 DEF Happen
      <4>3. SendStatus(task', t, "Running", FALSE)
        BY <4>1, <4>2 DEF SendStatus
      <4> QED
        BY <1>3, <2>1, <4>1, <4>3, ToldOne
    <3>3. ASSUME FileUnusable(t) PROVE ToldAsEnded'
      BY <1>2, <1>3, <2>1, <3>3, ToldFinish DEF FileUnusable
    <3> QED
      BY <1>3, <3>1, <3>2, <3>3, ToldSame
  <2>3. CASE Launch \/ ExecuteSend \/ Process \/ Next1
    BY <1>3, <2>3, ToldSame DEF Launch, ExecuteSend, Process, Next1, rowVars, outVars
  <2>4. CASE ExecuteSkip
    <3>1. (task' = task /\ told' = told) \/ Finish(t, FALSE)
      BY <2>4 DEF ExecuteSkip, outVars
    <3> QED
      BY <1>2, <1>3, <2>1, <3>1, ToldFinish, ToldSame
  <2>5. CASE RunFinish
    <3>1. Finish(t, c.failed) /\ c.failed \in BOOLEAN
      BY <2>5, HeadKnown DEF RunFinish, Head1, TypeInv
    <3> QED
      BY <1>2, <1>3, <2>1, <3>1, ToldFinish
  <2> QED
    BY <1>7, <2>2, <2>3, <2>4, <2>5 DEF Coroutines
<1>8. ASSUME NEW w \in sleeping, Wake(w) PROVE ToldAsEnded'
  <2> PICK t : t = w.task
    OBVIOUS
  <2>1. t \in Rows
    <3>1. t \in Task /\ Handled(t)
      BY WakesNow DEF Handled, TypeInv, LoopOK
    <3> QED
      BY <1>4, <3>1
  <2>2. (task' = task /\ told' = told) \/ Finish(t, TRUE)
    BY <1>8 DEF Wake, FileUnusable, rowVars, outVars
  <2> QED
    BY <1>2, <1>3, <2>1, <2>2, ToldFinish, ToldSame
<1>9. CASE \/ UNCHANGED vars
           \/ \E u \in sends : Sent(u)
           \/ \E u \in units, o \in Outcomes : Answer(u, o)
           \/ \E i \in DOMAIN answers, o \in Outcomes, again \in BOOLEAN :
                  AnswerAgain(i, o, again)
           \/ Receive \/ Commit \/ CommitFails \/ Crash \/ Restart
  <2>1. task' = task /\ told' = told
    BY <1>9 DEF vars, Sent, Answer, AnswerAgain, Receive, Commit, CommitFails, Crash, Restart,
       rowVars, outVars
  <2> QED
    BY <1>3, <2>1, ToldSame
<1> QED
  BY <1>5, <1>6, <1>7, <1>8, <1>9 DEF Next

\* In every state, not only once nothing runs, the job was told that it failed as soon as
\* one of its tasks did, and that it finished when the last of them did
\* (get_job_status_if_changed), unless a webhook or a token is lost or a task is deleted.
THEOREM ToldInvariant == Spec => []ToldInv
<1>1. PipelineAssumption /\ Init => ToldInv
  BY DEF Init, ToldInv, Rows, Status
<1>2. TypeInv /\ AddedInv /\ ToldInv /\ [Next]_vars => ToldInv'
  BY PipelineAssumption, ToldStep
<1> QED
  BY <1>1, <1>2, PipelineAssumption, TypeInvariant, AddedInvariant, PTL DEF Spec

\* Once nothing runs, the job was told the outcome of its tasks.
THEOREM JobTold == Spec => []JobToldOutcome
<1>1. ToldInv => JobToldOutcome
  BY DEF ToldInv, JobToldOutcome
<1> QED
  BY <1>1, ToldInvariant, PTL

-----------------------------------------------------------------------------
(* What PipelineLifecycle promises *)

IsBegun(t, s) == step[t][s] \in {"Running", "Finished"} \/ s \in Answered(t)
IsDone(t, s) == step[t][s] = "Finished"
StageOf == [t \in Task |-> Stage(t)]
Seen == <<pipe.parent, StageOf, Begun, Done, repeated>>

\* All that changes is of task t.
Elsewhere(t) ==
    /\ UNCHANGED <<pipe, repeated>>
    /\ \A u \in Task \ {t} :
           task'[u] = task[u] /\ step'[u] = step[u] /\ Answered(u)' = Answered(u)

\* Of task t, the steps of b begin and those of d are done, and its stage is g.
Goes(t, b, d, g) ==
    /\ \A r \in Steps : IsBegun(t, r)' <=> IsBegun(t, r) \/ r \in b
    /\ \A r \in Steps : IsDone(t, r)' <=> IsDone(t, r) \/ r \in d
    /\ Stage(t)' = g

\* What the lifecycle sees where only t goes on.
LEMMA SeenOf ==
    ASSUME NEW t \in Task, Elsewhere(t), NEW b \in SUBSET Steps, NEW d \in SUBSET Steps,
           NEW g, Goes(t, b, d, g)
    PROVE  /\ Begun' = Begun \cup {<<t, s>> : s \in b}
           /\ Done' = Done \cup {<<t, s>> : s \in d}
           /\ StageOf' = [StageOf EXCEPT ![t] = g]
           /\ UNCHANGED <<pipe.parent, repeated>>
<1>1. Steps' = Steps /\ UNCHANGED <<pipe, pipe.parent, repeated>>
  BY DEF Elsewhere, Steps
<1>2. \A u \in Task \ {t}, s \in Steps :
          (IsBegun(u, s)' <=> IsBegun(u, s)) /\ (IsDone(u, s)' <=> IsDone(u, s))
  BY DEF Elsewhere, IsBegun, IsDone
<1>3. \A u \in Task \ {t} : Stage(u)' = Stage(u)
  BY DEF Elsewhere, Stage
<1>4. /\ Begun = {p \in Task \X Steps : IsBegun(p[1], p[2])}
      /\ Done = {p \in Task \X Steps : IsDone(p[1], p[2])}
      /\ Begun' = {p \in Task \X Steps : IsBegun(p[1], p[2])'}
      /\ Done' = {p \in Task \X Steps : IsDone(p[1], p[2])'}
  BY <1>1 DEF Begun, Done, IsBegun, IsDone
<1>5. Begun' = Begun \cup {<<t, s>> : s \in b}
  <2>1. \A u \in Task, s \in Steps :
            IsBegun(u, s)' <=> IsBegun(u, s) \/ (u = t /\ s \in b)
    BY <1>2 DEF Goes
  <2> QED
    BY <1>4, <2>1
<1>6. Done' = Done \cup {<<t, s>> : s \in d}
  <2>1. \A u \in Task, s \in Steps :
            IsDone(u, s)' <=> IsDone(u, s) \/ (u = t /\ s \in d)
    BY <1>2 DEF Goes
  <2> QED
    BY <1>4, <2>1
<1>7. StageOf' = [StageOf EXCEPT ![t] = g]
  <2>1. \A u \in Task : Stage(u)' = IF u = t THEN g ELSE Stage(u)
    BY <1>3 DEF Goes
  <2> QED
    BY <2>1 DEF StageOf
<1> QED
  BY <1>1, <1>5, <1>6, <1>7

\* Nothing of t that the lifecycle sees.
LEMMA SeenSame ==
    ASSUME NEW t \in Task, Elsewhere(t), Goes(t, {}, {}, Stage(t))
    PROVE  UNCHANGED Seen
<1>1. /\ Begun' = Begun \cup {<<t, s>> : s \in {}} /\ Done' = Done \cup {<<t, s>> : s \in {}}
      /\ StageOf' = [StageOf EXCEPT ![t] = Stage(t)]
      /\ UNCHANGED <<pipe.parent, repeated>>
  BY SeenOf
<1>2. StageOf' = StageOf
  BY <1>1 DEF StageOf
<1> QED
  BY <1>1, <1>2 DEF Seen

\* A step of t begins.
LEMMA SeenBegin ==
    ASSUME NEW t \in Task, Elsewhere(t), NEW s \in Steps, Goes(t, {s}, {}, Stage(t)),
           pipe.parent[s] = s \/ (pipe.parent[s] \in Steps /\ IsDone(t, pipe.parent[s]))
    PROVE  Lifecycle!Begin(t, s)
<1>1. /\ Begun' = Begun \cup {<<t, r>> : r \in {s}} /\ Done' = Done \cup {<<t, r>> : r \in {}}
      /\ StageOf' = [StageOf EXCEPT ![t] = Stage(t)]
      /\ UNCHANGED <<pipe.parent, repeated>>
  BY SeenOf
<1>2. StageOf' = StageOf
  BY <1>1 DEF StageOf
<1>3. pipe.parent[s] = s \/ <<t, pipe.parent[s]>> \in Done
  BY DEF Done, IsDone
<1>4. Begun' = Begun \cup {<<t, s>>} /\ Done' = Done
  BY <1>1
<1> QED
  BY <1>1, <1>2, <1>3, <1>4 DEF Lifecycle!Begin, StageOf

\* A step of t that was begun is done.
LEMMA SeenComplete ==
    ASSUME NEW t \in Task, Elsewhere(t), NEW s \in Steps, Goes(t, {}, {s}, Stage(t)),
           IsBegun(t, s)
    PROVE  Lifecycle!Complete(t, s)
<1>1. /\ Begun' = Begun \cup {<<t, r>> : r \in {}} /\ Done' = Done \cup {<<t, r>> : r \in {s}}
      /\ StageOf' = [StageOf EXCEPT ![t] = Stage(t)]
      /\ UNCHANGED <<pipe.parent, repeated>>
  BY SeenOf
<1>2. StageOf' = StageOf
  BY <1>1 DEF StageOf
<1>3. <<t, s>> \in Begun
  BY DEF Begun, IsBegun
<1>4. Begun' = Begun /\ Done' = Done \cup {<<t, s>>}
  BY <1>1
<1> QED
  BY <1>1, <1>2, <1>3, <1>4 DEF Lifecycle!Complete, StageOf

\* Task t ends, as its last step is done or later.
LEMMA SeenEnds ==
    ASSUME NEW t \in Task, Elsewhere(t), NEW d \in SUBSET Steps, NEW g \in {"finished", "failed"},
           Goes(t, {}, d, g), d = {} \/ \E s \in Steps : d = {s} /\ IsBegun(t, s),
           Stage(t) = "open", g = "finished" => \A s \in Steps : IsDone(t, s)'
    PROVE  Lifecycle!Finish(t) \/ Lifecycle!Fail(t)
<1>1. /\ Begun' = Begun \cup {<<t, r>> : r \in {}} /\ Done' = Done \cup {<<t, r>> : r \in d}
      /\ StageOf' = [StageOf EXCEPT ![t] = g]
      /\ UNCHANGED <<pipe.parent, repeated>>
  BY SeenOf
<1>2. Begun' = Begun
  BY <1>1
<1>3. Done' \in {Done} \cup {Done \cup {p} : p \in Begun}
  <2>1. CASE d = {}
    BY <1>1, <2>1
  <2>2. ASSUME NEW s \in Steps, d = {s}, IsBegun(t, s)
        PROVE  Done' \in {Done \cup {p} : p \in Begun}
    <3>1. <<t, s>> \in Begun
      BY <2>2 DEF Begun, IsBegun
    <3>2. Done' = Done \cup {<<t, s>>}
      BY <1>1, <2>2
    <3> QED
      BY <3>1, <3>2
  <2> QED
    BY <2>1, <2>2
<1>4. StageOf[t] = "open"
  BY DEF StageOf
<1>5. g = "finished" => {t} \X Steps \subseteq Done'
  BY DEF Done, IsDone, Steps, Elsewhere
<1>6. g = "finished" => Lifecycle!Finish(t)
  BY <1>1, <1>2, <1>3, <1>4, <1>5 DEF Lifecycle!Finish, StageOf, Steps
<1>7. g = "failed" => Lifecycle!Fail(t)
  BY <1>1, <1>2, <1>3, <1>4 DEF Lifecycle!Fail, StageOf
<1> QED
  BY <1>6, <1>7

\* A task one of whose steps was answered twice does anything.
LEMMA SeenAnything ==
    ASSUME TypeInv, NEW t \in repeated, Elsewhere(t)
    PROVE  Lifecycle!Anything(t)
<1>1. t \in Task /\ Steps' = Steps /\ UNCHANGED <<pipe.parent, repeated>>
  BY DEF TypeInv, OutOK, Elsewhere, Steps
<1>2. \A u \in Task \ {t} : StageOf'[u] = StageOf[u]
  BY DEF Elsewhere, StageOf, Stage
<1>3. \A u \in Task \ {t}, s \in Steps :
          (<<u, s>> \in Begun' <=> <<u, s>> \in Begun) /\ (<<u, s>> \in Done' <=> <<u, s>> \in Done)
  BY <1>1 DEF Elsewhere, Begun, Done
<1>4. /\ Begun \subseteq Task \X Steps /\ Begun' \subseteq Task \X Steps
      /\ Done \subseteq Task \X Steps /\ Done' \subseteq Task \X Steps
  BY <1>1 DEF Begun, Done
<1>5. /\ {p \in Begun' : p[1] # t} = {p \in Begun : p[1] # t}
      /\ {p \in Done' : p[1] # t} = {p \in Done : p[1] # t}
  BY <1>3, <1>4
<1> QED
  BY <1>1, <1>2, <1>5 DEF Lifecycle!Anything, Lifecycle!Other, StageOf

\* A coroutine or a sleep of task t.
LEMMA OwnElsewhere ==
    ASSUME NEW t, OnlyOf(t)
    PROVE  /\ Elsewhere(t) /\ Steps' = Steps
           /\ \A u : Answered(u)' = Answered(u)
BY DEF OnlyOf, Elsewhere, Answered, Steps

\* Rows that stay show nothing new.
LEMMA RowsSame ==
    ASSUME NEW t \in Task, Elsewhere(t), Answered(t)' = Answered(t), step'[t] = step[t],
           Stage(t)' = Stage(t)
    PROVE  UNCHANGED Seen
<1>1. Goes(t, {}, {}, Stage(t))
  BY DEF Goes, IsBegun, IsDone
<1> QED
  BY <1>1, SeenSame

\* A task whose file cannot be used: none of its steps was begun.
LEMMA UnusableLifecycle ==
    ASSUME PipelineAssumption, TypeInv, StepInv, NEW t \in Single, Starting(t) \/ Asleep(t),
           OnlyOf(t), FileUnusable(t)
    PROVE  (Lifecycle!Finish(t) \/ Lifecycle!Fail(t)) \/ UNCHANGED Seen
<1>1. t \in Task /\ Elsewhere(t) /\ Answered(t)' = Answered(t) /\ Steps' = Steps
  BY OwnElsewhere DEF Single
<1>2. /\ \A s \in Steps : step[t][s] = "Pending" /\ s \notin Answered(t)
      /\ task[t] \in {"Pending", "deleted"}
  BY BeforeStart
<1>3. \A s \in Steps : step'[t][s] \in {"Pending", "Failed"}
  BY <1>1, <1>2, FileUnusableTypes DEF TypeInv
<1>4. /\ \A s \in Steps : ~IsBegun(t, s) /\ ~IsDone(t, s)
      /\ \A s \in Steps : ~IsBegun(t, s)' /\ ~IsDone(t, s)'
  BY <1>1, <1>2, <1>3 DEF IsBegun, IsDone
<1>5. task'[t] = task[t] \/ (t \in Rows /\ task'[t] = "Failed")
  BY <1>1, FinishEnds DEF FileUnusable
<1>6. CASE task'[t] = task[t]
  <2>1. Goes(t, {}, {}, Stage(t))
    BY <1>4, <1>6 DEF Goes, Stage
  <2> QED
    BY <1>1, <2>1, SeenSame
<1>7. CASE t \in Rows /\ task'[t] = "Failed"
  <2>1. Goes(t, {}, {}, "failed") /\ Stage(t) = "open"
    BY <1>2, <1>4, <1>7 DEF Goes, Stage, Rows, Status
  <2>2. /\ {} \in SUBSET Steps /\ "failed" \in {"finished", "failed"} /\ "failed" # "finished"
    OBVIOUS
  <2> QED
    BY <1>1, <2>1, <2>2, SeenEnds
<1> QED
  BY <1>5, <1>6, <1>7

\* The end of a task all of whose steps are done, or one of which failed.
LEMMA FinishLifecycle ==
    ASSUME PipelineAssumption, TypeInv, StepInv, NEW t \in Single, RunFinish,
           t = Head(loop).task
    PROVE  (Lifecycle!Finish(t) \/ Lifecycle!Fail(t)) \/ UNCHANGED Seen
<1> PICK failed : failed = Head(loop).failed
  OBVIOUS
<1>1. /\ Finish(t, failed) /\ step' = step /\ failed \in BOOLEAN /\ t \in Task
      /\ failed = FALSE => AllFinished(t) /\ task[t] \notin {"Finished", "Failed"}
      /\ failed = TRUE => task[t] # "Finished"
  BY BeforeFinish
<1>2. Elsewhere(t) /\ Answered(t)' = Answered(t) /\ Steps' = Steps
  BY OwnElsewhere, CoroutinesOnlyOf DEF Coroutines
<1>3. \/ task'[t] = task[t]
      \/ t \in Rows /\ task'[t] = "Failed"
      \/ t \in Rows /\ task'[t] = "Finished" /\ ~failed
  BY <1>1, FinishEnds
<1>4. \A s \in Steps : (IsBegun(t, s)' <=> IsBegun(t, s)) /\ (IsDone(t, s)' <=> IsDone(t, s))
  BY <1>1, <1>2 DEF IsBegun, IsDone
<1>5. CASE task'[t] = task[t]
  BY <1>1, <1>2, <1>5, RowsSame DEF Stage
<1>6. ASSUME task'[t] # task[t]
      PROVE  /\ task[t] \notin {"Finished", "Failed", "deleted"}
             /\ task'[t] \in {"Finished", "Failed"}
             /\ task'[t] = "Finished" => AllFinished(t)
  BY <1>1, <1>3, <1>6 DEF Rows, Status
<1>7. CASE task'[t] # task[t]
  <2> PICK g \in {"finished", "failed"} :
          g = IF task'[t] = "Finished" THEN "finished" ELSE "failed"
    OBVIOUS
  <2>1. Goes(t, {}, {}, g) /\ Stage(t) = "open"
    BY <1>4, <1>6, <1>7 DEF Goes, Stage
  <2>2. g = "finished" => \A s \in Steps : IsDone(t, s)'
    BY <1>1, <1>6, <1>7 DEF AllFinished, IsDone
  <2>3. {} \in SUBSET Steps
    OBVIOUS
  <2> QED
    BY <1>2, <2>1, <2>2, <2>3, <1>1, SeenEnds
<1> QED
  BY <1>5, <1>7

\* A step without arguments is done, and with the last step its task.
LEMMA SkipLifecycle ==
    ASSUME PipelineAssumption, TypeInv, StepInv, NEW t \in Single, ExecuteSkip,
           t = Head(loop).task
    PROVE  \/ Lifecycle!Finish(t) \/ Lifecycle!Fail(t)
           \/ \E s \in Steps : Lifecycle!Complete(t, s)
           \/ UNCHANGED Seen
<1> PICK s : s = Head(loop).step
  OBVIOUS
<1>1. Elsewhere(t) /\ Answered(t)' = Answered(t) /\ Steps' = Steps /\ t \in Task
  BY OwnElsewhere, CoroutinesOnlyOf DEF Coroutines
<1>2. CASE t \notin Rows
  <2>1. step' = step /\ task' = task
    BY <1>2 DEF ExecuteSkip, UpdateStep
  <2> QED
    BY <1>1, <2>1, RowsSame DEF Stage
<1>3. CASE t \in Rows
  <2>1. /\ s \in Steps /\ step[t][s] = "Running" /\ step'[t][s] = "Finished"
        /\ \A r \in Steps \ {s} : step'[t][r] = step[t][r]
        /\ IsCompleted(step', t) =>
               AllFinished(t)' /\ task[t] \notin {"Finished", "Failed"}
        /\ task'[t] = task[t] \/ (IsCompleted(step', t) /\ Finish(t, FALSE))
    BY <1>3, BeforeSkip
  <2>2. /\ \A r \in Steps : IsBegun(t, r)' <=> IsBegun(t, r)
        /\ \A r \in Steps : IsDone(t, r)' <=> IsDone(t, r) \/ r \in {s}
        /\ IsBegun(t, s)
    BY <1>1, <2>1 DEF IsBegun, IsDone
  <2>3. CASE task'[t] = task[t]
    <3>1. Goes(t, {}, {s}, Stage(t))
      BY <2>2, <2>3 DEF Goes, Stage
    <3> QED
      BY <1>1, <2>1, <2>2, <3>1, SeenComplete
  <2>4. ASSUME task'[t] # task[t]
        PROVE  /\ task[t] \notin {"Finished", "Failed", "deleted"}
               /\ task'[t] \in {"Finished", "Failed"} /\ AllFinished(t)'
    <3>1. Finish(t, FALSE) /\ IsCompleted(step', t)
      BY <2>1, <2>4
    <3>2. task'[t] \in {"Finished", "Failed"}
      BY <1>1, <2>4, <3>1, FinishEnds
    <3> QED
      BY <1>3, <2>1, <3>1, <3>2 DEF Rows, Status
  <2>5. CASE task'[t] # task[t]
    <3> PICK g \in {"finished", "failed"} :
            g = IF task'[t] = "Finished" THEN "finished" ELSE "failed"
      OBVIOUS
    <3>1. Goes(t, {}, {s}, g) /\ Stage(t) = "open"
      BY <2>2, <2>4, <2>5 DEF Goes, Stage
    <3>2. \A r \in Steps : IsDone(t, r)'
      BY <1>1, <2>4, <2>5 DEF AllFinished, IsDone
    <3>3. {s} \in SUBSET Steps /\ \E r \in Steps : {s} = {r} /\ IsBegun(t, r)
      BY <2>1, <2>2
    <3> QED
      BY <1>1, <3>1, <3>2, <3>3, SeenEnds
  <2> QED
    BY <2>3, <2>5
<1> QED
  BY <1>2, <1>3

\* A step is launched after the one before it.
LEMMA LaunchLifecycle ==
    ASSUME PipelineAssumption, TypeInv, StepInv, NEW t \in Single, Launch,
           t = Head(loop).task
    PROVE  (\E s \in Steps : Lifecycle!Begin(t, s)) \/ UNCHANGED Seen
<1> PICK c : c = Head(loop)
  OBVIOUS
<1> PICK s : s = c.step
  OBVIOUS
<1>1. /\ Elsewhere(t) /\ Answered(t)' = Answered(t) /\ Steps' = Steps /\ t \in Task
      /\ task' = task
  BY OwnElsewhere, CoroutinesOnlyOf DEF Coroutines, Launch
<1>2. CASE t \notin Rows
  <2>1. step' = step
    BY <1>2 DEF Launch
  <2> QED
    BY <1>1, <2>1, RowsSame DEF Stage
<1>3. CASE t \in Rows
  <2>1. /\ loop # <<>> /\ c.kind = "launch" /\ c.kind \in StepKinds /\ c.task = t
        /\ UpdateStep(t, s, "Running")
    BY <1>3 DEF Launch, Head1, StepKinds
  <2>2. s \in Steps /\ Queued("launch", t, s)
    BY <2>1, HeadKnown, HeadQueued DEF TypeInv
  <2>3. /\ step[t][s] = "Pending" /\ s \notin Answered(t)
        /\ pipe.parent[s] = s \/ step[t][pipe.parent[s]] = "Finished"
    <3>1. StepPlaces(t, s)
      BY <2>2 DEF StepInv, TaskInv
    <3>2. step[t][s] = "Pending"
      BY <2>2, <3>1 DEF StepPlaces
    <3> QED
      BY <2>2, <3>1, <3>2 DEF StepPlaces
  <2>4. step'[t][s] = "Running" /\ \A r \in Steps \ {s} : step'[t][r] = step[t][r]
    BY <1>1, <1>3, <2>1, <2>2, UpdateStepType DEF TypeInv, Status
  <2>5. Goes(t, {s}, {}, Stage(t))
    BY <1>1, <2>3, <2>4 DEF Goes, IsBegun, IsDone, Stage
  <2>6. pipe.parent[s] = s \/ (pipe.parent[s] \in Steps /\ IsDone(t, pipe.parent[s]))
    BY <2>2, <2>3, PipeFacts DEF IsDone, TypeInv
  <2> QED
    BY <1>1, <2>2, <2>5, <2>6, SeenBegin
<1> QED
  BY <1>2, <1>3

\* An answer is processed: its step is done or has failed.
LEMMA ProcessLifecycle ==
    ASSUME PipelineAssumption, TypeInv, StepInv, NEW t \in Single, Process,
           t = Head(loop).task
    PROVE  (\E s \in Steps : Lifecycle!Complete(t, s)) \/ UNCHANGED Seen
<1> PICK c : c = Head(loop)
  OBVIOUS
<1> PICK s : s = c.step
  OBVIOUS
<1>1. /\ Elsewhere(t) /\ Answered(t)' = Answered(t) /\ Steps' = Steps /\ t \in Task
      /\ task' = task
  BY OwnElsewhere, CoroutinesOnlyOf DEF Coroutines, Process
<1>2. CASE t \notin Rows
  <2>1. step' = step
    BY <1>2 DEF Process
  <2> QED
    BY <1>1, <2>1, RowsSame DEF Stage
<1>3. CASE t \in Rows
  <2> PICK st : st = StepStatus(c.outcome)
    OBVIOUS
  <2>1. /\ loop # <<>> /\ c.kind = "process" /\ c.kind \in StepKinds /\ c.task = t
        /\ UpdateStep(t, s, st)
    BY <1>3 DEF Process, Head1, StepKinds
  <2>2. s \in Steps /\ Queued("process", t, s)
    BY <2>1, HeadKnown, HeadQueued DEF TypeInv
  <2>3. step[t][s] = "Running" /\ s \in Answered(t) /\ st \in {"Finished", "Failed"}
    BY <2>2 DEF StepInv, TaskInv, StepPlaces, StepStatus
  <2>4. step'[t][s] = st /\ \A r \in Steps \ {s} : step'[t][r] = step[t][r]
    BY <1>1, <1>3, <2>1, <2>2, <2>3, UpdateStepType DEF TypeInv, Status
  <2>5. CASE st = "Finished"
    <3>1. Goes(t, {}, {s}, Stage(t)) /\ IsBegun(t, s)
      BY <1>1, <2>3, <2>4, <2>5 DEF Goes, IsBegun, IsDone, Stage
    <3> QED
      BY <1>1, <2>2, <3>1, SeenComplete
  <2>6. CASE st = "Failed"
    <3>1. Goes(t, {}, {}, Stage(t))
      BY <1>1, <2>3, <2>4, <2>6 DEF Goes, IsBegun, IsDone, Stage
    <3> QED
      BY <1>1, <3>1, SeenSame
  <2> QED
    BY <2>3, <2>5, <2>6
<1> QED
  BY <1>2, <1>3

\* A model answers.
LEMMA AnswerLifecycle ==
    ASSUME PipelineAssumption, TypeInv, StepInv, NEW u \in units, NEW o \in Outcomes,
           Answer(u, o)
    PROVE  (\E t \in Task : Lifecycle!Anything(t)) \/ UNCHANGED Seen
<1>0. u \in Task \X Steps
  BY DEF TypeInv, KafkaOK
<1> PICK t \in Task, s \in Steps : u = <<t, s>>
  BY <1>0
<1> PICK m : m = [task |-> t, step |-> s, outcome |-> o]
  OBVIOUS
<1>1. /\ UNCHANGED <<pipe, task, step, committed, repeated>> /\ answers' = Append(answers, m)
      /\ Steps' = Steps
  BY DEF Answer, rowVars, Steps
<1>2. m.task = t /\ m.step = s /\ m \in KnownMessage
  BY PipeFacts DEF PipelineAssumption, TypeInv, KnownMessage, Message
<1>3. /\ \A x, r : r \in Answered(x)' <=>
              (r \in Answered(x) \/ (m.task = x /\ m.step = r /\ r \in Step))
      /\ \A x : m.task # x => Answered(x)' = Answered(x)
  <2>1. answers \in Seq(KnownMessage) /\ committed \in 0 .. Len(answers)
    BY LenProperties DEF TypeInv, KafkaOK
  <2> QED
    BY <1>1, <1>2, <2>1, OneAnswered
<1>4. Elsewhere(t)
  BY <1>1, <1>2, <1>3 DEF Elsewhere
<1>5. CASE t \in repeated
  BY <1>4, <1>5, SeenAnything
<1>6. CASE t \notin repeated
  <2>1. step[t][s] = "Running"
    BY <1>6 DEF StepInv, TaskInv, StepPlaces, Single
  <2>2. \A r \in Steps : (IsBegun(t, r)' <=> IsBegun(t, r)) /\ (IsDone(t, r)' <=> IsDone(t, r))
    BY <1>1, <1>2, <1>3, <2>1 DEF IsBegun, IsDone
  <2>3. Goes(t, {}, {}, Stage(t))
    BY <1>1, <2>2 DEF Goes, Stage
  <2> QED
    BY <1>4, <2>3, SeenSame
<1> QED
  BY <1>5, <1>6

\* It is answered again: what is said of the task is void.
LEMMA AgainLifecycle ==
    ASSUME PipelineAssumption, TypeInv, NEW i \in DOMAIN answers, NEW o \in Outcomes,
           NEW again \in BOOLEAN, AnswerAgain(i, o, again)
    PROVE  \E t \in Task : Lifecycle!Repeat(t)
<1> PICK m : m = [answers[i] EXCEPT !.outcome = o]
  OBVIOUS
<1> PICK t : t = answers[i].task
  OBVIOUS
<1>1. /\ UNCHANGED <<pipe, task, step, committed>> /\ answers' = Append(answers, m)
      /\ repeated' = repeated \cup {t} /\ Steps' = Steps
  BY DEF AnswerAgain, rowVars, Steps
<1>2. /\ answers[i] \in KnownMessage /\ t \in Task /\ m \in KnownMessage
      /\ m.task = t /\ m.step = answers[i].step
  <2>1. answers[i] \in KnownMessage
    BY ElementOfSeq, LenProperties DEF TypeInv, KafkaOK
  <2>2. o \in AnswerKinds
    BY DEF PipelineAssumption
  <2> QED
    BY <2>1, <2>2 DEF KnownMessage, Message
<1>3. \A x, r : r \in Answered(x)' <=> r \in Answered(x)
  <2>1. answers \in Seq(KnownMessage) /\ Len(answers) \in Nat
        /\ DOMAIN answers = 1 .. Len(answers)
    BY LenProperties DEF TypeInv, KafkaOK
  <2>2. /\ \A n \in DOMAIN answers : n \in DOMAIN answers' /\ answers'[n] = answers[n]
        /\ \A n \in DOMAIN answers' :
               (n \in DOMAIN answers /\ answers'[n] = answers[n]) \/ answers'[n] = m
    BY <1>1, <1>2, <2>1, AppendProperties
  <2>3. \A n \in DOMAIN answers' : \E j \in DOMAIN answers :
            answers'[n].task = answers[j].task /\ answers'[n].step = answers[j].step
    BY <1>2, <2>2
  <2> QED
    BY <2>2, <2>3 DEF Answered
<1>4. Begun' = Begun /\ Done' = Done /\ \A x : Stage(x)' = Stage(x)
  BY <1>1, <1>3 DEF Begun, Done, Stage
<1>5. [x \in Task |-> Stage(x)]' = [x \in Task |-> Stage(x)]
  BY <1>4
<1>6. Lifecycle!Repeat(t)
  BY <1>1, <1>4, <1>5 DEF Lifecycle!Repeat
<1> QED
  BY <1>2, <1>6

\* Every step of the service is a step of PipelineLifecycle or none.
LEMMA LifecycleStep ==
    ASSUME PipelineAssumption, TypeInv, StepInv, [Next]_vars
    PROVE  Lifecycle!Next \/ UNCHANGED Seen
<1>1. ASSUME UNCHANGED <<pipe, task, step, answers, repeated>> PROVE UNCHANGED Seen
  <2>1. Begun' = Begun /\ Done' = Done /\ Steps' = Steps
    BY <1>1 DEF Begun, Done, Answered, Steps
  <2>2. StageOf' = StageOf
    BY <1>1 DEF StageOf, Stage
  <2> QED
    BY <1>1, <2>1, <2>2 DEF Seen
<1>2. ASSUME NEW ts \in SUBSET Task, Execute(ts) PROVE UNCHANGED Seen
  <2>1. /\ UNCHANGED <<pipe, step, answers, repeated>> /\ Steps' = Steps
        /\ \A t \in Task : task'[t] = task[t] \/ (task[t] = "absent" /\ task'[t] = "Pending")
    BY <1>2 DEF Execute, InitializeExecution, kafkaVars, Steps
  <2>2. Begun' = Begun /\ Done' = Done
    BY <2>1 DEF Begun, Done, Answered
  <2>3. StageOf' = StageOf
    BY <2>1 DEF StageOf, Stage
  <2> QED
    BY <2>1, <2>2, <2>3 DEF Seen
<1>3. ASSUME NEW t \in Task, DeleteTask(t) PROVE Lifecycle!Delete(t)
  <2>1. /\ UNCHANGED <<pipe, step, answers, repeated>> /\ Steps' = Steps
        /\ task' = [task EXCEPT ![t] = "deleted"]
    BY <1>3 DEF DeleteTask, kafkaVars, Steps
  <2>2. Begun' = Begun /\ Done' = Done
    BY <2>1 DEF Begun, Done, Answered
  <2>3. \A x \in Task : Stage(x)' = IF x = t THEN "deleted" ELSE Stage(x)
    BY <2>1 DEF Stage, TypeInv, RowsOK
  <2>4. [x \in Task |-> Stage(x)]' = [[x \in Task |-> Stage(x)] EXCEPT ![t] = "deleted"]
    BY <2>3
  <2> QED
    BY <2>1, <2>2, <2>4 DEF Lifecycle!Delete
<1>4. ASSUME Coroutines
      PROVE  \/ UNCHANGED Seen
             \/ \E t \in Task :
                    \/ Lifecycle!Finish(t) \/ Lifecycle!Fail(t) \/ Lifecycle!Anything(t)
                    \/ \E s \in Steps : Lifecycle!Begin(t, s) \/ Lifecycle!Complete(t, s)
  <2> PICK t : t = Head(loop).task
    OBVIOUS
  <2>1. OnlyOf(t) /\ t \in Task /\ Elsewhere(t) /\ Answered(t)' = Answered(t)
        /\ answers' = answers
    BY <1>4, CoroutinesOnlyOf, OwnElsewhere DEF OnlyOf
  <2>2. CASE t \in repeated
    BY <2>1, <2>2, SeenAnything
  <2>3. CASE t \in Single
    <3>1. CASE Start
      <4>1. \/ Started(t) \/ FileUnusable(t)
            \/ UNCHANGED rowVars
        BY <3>1 DEF Start
      <4>2. ASSUME FileUnusable(t)
            PROVE  (Lifecycle!Finish(t) \/ Lifecycle!Fail(t)) \/ UNCHANGED Seen
        BY <2>1, <2>3, <3>1, <4>2, StartsNow, UnusableLifecycle
      <4>3. ASSUME Started(t) PROVE UNCHANGED Seen
        <5>1. task' = ChangeStatus(t, "Running") /\ step' = step
          BY <4>3 DEF Started
        <5>2. task[t] \in {"Pending", "deleted"}
          BY <2>3, <3>1, StartsNow, BeforeStart
        <5>3. Stage(t)' = Stage(t)
          BY <2>1, <5>1, <5>2, ChangeStatusType DEF Stage, TypeInv, Rows, Status
        <5> QED
          BY <2>1, <5>1, <5>3, RowsSame
      <4>4. ASSUME UNCHANGED rowVars PROVE UNCHANGED Seen
        BY <2>1, <4>4, RowsSame DEF rowVars, Stage
      <4> QED
        BY <2>1, <4>1, <4>2, <4>3, <4>4
    <3>2. CASE ExecuteSend \/ Next1
      BY <2>1, <3>2, RowsSame DEF ExecuteSend, Next1, rowVars, Stage
    <3> QED
      BY <1>4, <2>1, <2>3, <3>1, <3>2, LaunchLifecycle, SkipLifecycle, ProcessLifecycle,
         FinishLifecycle DEF Coroutines
  <2> QED
    BY <2>1, <2>2, <2>3 DEF Single
<1>5. ASSUME NEW w \in sleeping, Wake(w)
      PROVE  \/ UNCHANGED Seen
             \/ \E t \in Task :
                    Lifecycle!Finish(t) \/ Lifecycle!Fail(t) \/ Lifecycle!Anything(t)
  <2> PICK t : t = w.task
    OBVIOUS
  <2>1. OnlyOf(t) /\ t \in Task /\ Elsewhere(t) /\ Answered(t)' = Answered(t)
    BY <1>5, WakeOnlyOf, OwnElsewhere DEF TypeInv, LoopOK
  <2>2. CASE t \in repeated
    BY <2>1, <2>2, SeenAnything
  <2>3. CASE t \in Single
    <3>1. UNCHANGED rowVars \/ FileUnusable(t)
      BY <1>5 DEF Wake
    <3>2. ASSUME UNCHANGED rowVars PROVE UNCHANGED Seen
      BY <2>1, <3>2, RowsSame DEF rowVars, Stage
    <3>3. ASSUME FileUnusable(t)
          PROVE  (Lifecycle!Finish(t) \/ Lifecycle!Fail(t)) \/ UNCHANGED Seen
      BY <2>1, <2>3, <3>3, WakesNow, UnusableLifecycle
    <3> QED
      BY <2>1, <3>1, <3>2, <3>3
  <2> QED
    BY <2>1, <2>2, <2>3 DEF Single
<1>6. CASE \/ UNCHANGED vars \/ Receive \/ Commit \/ CommitFails \/ Crash \/ Restart
           \/ \E u \in sends : Sent(u)
  <2>1. UNCHANGED <<pipe, task, step, answers, repeated>>
    BY <1>6 DEF vars, Receive, Commit, CommitFails, Crash, Restart, Sent, rowVars, kafkaVars
  <2> QED
    BY <1>1, <2>1
<1>7. ASSUME NEW u \in units, NEW o \in Outcomes, Answer(u, o)
      PROVE  (\E t \in Task : Lifecycle!Anything(t)) \/ UNCHANGED Seen
  BY <1>7, AnswerLifecycle
<1>8. ASSUME NEW i \in DOMAIN answers, NEW o \in Outcomes, NEW again \in BOOLEAN,
             AnswerAgain(i, o, again)
      PROVE  \E t \in Task : Lifecycle!Repeat(t)
  BY <1>8, AgainLifecycle
<1> QED
  BY <1>2, <1>3, <1>4, <1>5, <1>6, <1>7, <1>8 DEF Next, Lifecycle!Next, Steps

\* PipelineExecution implements PipelineLifecycle: for any pipeline a step begins after
\* the one before it is done, a task ends once, and finished only with all of its steps.
THEOREM ImplementsLifecycle == Spec => StepsInOrder
<1>1. Init => Lifecycle!Init
  <2> SUFFICES ASSUME Init PROVE Lifecycle!Init
    OBVIOUS
  <2>1. \A t : Answered(t) = {}
    BY HasNone DEF Init, Answered
  <2>2. Begun = {} /\ Done = {} /\ repeated = {}
    BY <2>1 DEF Init, Begun, Done
  <2>3. \A t \in Task : Stage(t) = "open"
    BY DEF Init, Stage
  <2>4. [t \in Task |-> Stage(t)] = [t \in Task |-> "open"]
    BY <2>3
  <2> QED
    BY <2>2, <2>4 DEF Lifecycle!Init
<1>2. TypeInv /\ StepInv /\ [Next]_vars =>
          [Lifecycle!Next]_<<pipe.parent, [t \in Task |-> Stage(t)], Begun, Done, repeated>>
  BY PipelineAssumption, LifecycleStep DEF Seen, StageOf
<1> QED
  BY <1>1, <1>2, TypeInvariant, StepInvariant, PTL
     DEF Spec, StepsInOrder, Lifecycle!Spec, Lifecycle!lifecycleVars

=============================================================================
