--------------------------- MODULE PipelineCatalogue ---------------------------
(***************************************************************************)
(* The pipelines that are stored, their versions, and the steps a task     *)
(* gets from one (pipelines/pipelines/app.py, execution.py,                *)
(* db/service.py).  The handlers have no await and the service is one      *)
(* process: a request is one step, unless it ends half way, with what it   *)
(* has committed.                                                          *)
(***************************************************************************)
EXTENDS Naturals, Sequences, FiniteSets, FiniteSetsExt, SequencesExt

CONSTANTS
    PipelineId,      \* ids, 1 .. n (bounds the pipelines)
    PipelineName,
    FirstVersion,    \* versions a first pipeline may be given
    Trees,           \* pipelines: [top, below, model], step ids in the order given
    TaskId,          \* ids of tasks, 1 .. n (bounds the tasks)
    PageSize,        \* models whose categories are asked for, 15 in the code
    CatalogueFaults  \* "end": a request ends after one of its commits, with the
                     \* process or for want of an answer of the models service;
                     \* "undeployed": the models go between two looks at them

NoId == 0
NoPipeline == [name |-> "none"]

VARIABLES
    catalogue,     \* pipeline: row of each id, or NoPipeline
    assigned,      \* ids the tables have given
    pipelineTasks, \* pipeline_execution_task: [pipeline, steps] of each id, or NoTask
    demoted        \* history: names whose latest version was demoted or deleted

catalogueVars == <<catalogue, assigned, pipelineTasks, demoted>>

NoTask == [pipeline |-> NoId, steps |-> <<>>]

Pipelines == {i \in PipelineId : catalogue[i] # NoPipeline}
Fields(i) == catalogue[i]

-----------------------------------------------------------------------------
(* The graph of a pipeline *)

\* steps_identifiers: a step, then those below each of the steps below it.
StepsIdentifiers(tree) ==
    LET from[s \in DOMAIN tree.below] ==
            <<s>> \o FlattenSeq([i \in DOMAIN tree.below[s] |-> from[tree.below[s][i]]])
    IN  from

\* get_ids
GetIds(tree) ==
    FlattenSeq([i \in DOMAIN tree.top |-> StepsIdentifiers(tree)[tree.top[i]]])

StepsNames_Level(tree) ==
    LET from[s \in DOMAIN tree.below] ==
            [i \in DOMAIN tree.below[s] |-> tree.model[tree.below[s][i]]]
                \o FlattenSeq([i \in DOMAIN tree.below[s] |-> from[tree.below[s][i]]])
    IN  [s \in DOMAIN tree.below |-> <<tree.model[s]>> \o from[s]]

\* steps_names
StepsNames(tree) ==
    LET from[s \in DOMAIN tree.below] ==
            <<tree.model[s]>>
                \o FlattenSeq([i \in DOMAIN tree.below[s] |-> from[tree.below[s][i]]])
    IN  from

\* get_model_ids
GetModelIds(tree) ==
    FlattenSeq([i \in DOMAIN tree.top |-> StepsNames(tree)[tree.top[i]]])

\* get_step_parent: the first step, in the order of the ids, with this one below.
StepParent(tree, step) ==
    LET above == SelectSeq(GetIds(tree),
                           LAMBDA s : step \in Range(tree.below[s]))
    IN  IF above = <<>> THEN "none" ELSE above[1]

\* get_steps_dict
StepsDict(tree) == [s \in Range(GetIds(tree)) |-> tree.model[s]]

-----------------------------------------------------------------------------
(* Queries *)

\* get_pipelines: those of the filters that are given.
GetPipelines(name, version, original) ==
    {i \in Pipelines : /\ name \in {"any", Fields(i).name}
                       /\ version \in {NoId, Fields(i).version}
                       /\ original \in {NoId, Fields(i).original}}

\* The one with the highest version.
LastVersion(pipelines) ==
    CHOOSE i \in pipelines : \A j \in pipelines : Fields(j).version <= Fields(i).version

\* GET /pipeline
GetPipeline(name) == LastVersion(GetPipelines(name, NoId, NoId))

-----------------------------------------------------------------------------
(* POST /pipeline *)

\* check_valid_ids, of what the models service says is deployed.
ValidIds(tree, deployed) == Range(GetModelIds(tree)) \subseteq deployed

\* What the models service says a moment later.
DeployedLater(deployed) ==
    {deployed} \cup (IF "undeployed" \in CatalogueFaults THEN {{}} ELSE {})

\* The row that to_orm makes after adjust_pipeline, which asks again what is
\* deployed: the urls of the models, the categories of the first of them.
Adjusted(tree, name, version, original, deployed) ==
    [name |-> name, version |-> version, original |-> original, latest |-> TRUE,
     tree |-> tree, urls |-> Range(GetModelIds(tree)) \cap deployed,
     categories |->
         LET models == Range(GetModelIds(tree))
         IN  IF Cardinality(models) <= PageSize THEN models
             ELSE CHOOSE page \in kSubset(PageSize, models) : TRUE]

NextId == assigned + 1

Refused == UNCHANGED catalogueVars

\* A pipeline that is the first of its name: check_name, the row, and then its
\* own id as that of the original, in a commit of its own.
AddFirst(name, version, tree) ==
    \E deployed \in {{}, Range(GetModelIds(tree))} :
        IF GetPipelines(name, NoId, NoId) # {} \/ ~ValidIds(tree, deployed) THEN Refused
        ELSE /\ NextId \in PipelineId
             /\ assigned' = NextId
             /\ \E later \in DeployedLater(deployed),
                   original \in IF "end" \in CatalogueFaults THEN {NextId, NoId}
                               ELSE {NextId} :
                    catalogue' = [catalogue EXCEPT ![NextId] =
                        Adjusted(tree, name, version, original, later)]
             /\ demoted' = demoted \ {name}
             /\ UNCHANGED pipelineTasks

Demoted_Kept(last) == catalogue

\* The end of update_version, committed before the models are looked at.
Demoted(last) == [catalogue EXCEPT ![last].latest = FALSE]

\* The next version of a pipeline; without its row when not all models are
\* deployed, or the request ends.
AddVersion(name, original, tree) ==
    \E base \in {GetPipelines("any", NoId, original)} :
        IF base = {} THEN Refused
        ELSE IF Fields(LastVersion(base)).name # name THEN Refused
        ELSE \/ /\ NextId \in PipelineId
                /\ assigned' = NextId
                /\ \E later \in DeployedLater(Range(GetModelIds(tree))) :
                       catalogue' = [Demoted(LastVersion(base)) EXCEPT ![NextId] =
                           Adjusted(tree, name, Fields(LastVersion(base)).version + 1,
                                    original, later)]
                /\ demoted' = demoted \ {name}
                /\ UNCHANGED pipelineTasks
             \/ /\ catalogue' = Demoted(LastVersion(base))
                /\ demoted' = demoted \cup {name}
                /\ UNCHANGED <<assigned, pipelineTasks>>

-----------------------------------------------------------------------------
(* DELETE /pipelines and /pipelines/{id}; the tasks go with them *)

DeleteInstances(gone) ==
    /\ catalogue' = [i \in PipelineId |-> IF i \in gone THEN NoPipeline ELSE catalogue[i]]
    /\ pipelineTasks' = [t \in TaskId |-> IF pipelineTasks[t].pipeline \in gone
                                          THEN NoTask ELSE pipelineTasks[t]]
    /\ demoted' = demoted \cup
           {Fields(i).name : i \in {j \in gone : Fields(j).latest}}
    /\ UNCHANGED assigned

DeletePipelines(name, version) ==
    LET gone == GetPipelines(name, version, NoId)
    IN  IF gone = {} THEN Refused ELSE DeleteInstances(gone)

DeletePipelineById(i) ==
    IF i \notin Pipelines THEN Refused ELSE DeleteInstances({i})

-----------------------------------------------------------------------------
(* POST /pipelines/{id}/execute: the rows of a task and of its steps *)

\* The ids and the names of the steps are two lists, which are zipped.
StepRows(tree) ==
    LET ids == GetIds(tree)
        names == GetModelIds(tree)
    IN  [k \in 1 .. Min({Len(ids), Len(names)}) |->
            [step |-> ids[k], name |-> names[k], parent |-> StepParent(tree, ids[k]),
             args |-> ids[k] \in Range(tree.top)]]

\* url that step_execution sends the step to, or none and it is skipped
StepUrl(i, row) ==
    LET model == StepsDict(Fields(i).tree)[row.step]
    IN  IF model \in Fields(i).urls THEN model ELSE "none"

ExecutePipeline(i, t) ==
    IF i \notin Pipelines THEN Refused
    ELSE /\ pipelineTasks[t] = NoTask
         /\ pipelineTasks' = [pipelineTasks EXCEPT ![t] =
                                  [pipeline |-> i, steps |-> StepRows(Fields(i).tree)]]
         /\ UNCHANGED <<catalogue, assigned, demoted>>

-----------------------------------------------------------------------------
Init ==
    /\ catalogue = [i \in PipelineId |-> NoPipeline] /\ assigned = NoId
    /\ pipelineTasks = [t \in TaskId |-> NoTask]
    /\ demoted = {}

Next ==
    \/ \E name \in PipelineName, tree \in Trees :
           \/ \E version \in FirstVersion : AddFirst(name, version, tree)
           \/ \E original \in PipelineId : AddVersion(name, original, tree)
    \/ \E name \in PipelineName, version \in FirstVersion \cup {NoId} :
           DeletePipelines(name, version)
    \/ \E i \in PipelineId :
           DeletePipelineById(i) \/ \E t \in TaskId : ExecutePipeline(i, t)

Spec == Init /\ [][Next]_catalogueVars

-----------------------------------------------------------------------------
(* Properties *)

\* The flag is_latest, which lists are filtered by, is on the version that
\* GET /pipeline answers with and on no other; a version that is refused after
\* its predecessor was demoted, and the deletion of the latest, leave none.
LatestPipelineIsHighest ==
    \A i \in Pipelines :
        LET name == Fields(i).name
        IN  /\ Fields(i).latest => i = GetPipeline(name)
            /\ Fields(GetPipeline(name)).latest \/ name \in demoted

\* A name is that of one pipeline and its versions, which are told apart by
\* their numbers.
OneNamePerOriginal ==
    \A i, j \in Pipelines :
        i # j => /\ Fields(i).name = Fields(j).name
                        <=> (Fields(i).original = Fields(j).original /\ Fields(j).original # NoId)
                 /\ Fields(i).name = Fields(j).name
                        => Fields(i).version # Fields(j).version

\* A task has each step of its pipeline once, with the model that the step is
\* sent to and the step before it, and an argument where there is none.
StepsFollowPipeline ==
    \A t \in TaskId : pipelineTasks[t] # NoTask =>
        LET i == pipelineTasks[t].pipeline
            tree == Fields(i).tree
            steps == pipelineTasks[t].steps
        IN  /\ i \in Pipelines
            /\ Len(steps) = Cardinality(DOMAIN tree.below)
            /\ \A k \in DOMAIN steps :
                   /\ steps[k].name = tree.model[steps[k].step]
                   /\ StepUrl(i, steps[k]) \in {steps[k].name, "none"}
                   /\ IF steps[k].args THEN steps[k].parent = "none"
                      ELSE /\ steps[k].parent \in DOMAIN tree.below
                           /\ steps[k].step \in Range(tree.below[steps[k].parent])
            /\ {steps[k].step : k \in DOMAIN steps} = DOMAIN tree.below

=============================================================================
