----------------------------- MODULE ModelVersions -----------------------------
(***************************************************************************)
(* Versions of one trained model and their deployment                      *)
(* (models/models/routers/models_routers.py, crud.py, utils.py).  The      *)
(* Kubernetes objects of a model, a Knative service and an Ambassador      *)
(* mapping, are named after its id: all versions share them.  A request    *)
(* reads a row, calls the Kubernetes API step by step and commits at the   *)
(* end; requests interleave, calls fail and the process may die between.   *)
(***************************************************************************)
EXTENDS Naturals, FiniteSets, FiniteSetsExt

CONSTANTS
    ModelSession,    \* concurrent requests
    MaxModelVersion, \* bound on versions
    ModelFaults,     \* kinds of faults that may happen: "api", a call of the
                     \* Kubernetes API fails; "crash", the requests end where they are
    MaxModelFaults   \* bound on how many do

VARIABLES
    models,       \* rows: version to [latest, status], or NoModel
    service,      \* the version whose image and data the service runs, or 0
    mapping,      \* whether the mapping exists
    modelRequest, \* the request of each session, or NoModelRequest
    mishaps,      \* history: what the statuses do not recover from
    modelFaults   \* number of faults that happened

modelsVars == <<models, service, mapping, modelRequest, mishaps, modelFaults>>

NoModel == [latest |-> FALSE, status |-> "none"]
NoModelRequest == [op |-> "none", version |-> 0]

ModelVersion == 1 .. MaxModelVersion
ModelRows == {v \in ModelVersion : models[v] # NoModel}
LatestModels == {v \in ModelRows : models[v].latest}

SecondLatestModel_First ==
    IF ModelRows = {} THEN 0 ELSE Max(ModelRows)

\* get_second_latest_model: the second from the highest version down.
SecondLatestModel ==
    IF Cardinality(ModelRows) < 2 THEN 0 ELSE Max(ModelRows \ {Max(ModelRows)})

-----------------------------------------------------------------------------
(* Requests *)

At(s, op, at) == modelRequest[s].op = op /\ modelRequest[s].at = at

ModelBegins(s, r) ==
    /\ modelRequest[s] = NoModelRequest
    /\ modelRequest' = [modelRequest EXCEPT ![s] = r]
    /\ mishaps' = IF \E o \in ModelSession \ {s} : modelRequest[o] # NoModelRequest
                  THEN mishaps \cup {"crossed"} ELSE mishaps
    /\ UNCHANGED <<models, service, mapping, modelFaults>>

ModelGoes(s, at) ==
    /\ modelRequest' = [modelRequest EXCEPT ![s].at = at]
    /\ UNCHANGED <<mishaps, modelFaults>>

ModelEnds(s) ==
    /\ modelRequest' = [modelRequest EXCEPT ![s] = NoModelRequest]
    /\ UNCHANGED <<mishaps, modelFaults>>

\* The commit of a request that has set the status of the row it has seen: no
\* write when that is what it saw, none at all when the row is gone.
SetStatus(r, status) ==
    models' = IF r.version \in ModelRows /\ r.seen # status
              THEN [models EXCEPT ![r.version].status = status] ELSE models

\* modify_status
ModifyStatus(r, previous, current) ==
    IF r.seen = previous THEN SetStatus(r, current) ELSE UNCHANGED models

-----------------------------------------------------------------------------
(* POST /models/create, DELETE /models/delete and /models/{id}/{version} *)

CreateModelRead(s) ==
    \E v \in LatestModels \cup (IF LatestModels = {} THEN {0} ELSE {}) :
        /\ v < MaxModelVersion
        /\ ModelBegins(s, [op |-> "create", at |-> "commit", version |-> v])

CreateModelCommit(s) ==
    LET v == modelRequest[s].version
    IN  /\ At(s, "create", "commit")
        /\ models' =
               IF v + 1 \in ModelRows \/ (v > 0 /\ v \notin ModelRows) THEN models
               ELSE [x \in ModelVersion |->
                        IF x = v + 1 THEN [latest |-> TRUE, status |-> "ready"]
                        ELSE IF x = v THEN [models[x] EXCEPT !.latest = FALSE]
                        ELSE models[x]]
        /\ ModelEnds(s)
        /\ UNCHANGED <<service, mapping>>

DeleteModelRead(s, v) ==
    /\ v \in ModelRows
    /\ ModelBegins(s, [op |-> "delete", at |-> "commit", version |-> v,
                       next |-> IF models[v].latest THEN SecondLatestModel ELSE 0])

DeleteLatestModel(s) == \E v \in LatestModels : DeleteModelRead(s, v)

\* What is deployed is not looked at.
DeleteModelCommit(s) ==
    LET r == modelRequest[s]
    IN  /\ At(s, "delete", "commit")
        /\ models' =
               IF r.next > 0 /\ r.next \notin ModelRows THEN models
               ELSE [x \in ModelVersion |->
                        IF x = r.version THEN NoModel
                        ELSE IF x = r.next THEN [models[x] EXCEPT !.latest = TRUE]
                        ELSE models[x]]
        /\ mishaps' = IF service = r.version THEN mishaps \cup {"orphaned"} ELSE mishaps
        /\ modelRequest' = [modelRequest EXCEPT ![s] = NoModelRequest]
        /\ UNCHANGED <<service, mapping, modelFaults>>

-----------------------------------------------------------------------------
(* POST /models/deploy (the latest) and /models/{id}/{version}/deploy *)

Deploy(s, v) ==
    /\ v \in ModelRows
    /\ ModelBegins(s, [op |-> "deploy", at |-> "check", version |-> v,
                       seen |-> models[v].status])

DeployLatest(s) == \E v \in LatestModels : Deploy(s, v)

\* A service of any version counts; the status is made to say so.
DeployCheck(s) ==
    /\ At(s, "deploy", "check")
    /\ IF service # 0
       THEN ModifyStatus(modelRequest[s], "ready", "deployed") /\ ModelEnds(s)
       ELSE UNCHANGED models /\ ModelGoes(s, "mapping")
    /\ UNCHANGED <<service, mapping>>

\* create_ksvc: the mapping unless there is one, then the service.
CreateMapping(s) ==
    /\ At(s, "deploy", "mapping")
    /\ mapping' = TRUE
    /\ ModelGoes(s, "service")
    /\ UNCHANGED <<models, service>>

CreateService(s) ==
    /\ At(s, "deploy", "service")
    /\ IF service # 0 THEN ModelEnds(s) /\ UNCHANGED service
       ELSE service' = modelRequest[s].version /\ ModelGoes(s, "commit")
    /\ UNCHANGED <<models, mapping>>

DeployCommit_Deployed(s) ==
    /\ At(s, "deploy", "commit")
    /\ ModifyStatus(modelRequest[s], "deployed", "ready")
    /\ ModelEnds(s)
    /\ UNCHANGED <<service, mapping>>

DeployCommit(s) ==
    /\ At(s, "deploy", "commit")
    /\ SetStatus(modelRequest[s], "deployed")
    /\ ModelEnds(s)
    /\ UNCHANGED <<service, mapping>>

-----------------------------------------------------------------------------
(* DELETE /models/undeploy and POST /models/{id}/{version}/undeploy *)

Undeploy(s, v) ==
    /\ v \in ModelRows
    /\ ModelBegins(s, [op |-> "undeploy", at |-> "check", version |-> v,
                       seen |-> models[v].status])

UndeployLatest(s) == \E v \in LatestModels : Undeploy(s, v)

UndeployCheck(s) ==
    /\ At(s, "undeploy", "check")
    /\ IF service = 0
       THEN ModifyStatus(modelRequest[s], "deployed", "ready") /\ ModelEnds(s)
       ELSE UNCHANGED models /\ ModelGoes(s, "service")
    /\ UNCHANGED <<service, mapping>>

\* delete_ksvc: the service, then the mapping if there is one.
DeleteService(s) ==
    /\ At(s, "undeploy", "service")
    /\ IF service = 0 THEN ModelEnds(s) ELSE ModelGoes(s, "mapping")
    /\ service' = 0
    /\ UNCHANGED <<models, mapping>>

DeleteMapping(s) ==
    /\ At(s, "undeploy", "mapping")
    /\ mapping' = FALSE
    /\ ModelGoes(s, "commit")
    /\ UNCHANGED <<models, service>>

UndeployCommit(s) ==
    /\ At(s, "undeploy", "commit")
    /\ SetStatus(modelRequest[s], "ready")
    /\ ModelEnds(s)
    /\ UNCHANGED <<service, mapping>>

-----------------------------------------------------------------------------
(* Faults *)

\* A failing call of the API ends the request: what was made before stays.
ApiFails(s) ==
    /\ "api" \in ModelFaults /\ modelFaults < MaxModelFaults
    /\ modelRequest[s].op \in {"deploy", "undeploy"}
    /\ modelRequest[s].at \in {"check", "mapping", "service"}
    /\ modelRequest' = [modelRequest EXCEPT ![s] = NoModelRequest]
    /\ mishaps' = mishaps \cup {"api"}
    /\ modelFaults' = modelFaults + 1
    /\ UNCHANGED <<models, service, mapping>>

CrashModels ==
    /\ "crash" \in ModelFaults /\ modelFaults < MaxModelFaults
    /\ \E s \in ModelSession : modelRequest[s] # NoModelRequest
    /\ modelRequest' = [s \in ModelSession |-> NoModelRequest]
    /\ mishaps' = mishaps \cup {"crash"}
    /\ modelFaults' = modelFaults + 1
    /\ UNCHANGED <<models, service, mapping>>

-----------------------------------------------------------------------------
Init ==
    /\ models = [v \in ModelVersion |-> NoModel]
    /\ service = 0 /\ mapping = FALSE
    /\ modelRequest = [s \in ModelSession |-> NoModelRequest]
    /\ mishaps = {} /\ modelFaults = 0

Next ==
    \/ \E s \in ModelSession :
           \/ CreateModelRead(s) \/ CreateModelCommit(s) \/ DeleteModelCommit(s)
           \/ \E v \in ModelVersion :
                  DeleteModelRead(s, v) \/ Deploy(s, v) \/ Undeploy(s, v)
           \/ DeleteLatestModel(s) \/ DeployLatest(s) \/ UndeployLatest(s)
           \/ DeployCheck(s) \/ CreateMapping(s) \/ CreateService(s) \/ DeployCommit(s)
           \/ UndeployCheck(s) \/ DeleteService(s) \/ DeleteMapping(s) \/ UndeployCommit(s)
           \/ ApiFails(s)
    \/ CrashModels

Spec == Init /\ [][Next]_modelsVars

-----------------------------------------------------------------------------
(* Properties *)

\* The latest model is the highest version and no other, whatever was created,
\* deleted and deployed, one request at a time.
LatestModelIsHighest ==
    "crossed" \notin mishaps =>
        LatestModels = (IF ModelRows = {} THEN {} ELSE {Max(ModelRows)})

ModelsQuiet == \A s \in ModelSession : modelRequest[s] = NoModelRequest

\* The version that runs says it is deployed, also after calls that failed
\* half way and after requests for other versions, which share the service;
\* requests that overlap, a crash before the commit and the deletion of the
\* version that runs are the exceptions.
DeployedSaysSo ==
    ( ModelsQuiet /\ service # 0 /\ mishaps \cap {"crossed", "crash", "orphaned"} = {} )
        => models[service].status = "deployed"

\* The mapping and the service of a model come and go together, as long as
\* every call succeeds.
MappedWhenServed ==
    ModelsQuiet /\ mishaps \subseteq {"orphaned"} => (mapping <=> service # 0)

=============================================================================
