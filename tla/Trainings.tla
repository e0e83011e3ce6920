----------------------------- MODULE Trainings -----------------------------
(***************************************************************************)
(* Basements and trainings of the models service (models/routers/          *)
(* basements_routers.py, training_routers.py, convert_utils.py,            *)
(* colab_ssh_utils.py): a training has the script and the archive of its   *)
(* basement and a dataset that convert exports; start_training copies them *)
(* to a Colab session, one by one, and executes the script there.          *)
(* Handlers run in threads: what they read may change before they write.   *)
(***************************************************************************)
EXTENDS Naturals, Sequences, FiniteSets

CONSTANTS
    Basement, Training, \* ids; those of trainings are numbers
    TrainSession,       \* concurrent requests
    MaxExports          \* bound on the number of exports

VARIABLES
    basements,     \* rows: [script, archive], or NoRow
    trainings,     \* rows: [basement, dataset], or NoRow; dataset 0: none
    lastExport,    \* exports are numbered
    exported,      \* exports that are in the object storage
    colab,         \* what was copied last as script, dataset and archive
    running,       \* what was executed last, or NoRow
    trainRequest,  \* the request of each session, or NoTrainRequest
    mixedStarts,   \* history: two starts have overlapped
    othersResults  \* history: a training was given another's results

trainingsVars == <<basements, trainings, lastExport, exported, colab, running,
                   trainRequest, mixedStarts, othersResults>>

NoRow == [row |-> FALSE, script |-> FALSE, archive |-> FALSE]
NoTrainRequest == [op |-> "none"]
BasementRow(script, archive) == [row |-> TRUE, script |-> script, archive |-> archive]
TrainingRow(b, dataset) == [row |-> TRUE, basement |-> b, dataset |-> dataset]

rows == <<basements, trainings, lastExport, exported>>
remote == <<colab, running>>

FreeTrain(s) == trainRequest[s] = NoTrainRequest
DoneTrain(s) == trainRequest' = [trainRequest EXCEPT ![s] = NoTrainRequest]
Asks(s, q) == FreeTrain(s) /\ trainRequest' = [trainRequest EXCEPT ![s] = q]
In(s, op) == trainRequest[s].op = op

-----------------------------------------------------------------------------
(* Rows *)

\* create_new_basement: is_id_existing, then create_instance; who is second at
\* the same id is refused by the key.
CreateBasement(s, b) ==
    /\ Asks(s, [op |-> "basement", basement |-> b]) /\ ~basements[b].row
    /\ UNCHANGED <<rows, remote, mixedStarts, othersResults>>

InsertBasement(s) ==
    LET b == trainRequest[s].basement
    IN  /\ In(s, "basement") /\ DoneTrain(s)
        /\ basements' = IF basements[b].row THEN basements
                        ELSE [basements EXCEPT ![b] = BasementRow(FALSE, FALSE)]
        /\ UNCHANGED <<trainings, lastExport, exported, remote, mixedStarts, othersResults>>

\* create_new_training, update_training: the basement is looked up, and the
\* foreign key holds when the row is written.
AskTraining(s, b) ==
    /\ Asks(s, [op |-> "create", basement |-> b]) /\ basements[b].row
    /\ UNCHANGED <<rows, remote, mixedStarts, othersResults>>

AskUpdate(s, t, b) ==
    /\ Asks(s, [op |-> "update", id |-> t, basement |-> b])
    /\ trainings[t].row /\ basements[b].row
    /\ UNCHANGED <<rows, remote, mixedStarts, othersResults>>

\* The database gives the next id.
CreateTraining(s) ==
    LET free == {t \in Training : ~trainings[t].row}
    IN  /\ In(s, "create") /\ DoneTrain(s)
        /\ \E t \in free :
               /\ \A u \in free : t <= u
               /\ trainings' = [trainings EXCEPT ![t] =
                                    TrainingRow(trainRequest[s].basement, 0)]
        /\ UNCHANGED <<basements, lastExport, exported, remote, mixedStarts, othersResults>>

\* modify_instance writes the columns of the request; the keys are not among
\* them.
ModifyTraining(s) ==
    LET q == trainRequest[s]
    IN  /\ In(s, "update") /\ DoneTrain(s)
        /\ trainings' = [trainings EXCEPT ![q.id].basement = q.basement]
        /\ UNCHANGED <<basements, lastExport, exported, remote, mixedStarts, othersResults>>

-----------------------------------------------------------------------------
(* Files of basements and trainings *)

\* Four handlers call get_minio_resource(tenant=...), whose parameter is named
\* bucket_name: the TypeError is before anything is uploaded, removed or written.
CallFails == UNCHANGED trainingsVars

UploadBasementFiles(b) == basements[b].row /\ CallFails
DeleteBasement(b) == basements[b].row /\ CallFails
UploadTrainingFiles(t) == trainings[t].row /\ CallFails
DeleteTraining(t) == trainings[t].row /\ CallFails

-----------------------------------------------------------------------------
(* POST /trainings/{id}/annotation_dataset *)

PrepareDataset(s, t) ==
    /\ Asks(s, [op |-> "prepare", id |-> t]) /\ trainings[t].row
    /\ UNCHANGED <<rows, remote, mixedStarts, othersResults>>

\* Convert answers with the path before it has written the file there.
ConvertAnswers(s) ==
    /\ In(s, "prepare") /\ lastExport < MaxExports
    /\ lastExport' = lastExport + 1
    /\ trainRequest' = [trainRequest EXCEPT ![s] =
           [op |-> "prepared", id |-> @.id, dataset |-> lastExport + 1]]
    /\ UNCHANGED <<basements, trainings, exported, remote, mixedStarts, othersResults>>

ConvertFails(s) ==
    /\ In(s, "prepare") /\ DoneTrain(s)
    /\ UNCHANGED <<rows, remote, mixedStarts, othersResults>>

DatasetCommitted(s) ==
    LET q == trainRequest[s]
    IN  /\ In(s, "prepared") /\ DoneTrain(s)
        /\ trainings' = [trainings EXCEPT ![q.id].dataset = q.dataset]
        /\ UNCHANGED <<basements, lastExport, exported, remote, mixedStarts, othersResults>>

ExportEnds(n) ==
    /\ n \in 1 .. lastExport \ exported
    /\ exported' = exported \cup {n}
    /\ UNCHANGED <<basements, trainings, lastExport, remote, trainRequest,
                   mixedStarts, othersResults>>

-----------------------------------------------------------------------------
(* POST /trainings/{id}/start *)

\* The keys are read once; what has no script or no dataset is refused.
StartTraining(s, t) ==
    LET b == trainings[t].basement
    IN  /\ trainings[t].row /\ basements[b].script /\ trainings[t].dataset # 0
        /\ Asks(s, [op |-> "start", id |-> t, next |-> 1, basement |-> b,
                    dataset |-> trainings[t].dataset, archive |-> basements[b].archive])
        /\ mixedStarts' = (mixedStarts \/ \E r \in TrainSession : In(r, "start"))
        /\ UNCHANGED <<rows, remote, othersResults>>

StartSteps_ArchiveLast == <<"script", "dataset", "execute", "archive">>

StartSteps == <<"script", "dataset", "archive", "execute">>

Step(s, name) == In(s, "start") /\ StartSteps[trainRequest[s].next] = name

NextStep(s) ==
    /\ IF trainRequest[s].next = Len(StartSteps) THEN DoneTrain(s)
       ELSE trainRequest' = [trainRequest EXCEPT ![s].next = @ + 1]
    /\ UNCHANGED <<rows, mixedStarts, othersResults>>

CopyScript(s) ==
    /\ Step(s, "script") /\ NextStep(s)
    /\ colab' = [colab EXCEPT !.script = trainRequest[s].basement]
    /\ UNCHANGED running

\* The object has to be there by now.
CopyDataset(s) ==
    /\ Step(s, "dataset") /\ NextStep(s)
    /\ trainRequest[s].dataset \in exported
    /\ colab' = [colab EXCEPT !.dataset = trainRequest[s].dataset]
    /\ UNCHANGED running

CopyArchive(s) ==
    /\ Step(s, "archive") /\ NextStep(s)
    /\ colab' = IF trainRequest[s].archive
                THEN [colab EXCEPT !.archive = trainRequest[s].basement] ELSE colab
    /\ UNCHANGED running

Execute(s) ==
    /\ Step(s, "execute") /\ NextStep(s)
    /\ running' = [row |-> TRUE, request |-> trainRequest[s], files |-> colab]
    /\ UNCHANGED colab

\* The connection or the storage: what was copied stays where it is.
StartFails(s) ==
    /\ In(s, "start") /\ DoneTrain(s)
    /\ UNCHANGED <<rows, remote, mixedStarts, othersResults>>

\* POST /trainings/{id}/results: whatever is in the directory of results becomes
\* this training's.
DownloadResults(t) ==
    /\ trainings[t].row /\ running.row
    /\ othersResults' = (othersResults \/ running.request.id # t)
    /\ UNCHANGED <<rows, remote, trainRequest, mixedStarts>>

-----------------------------------------------------------------------------
\* The first basement has its files, which no request can give it any more.
Init ==
    /\ basements \in [Basement -> {NoRow, BasementRow(TRUE, TRUE), BasementRow(TRUE, FALSE)}]
    /\ trainings = [t \in Training |-> NoRow]
    /\ lastExport = 0 /\ exported = {}
    /\ colab = [script |-> "none", dataset |-> 0, archive |-> "none"]
    /\ running = NoRow
    /\ trainRequest = [s \in TrainSession |-> NoTrainRequest]
    /\ mixedStarts = FALSE /\ othersResults = FALSE

Next ==
    \/ \E s \in TrainSession :
           \/ \E b \in Basement : CreateBasement(s, b) \/ AskTraining(s, b)
           \/ \E t \in Training, b \in Basement : AskUpdate(s, t, b)
           \/ \E t \in Training : PrepareDataset(s, t) \/ StartTraining(s, t)
           \/ InsertBasement(s) \/ CreateTraining(s) \/ ModifyTraining(s)
           \/ ConvertAnswers(s) \/ ConvertFails(s) \/ DatasetCommitted(s)
           \/ CopyScript(s) \/ CopyDataset(s) \/ CopyArchive(s) \/ Execute(s)
           \/ StartFails(s)
    \/ \E b \in Basement : UploadBasementFiles(b) \/ DeleteBasement(b)
    \/ \E t \in Training :
           UploadTrainingFiles(t) \/ DeleteTraining(t) \/ DownloadResults(t)
    \/ \E n \in 1 .. MaxExports : ExportEnds(n)

Spec == Init /\ [][Next]_trainingsVars

-----------------------------------------------------------------------------
(* Properties *)

\* What start_training executes is the script of the training's basement on the
\* dataset of the training, complete, and with the basement's archive when it
\* has one, unless two starts have overlapped: they share one directory.
TrainingRunsItsFiles ==
    running.row /\ ~mixedStarts =>
        LET q == running.request
        IN  /\ running.files.script = q.basement
            /\ running.files.dataset = q.dataset /\ q.dataset \in exported
            /\ q.archive => running.files.archive = q.basement

\* A training without an archive runs without one.  Refuted: that of the
\* training before is still in the directory.
NoArchiveOfOthers ==
    running.row /\ ~mixedStarts /\ ~running.request.archive =>
        running.files.archive = "none"

\* The results of a training are those of its own execution.  Refuted: they are
\* whatever the shared directory of results has.
ResultsAreOwn == ~othersResults

=============================================================================
