------------------------------- MODULE Services -------------------------------
(***************************************************************************)
(* The services around the tasks of annotators and the runs of pipelines,  *)
(* side by side, with the properties each of them has.  A behaviour is one *)
(* of a single part, chosen at its start; the variables of the others keep *)
(* their initial values.                                                   *)
(***************************************************************************)
EXTENDS ServiceParts, Assets, JobsService, Taxons

CONSTANTS
    Parts,  \* the parts that may be chosen
    MergeTask, Dirs, StepsOf, Shapes, MergeFaults,              \* ResultMerging
    JobFile, JobDataset, PagesIn, FileRequests, SearchSize, BatchPages,
    MaxFileChanges,                                             \* JobFiles
    Batch, PageCount, RunRequests, PagesPerBatch, SearchLimit, MaxTasks, Attempts,
    MaxExecutions, MaxPreFaults                                 \* Preprocessing

VARIABLES
    part,
    dirOf, results, stored, outcome, annotated, found,
    inAssets, members, lookup, jobData, initArgs, fileRows, asking, touched,
    fileChanges,
    queue, run, executions, tasks, fileStatus, reports, preFaults, excused

G == INSTANCE ResultMerging

F == INSTANCE JobFiles

P == INSTANCE Preprocessing

taxonomiesVars == <<taxonomies, taxLinks, taxRequest, taxCrossed>>
modelsVars == <<models, service, mapping, modelRequest, mishaps, modelFaults>>
catalogueVars == <<catalogue, assigned, pipelineTasks, demoted>>
mergingVars == <<dirOf, results, stored, outcome, annotated, found>>
jobFilesVars == <<inAssets, members, lookup, jobData, initArgs, fileRows, asking,
                  touched, fileChanges>>
tenantsVars == <<buckets, groups, persons, invited, userRequest,
                 granted, registered, overwritten>>
preVars == <<queue, run, executions, tasks, fileStatus, reports, preFaults,
             excused>>
trainingsVars == <<basements, trainings, lastExport, exported, colab, running,
                   trainRequest, mixedStarts, othersResults>>

servicesVars == <<part, jobsVars, assetsVars, tenantsVars, modelsVars, taxonomiesVars,
                  taxonsVars, trainingsVars, catalogueVars, mergingVars, jobFilesVars,
                  preVars>>

-----------------------------------------------------------------------------
Init ==
    /\ part \in Parts
    /\ InitJobs /\ InitAssets /\ InitTaxons
    /\ U!Init /\ M!Init /\ X!Init /\ N!Init /\ C!Init /\ G!Init /\ F!Init
    /\ P!Init

\* The other parts stand still.
Only(p) ==
    /\ part = p /\ UNCHANGED part
    /\ IF p = "jobs" THEN TRUE ELSE UNCHANGED jobsVars
    /\ IF p = "assets" THEN TRUE ELSE UNCHANGED assetsVars
    /\ IF p = "tenants" THEN TRUE ELSE UNCHANGED tenantsVars
    /\ IF p = "models" THEN TRUE ELSE UNCHANGED modelsVars
    /\ IF p = "taxonomies" THEN TRUE ELSE UNCHANGED taxonomiesVars
    /\ IF p = "taxons" THEN TRUE ELSE UNCHANGED taxonsVars
    /\ IF p = "trainings" THEN TRUE ELSE UNCHANGED trainingsVars
    /\ IF p = "catalogue" THEN TRUE ELSE UNCHANGED catalogueVars
    /\ IF p = "merging" THEN TRUE ELSE UNCHANGED mergingVars
    /\ IF p = "files" THEN TRUE ELSE UNCHANGED jobFilesVars
    /\ IF p = "preprocessing" THEN TRUE ELSE UNCHANGED preVars

Next ==
    \/ Only("jobs") /\ NextJobs
    \/ Only("assets") /\ NextAssets
    \/ Only("tenants") /\ U!Next
    \/ Only("models") /\ M!Next
    \/ Only("taxonomies") /\ X!Next
    \/ Only("taxons") /\ NextTaxons
    \/ Only("trainings") /\ N!Next
    \/ Only("catalogue") /\ C!Next
    \/ Only("merging") /\ G!Next
    \/ Only("files") /\ F!Next
    \/ Only("preprocessing") /\ P!Next

Spec == Init /\ [][Next]_servicesVars

-----------------------------------------------------------------------------
(* Properties: those of the parts, CountsAreBonds of Assets and ParentsAgree of *)
(* Taxons among them                                                        *)

\* The manual part of a job that is not started early begins after its
\* extraction, and the job is finished after both.
PartsInOrder == FinishedMeansAnnotated /\ ManualAfterExtraction

\* When nothing is under way the status of a job, or of a file that is
\* preprocessed, is what the services report.
StatusesAgree == StatusSettles /\ P!FilesSettle

\* The latest taxonomy, model or pipeline is the highest version.
LatestIsHighest ==
    C!LatestPipelineIsHighest /\ X!LatestIsHighest /\ M!LatestModelIsHighest

\* The version of a model that runs says so, its service and its mapping come
\* and go together, and a training runs with its own files.
DeploymentAgrees ==
    M!DeployedSaysSo /\ M!MappedWhenServed /\ N!TrainingRunsItsFiles

\* Files are uploaded in the end, and what is uploaded can be downloaded.
UploadsAreServed == UploadedIsServed /\ UploadsSettle

\* A task has the steps of its pipeline, whose name is its own, and its merged
\* pages have what the steps found, each object once; a file is preprocessed when
\* the steps over all of its pages are.
ResultsFollowSteps ==
    /\ C!StepsFollowPipeline /\ C!OneNamePerOriginal
    /\ G!ObjectsAreUnited
    /\ P!PreprocessedIsComplete

\* A task merges what its own steps have stored.
MergesItsOwn == G!MergesItsOwn

\* A job has the files it asks for, and pipelines and annotation the same.
JobHasItsFiles == F!FilesAreTaken /\ F!SameFilesInAnnotation /\ F!PagesInOneStep

\* Tenants have buckets, and users the tenants that were granted to them.
TenantsAgree == U!TenantsExist /\ U!MembersAsGranted /\ U!RegisteredIsInvited

\* Annotation has every file of a job, however many there are.
EveryFileIsAnnotated == F!EveryFileIsAnnotated

=============================================================================
