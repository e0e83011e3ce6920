------------------------------ MODULE JobFiles ------------------------------
(***************************************************************************)
(* The files of one job: the job manager collects them from assets before  *)
(* it stores the row (jobs/jobs/utils.py, create_job_funcs.py), cuts them  *)
(* into the arguments of the first steps of a pipeline, and annotation     *)
(* collects them again from the ids in the row                             *)
(* (annotation/microservice_communication).  Every answer of assets is an  *)
(* event of its own: files and datasets change in between.                 *)
(***************************************************************************)
EXTENDS Naturals, Sequences, FiniteSets, SequencesExt, FiniteSetsExt

CONSTANTS
    JobFile,        \* ids of files, numbers
    JobDataset,     \* ids of datasets
    PagesIn,        \* the number of pages of each file
    FileRequests,   \* requests: [datasets, files] records of sequences of ids
    SearchSize,     \* elements on a page of a search: 100
    BatchPages,     \* PAGINATION_THRESHOLD: 7 pages for one step
    MaxFileChanges  \* bound on the changes of files during the requests

VARIABLES
    inAssets,    \* ids of the files assets has
    members,     \* the files of each dataset that exists
    lookup,      \* the request that is collecting files, or NoLookup
    jobData,     \* the job's row: what was found, or NoData
    initArgs,    \* what the pipeline is executed with
    fileRows,    \* the files of the job in annotation
    asking,      \* history: the request the row is for
    touched,     \* history: files that changed since they were asked for
    fileChanges  \* number of changes

jobFilesVars == <<inAssets, members, lookup, jobData, initArgs, fileRows,
                  asking, touched, fileChanges>>

NoLookup == [at |-> "none"]
NoData == [datasets |-> <<>>, files |-> <<>>, all |-> <<>>]

-----------------------------------------------------------------------------
(* What assets answers *)

InOrder(S) == SetToSortSeq(S, <)

\* POST /files/search with the filter "id in ids".
Searched(ids, page) ==
    LET hits == InOrder(inAssets \cap ToSet(ids))
    IN  SubSeq(hits, (page - 1) * SearchSize + 1, Min({page * SearchSize, Len(hits)}))

\* GET /datasets/{id}/files: of a dataset that does not exist there are none.
FilesOfDataset(d) ==
    IF d \in DOMAIN members THEN InOrder(members[d] \cap inAssets) ELSE <<>>

-----------------------------------------------------------------------------
(* The job manager *)

Chunk(s, n, k) == SubSeq(s, (k - 1) * n + 1, Min({k * n, Len(s)}))
ChunkCount(s, n) == (Len(s) + n - 1) \div n

\* create_extraction_job, create_extraction_annotation_job: the pipeline, the
\* datasets one by one, the batches of files.
AskFiles(q) ==
    /\ lookup = NoLookup /\ jobData = NoData
    /\ lookup' = [at |-> "pipeline", req |-> q, next |-> 1, found |-> <<>>,
                  separate |-> <<>>]
    /\ asking' = q /\ touched' = {}
    /\ UNCHANGED <<inAssets, members, jobData, initArgs, fileRows, fileChanges>>

\* create_annotation_job stores what it is given.
AskManual(q) ==
    /\ lookup = NoLookup /\ jobData = NoData
    /\ jobData' = [datasets |-> q.datasets, files |-> q.files, all |-> <<>>]
    /\ asking' = q /\ touched' = {}
    /\ UNCHANGED <<inAssets, members, lookup, initArgs, fileRows, fileChanges>>

LookupGoes(l) ==
    /\ lookup' = l
    /\ UNCHANGED <<inAssets, members, jobData, initArgs, fileRows, asking,
                   touched, fileChanges>>

\* No pipeline of that name and version: 422.
PipelineAnswers ==
    /\ lookup.at = "pipeline"
    /\ \/ LookupGoes([lookup EXCEPT !.at = "datasets"])
       \/ LookupGoes(NoLookup)

DatasetAnswers ==
    /\ lookup.at = "datasets" /\ lookup.next <= Len(lookup.req.datasets)
    /\ LookupGoes([lookup EXCEPT
           !.next = @ + 1,
           !.found = @ \o FilesOfDataset(lookup.req.datasets[lookup.next])])

DatasetsDone ==
    /\ lookup.at = "datasets" /\ lookup.next > Len(lookup.req.datasets)
    /\ LookupGoes([lookup EXCEPT !.at = "files", !.next = 1])

\* Each batch is searched on the page that the number of all ids gives.
BatchAnswers ==
    LET ids == lookup.req.files
    IN  /\ lookup.at = "files" /\ lookup.next <= ChunkCount(ids, SearchSize)
        /\ LookupGoes([lookup EXCEPT
               !.next = @ + 1,
               !.separate = @ \o Searched(Chunk(ids, SearchSize, lookup.next),
                                          Len(ids) \div SearchSize + 1)])

DeleteDuplicates_Adjacent(s) ==
    LET last == InOrder({j \in 1 .. Len(s) : j = Len(s) \/ s[j + 1] # s[j]})
    IN  [i \in 1 .. Len(last) |-> s[last[i]]]

\* The last of equal ids stays.
DeleteDuplicates(s) ==
    LET last == InOrder({j \in 1 .. Len(s) : \A k \in j + 1 .. Len(s) : s[k] # s[j]})
    IN  [i \in 1 .. Len(last) |-> s[last[i]]]

\* Nothing found is refused (406); else the row is stored.
StoreFiles ==
    /\ lookup.at = "files" /\ lookup.next > ChunkCount(lookup.req.files, SearchSize)
    /\ lookup' = NoLookup
    /\ LET all == DeleteDuplicates(lookup.found \o lookup.separate)
       IN  jobData' = IF all = <<>> THEN NoData
                      ELSE [datasets |-> lookup.req.datasets,
                            files |-> lookup.separate, all |-> all]
    /\ UNCHANGED <<inAssets, members, initArgs, fileRows, asking, touched,
                   fileChanges>>

\* Any answer may be an error: 422, and nothing is stored.
LookupFails == lookup # NoLookup /\ lookup.at # "rows" /\ LookupGoes(NoLookup)

FilePages(f) == [p \in 1 .. PagesIn[f] |-> p]

ArgsOfFile_Rounded(f) ==
    LET n == PagesIn[f] \div BatchPages
    IN  IF n <= 1 THEN <<[file |-> f, path |-> <<f>>, pages |-> FilePages(f)]>>
        ELSE [k \in 1 .. n |-> [file |-> f, path |-> <<f, k>>,
                                pages |-> Chunk(FilePages(f), BatchPages, k)]]

\* One step for a file, at runs/job/file, or several at runs/job/file/batch.
ArgsOfFile(f) ==
    LET n == ChunkCount(FilePages(f), BatchPages)
    IN  IF n = 1 THEN <<[file |-> f, path |-> <<f>>, pages |-> FilePages(f)]>>
        ELSE [k \in 1 .. n |-> [file |-> f, path |-> <<f, k>>,
                                pages |-> Chunk(FilePages(f), BatchPages, k)]]

\* convert_files_data_for_inference
ConvertFiles ==
    /\ jobData.all # <<>> /\ initArgs = <<>>
    /\ initArgs' = FlattenSeq([i \in 1 .. Len(jobData.all) |->
                                  ArgsOfFile(jobData.all[i])])
    /\ UNCHANGED <<inAssets, members, lookup, jobData, fileRows, asking,
                   touched, fileChanges>>

-----------------------------------------------------------------------------
(* Annotation: get_files_info, in post_job *)

AskAgain ==
    /\ jobData # NoData /\ lookup = NoLookup /\ fileRows = {}
    /\ lookup' = [at |-> "rows", next |-> 1, rows |-> {},
                  left |-> ToSet(jobData.datasets), ids |-> ToSet(jobData.files)]
    /\ UNCHANGED <<inAssets, members, jobData, initArgs, fileRows, asking,
                   touched, fileChanges>>

\* get_response: a page's own ids are searched, on that page.
PageAnswers ==
    LET ids == InOrder(lookup.ids)
    IN  /\ lookup.at = "rows" /\ lookup.next <= ChunkCount(ids, SearchSize)
        /\ LookupGoes([lookup EXCEPT
               !.next = @ + 1,
               !.rows = @ \cup ToSet(Searched(Chunk(ids, SearchSize, lookup.next),
                                              lookup.next))])

\* get_dataset_info: of what is not one of the job's files already.
DatasetAnswersAgain ==
    /\ lookup.at = "rows"
    /\ lookup.next > ChunkCount(InOrder(lookup.ids), SearchSize)
    /\ \E d \in lookup.left :
           LookupGoes([lookup EXCEPT
               !.left = @ \ {d},
               !.rows = @ \cup (ToSet(FilesOfDataset(d)) \ lookup.ids)])

StoreRows ==
    /\ lookup.at = "rows" /\ lookup.left = {}
    /\ lookup.next > ChunkCount(InOrder(lookup.ids), SearchSize)
    /\ fileRows' = lookup.rows /\ lookup' = NoLookup
    /\ UNCHANGED <<inAssets, members, jobData, initArgs, asking, touched,
                   fileChanges>>

-----------------------------------------------------------------------------
(* Assets change *)

FileChange(f) ==
    /\ fileChanges < MaxFileChanges
    /\ fileChanges' = fileChanges + 1 /\ touched' = touched \cup {f}
    /\ UNCHANGED <<lookup, jobData, initArgs, fileRows, asking>>

FileGoes(f) ==
    /\ f \in inAssets /\ FileChange(f)
    /\ inAssets' = inAssets \ {f}
    /\ members' = [d \in DOMAIN members |-> members[d] \ {f}]

FileJoins(f, d) ==
    /\ f \in inAssets /\ d \in DOMAIN members /\ f \notin members[d]
    /\ FileChange(f)
    /\ members' = [members EXCEPT ![d] = @ \cup {f}]
    /\ UNCHANGED inAssets

Init ==
    /\ inAssets \in {JobFile, JobFile \ {1}}
    /\ members \in [{Min(JobDataset)} -> SUBSET inAssets]
    /\ lookup = NoLookup /\ jobData = NoData
    /\ initArgs = <<>> /\ fileRows = {} /\ asking = NoData
    /\ touched = {} /\ fileChanges = 0

Next ==
    \/ \E q \in FileRequests : AskFiles(q) \/ AskManual(q)
    \/ PipelineAnswers \/ DatasetAnswers \/ DatasetsDone \/ BatchAnswers
    \/ StoreFiles \/ LookupFails \/ ConvertFiles
    \/ AskAgain \/ PageAnswers \/ DatasetAnswersAgain \/ StoreRows
    \/ \E f \in JobFile : FileGoes(f) \/ \E d \in JobDataset : FileJoins(f, d)

Spec == Init /\ [][Next]_jobFilesVars

-----------------------------------------------------------------------------
(* Properties *)

AskedFor(q) ==
    (inAssets \cap ToSet(q.files))
        \cup UNION {members[d] : d \in ToSet(q.datasets) \cap DOMAIN members}

\* A job takes every file that it asks for and assets has, each once: what
\* changes while the answers come in may be in or out, what does not is not
\* lost.  EveryFileIsTaken leaves the bound on the request out: refuted, since
\* from SearchSize separate files on all searches are for an empty page.
TakesItsFiles ==
    /\ IsInjective(jobData.all)
    /\ ToSet(jobData.all) \ touched = AskedFor(asking) \ touched

FilesAreTaken ==
    jobData.all # <<>> /\ Len(asking.files) < SearchSize => TakesItsFiles

EveryFileIsTaken == jobData.all # <<>> => TakesItsFiles

\* Annotation finds the files the job was asked for, and so those that the
\* extraction is run on, but for what has changed in between.  Of a longer
\* request it finds those of the first page (EveryFileIsAnnotated: refuted).
HasRows == fileRows \ touched = AskedFor(asking) \ touched

SameFilesInAnnotation ==
    /\ fileRows # {}
    /\ \/ Len(asking.files) < SearchSize
       \/ Len(asking.files) = SearchSize /\ jobData.all = <<>>
    => HasRows

EveryFileIsAnnotated == fileRows # {} => HasRows

\* Every page of every file is in one step of the pipeline, and no two steps
\* write to one path.
PagesInOneStep ==
    initArgs # <<>> =>
        /\ \A f \in ToSet(jobData.all) :
               FlattenSeq(SelectSeq([i \in 1 .. Len(initArgs) |->
                                         IF initArgs[i].file = f THEN initArgs[i].pages
                                         ELSE <<>>],
                                    LAMBDA s : s # <<>>)) = FilePages(f)
        /\ \A i, j \in 1 .. Len(initArgs) :
               i # j => initArgs[i].path # initArgs[j].path

=============================================================================
