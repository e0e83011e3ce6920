---------------------------- MODULE JobsService ----------------------------
(***************************************************************************)
(* The status of one job (jobs/jobs/main.py, create_job_funcs.py,          *)
(* run_job_funcs.py, db_service.py): requests of users and callbacks of    *)
(* the pipelines and annotation services change one row, each in a         *)
(* coroutine that stops at every call of another service.                  *)
(*                                                                         *)
(* A request works on the row as it read it (seen); the session writes the *)
(* attributes that differ from what was read, and only those.  A call of   *)
(* another service is two events, its arrival there and its answer here.   *)
(* The annotation service answers one request at a time here (call); how   *)
(* its requests overlap is in AnnotationTasks.                             *)
(***************************************************************************)
EXTENDS Naturals, FiniteSets

CONSTANTS
    User,        \* requests of users (bounds their number)
    Jobs,        \* jobs that may be created: [type, draft, auto] records
    Changes,     \* what a user's PUT may change: [type, fields] records
    JobFaults,   \* kinds of faults that may happen: "down", a called service answers
                 \* with an error or not at all; "lost", it did what it was asked
                 \* and its answer is lost
    MaxJobFaults \* bound on how many do

Source == User \cup {"pipelines", "annotation"}

WebhookTries == 3

VARIABLES
    row,        \* the job's row, or Absent
    request,    \* the request of each source, or NoRequest
    extraction, \* what pipelines does for the job
    report,     \* the webhook pipelines is sending, or NoCall
    manual,     \* the annotation service's own status of the job
    call,       \* the request the annotation service is working on, or NoCall
    asked,      \* requests users have made
    disturbed,  \* history: what happened that some properties except
    jobFaults   \* number of faults that happened

jobsVars == <<row, request, extraction, report, manual, call, asked,
              disturbed, jobFaults>>

Absent == [type |-> "none"]
NoRequest == [op |-> "none"]
NoCall == [status |-> "none"]

Present == row # Absent

-----------------------------------------------------------------------------
(* Requests *)

\* One request: where it is, the row as it read it, what it wants changed.
Request(op, at, seen, change) ==
    [op |-> op, at |-> at, seen |-> seen, change |-> change]

NoChange == [type |-> "none", mode |-> "none", status |-> "none",
             fields |-> "none"]

StatusChange(s) == [NoChange EXCEPT !.status = s]

At(i, at) == request[i] # NoRequest /\ request[i].at = at

\* The answer of a callback: pipelines tries again, the annotation service
\* rolls back.  An answer with success may be lost on its way.
AnswerTo(i, ok) ==
    CASE i = "pipelines" ->
             /\ report' = IF ok \/ report.tries = WebhookTries THEN NoCall
                          ELSE [report EXCEPT !.tries = @ + 1]
             /\ UNCHANGED <<manual, call>>
      [] i = "annotation" ->
             /\ call' = [call EXCEPT !.at = IF ok THEN "done" ELSE "refused"]
             /\ manual' = IF ok THEN call.status ELSE manual
             /\ UNCHANGED report
      [] OTHER -> UNCHANGED <<report, manual, call>>

GivesUp(i, ok) == i = "pipelines" /\ ~ok /\ report.tries = WebhookTries

\* A request ends; the faults it met are counted by the action it ends in.
Ends(i, ok, d) ==
    /\ request' = [request EXCEPT ![i] = NoRequest]
    /\ \/ /\ AnswerTo(i, ok)
          /\ disturbed' = disturbed \cup d
                 \cup (IF GivesUp(i, ok) THEN {"gaveUp"} ELSE {})
          /\ UNCHANGED jobFaults
       \/ /\ ok /\ i \notin User
          /\ "lost" \in JobFaults /\ jobFaults < MaxJobFaults
          /\ AnswerTo(i, FALSE)
          /\ disturbed' = disturbed \cup d \cup {"lost"}
                 \cup (IF GivesUp(i, FALSE) THEN {"gaveUp"} ELSE {})
          /\ jobFaults' = jobFaults + 1

Moves(i, r, d) ==
    /\ request' = [request EXCEPT ![i] = r]
    /\ disturbed' = disturbed \cup d
    /\ UNCHANGED <<report, manual, call, jobFaults>>

Proceeds(i, r) == Moves(i, r, {})

Waits(i, at) == Proceeds(i, [request[i] EXCEPT !.at = at])

UserAsks(i) ==
    /\ i \in User /\ i \notin asked
    /\ asked' = asked \cup {i}

-----------------------------------------------------------------------------
(* The row *)

WriteRow_Stale(seen, ch) ==
    [seen EXCEPT
        !.type = IF ch.type = "none" THEN @ ELSE ch.type,
        !.mode = IF ch.mode = "none" THEN @ ELSE ch.mode,
        !.status = IF ch.status = "none" THEN @ ELSE ch.status]

\* change_job in db_service: the parameters that are not None, as far as they
\* differ from what the session has read.
WriteRow(seen, ch) ==
    [row EXCEPT
        !.type = IF ch.type \in {"none", seen.type} THEN @ ELSE ch.type,
        !.mode = IF ch.mode \in {"none", seen.mode} THEN @ ELSE ch.mode,
        !.status = IF ch.status \in {"none", seen.status} THEN @
                   ELSE ch.status]

WithMode(r, m) == [r EXCEPT !.mode = m]

IsManual(type) == type \in {"AnnotationJob", "ExtractionWithAnnotationJob"}

CreatedRow(k) ==
    [type |-> k.type, mode |-> "none", auto |-> k.auto,
     status |-> IF k.draft THEN "Draft" ELSE "Pending"]

\* run_extraction_job up to its call of pipelines.
RunExtraction(i, op, r) ==
    /\ row' = WithMode(r, "Automatic")
    /\ Proceeds(i, Request(op, "execute", row', NoChange))

\* run_annotation_job up to its call of annotation; mode is the one it sets.
RunAnnotation(i, op, r, mode) ==
    /\ row' = IF r.type = "ExtractionWithAnnotationJob" THEN r
              ELSE WithMode(r, mode)
    /\ Proceeds(i, Request(op, "post", row', NoChange))

-----------------------------------------------------------------------------
(* POST /jobs/create_job.  What it reads of pipelines and assets before the *)
(* row exists changes nothing when it fails.                                *)

Created(i, k) == UserAsks(i) /\ asked = {} /\ UNCHANGED extraction

Draft(k) ==
    /\ k.draft /\ row' = CreatedRow(k)
    /\ UNCHANGED <<request, report, manual, call, disturbed, jobFaults>>

\* create_extraction_job
CreateExtraction(i, k) ==
    /\ k.type = "ExtractionJob" /\ Created(i, k)
    /\ Draft(k) \/ (~k.draft /\ RunExtraction(i, "create", CreatedRow(k)))

\* create_annotation_job
CreateAnnotation(i, k) ==
    /\ k.type = "AnnotationJob" /\ Created(i, k)
    /\ Draft(k) \/ (~k.draft /\ RunAnnotation(i, "create", CreatedRow(k), "Manual"))

\* create_extraction_annotation_job
CreateCombined(i, k) ==
    /\ k.type = "ExtractionWithAnnotationJob" /\ Created(i, k)
    /\ Draft(k) \/ (~k.draft /\ RunExtraction(i, "create", CreatedRow(k)))

\* POST /start/{job_id}
MayRun(r) ==
    \/ r.status = "Draft"
    \/ /\ r.type = "ExtractionWithAnnotationJob"
       /\ r.status = "ReadyForAnnotation"

Run(i) ==
    /\ UserAsks(i) /\ Present /\ MayRun(row)
    /\ IF \/ row.type = "ExtractionJob"
          \/ row.type = "ExtractionWithAnnotationJob" /\ row.status = "Draft"
       THEN RunExtraction(i, "run", row)
       ELSE RunAnnotation(i, "run", row, "Manual")
    /\ UNCHANGED extraction

\* update_job_status(Pending) when the call of run_job is over; a row that is
\* gone cannot be written.
RunEnds(i) ==
    /\ row' = IF Present THEN [row EXCEPT !.status = "Pending"] ELSE row
    /\ Ends(i, Present,
            IF Present /\ row.status # request[i].seen.status
            THEN {"overtaken"} ELSE {})

\* The row as run_annotation_job posts it: but for a combined job it has set
\* the mode once more, and reads the row anew.
Reread(seen) == IF seen.type = "ExtractionWithAnnotationJob" THEN seen ELSE row

\* The answer of pipelines to execute_pipeline.
Executed(i) ==
    /\ At(i, "executed")
    /\ LET q == request[i]
       IN  IF q.op = "run" THEN RunEnds(i)
           ELSE IF ~Present /\ q.seen.type = "ExtractionJob"
           THEN Ends(i, FALSE, {}) /\ UNCHANGED row
           ELSE /\ UNCHANGED row
                /\ Proceeds(i, Request(q.op, "post", Reread(q.seen), q.change))
    /\ UNCHANGED <<extraction, asked>>

\* The answer of annotation to execute_in_annotation_microservice.
Posted(i) ==
    /\ At(i, "posted")
    /\ IF request[i].op = "run" THEN RunEnds(i)
       ELSE Ends(i, TRUE, {}) /\ UNCHANGED row
    /\ UNCHANGED <<extraction, asked>>

-----------------------------------------------------------------------------
(* PUT /jobs/{job_id}: by users, and by both services as their callback *)

FinishesAutomaticPart_Auto(seen, ch) ==
    /\ seen.type = "ExtractionWithAnnotationJob"
    /\ seen.mode = "Automatic" /\ ch.status = "Finished" /\ seen.auto

FinishesAutomaticPart_NoStatus(seen, ch) ==
    /\ seen.type = "ExtractionWithAnnotationJob"
    /\ seen.mode = "Automatic" /\ ch.status \in {"Finished", "Failed"}

FinishesAutomaticPart(seen, ch) ==
    /\ seen.type = "ExtractionWithAnnotationJob"
    /\ seen.mode = "Automatic" /\ ch.status = "Finished"

Converts(seen, ch) ==
    /\ seen.type = "ExtractionJob"
    /\ ch.type = "ExtractionWithAnnotationJob"

\* What is written in the end.
Effective(seen, ch) ==
    IF FinishesAutomaticPart(seen, ch) \/ Converts(seen, ch)
    THEN [ch EXCEPT !.mode = "Manual", !.status = "ReadyForAnnotation"]
    ELSE ch

\* A conversion before the extraction is done, or of a job that has become a
\* combined one meanwhile.
ConvertsLate(seen, ch) ==
    /\ Converts(seen, ch)
    /\ row.status # "Finished" \/ row.type # "ExtractionJob"

\* The last part: write, and start the manual job if it is to start by itself;
\* then the link to the taxonomy, if the categories have changed.
PutWrites(i, seen, ch) ==
    IF ~Present THEN UNCHANGED row /\ Ends(i, FALSE, {})
    ELSE /\ row' = WriteRow(seen, Effective(seen, ch))
         /\ LET d == IF ConvertsLate(seen, ch) THEN {"converted"} ELSE {}
            IN  IF FinishesAutomaticPart(seen, ch) /\ seen.auto
                THEN Proceeds(i, Request("put", "start", seen, ch))
                ELSE IF ch.fields = "categories"
                THEN Moves(i, Request("put", "link", seen, ch), d)
                ELSE Ends(i, TRUE, d)

\* The part before: annotation is told of what concerns it.
PutTells(i, seen, ch) ==
    IF IsManual(seen.type) /\ ch.fields # "none"
    THEN Proceeds(i, Request("put", "patch", seen, ch)) /\ UNCHANGED row
    ELSE PutWrites(i, seen, ch)

PutAllowed(r, ch) ==
    ch.type = "ExtractionWithAnnotationJob" => r.type = "ExtractionJob"

\* The first part: the links of the old categories are removed.
PutStarts(i, ch) ==
    IF ~Present \/ ~PutAllowed(row, ch)
    THEN UNCHANGED row /\ Ends(i, FALSE, {})
    ELSE IF ch.fields = "categories"
    THEN Proceeds(i, Request("put", "unlink", row, ch)) /\ UNCHANGED row
    ELSE PutTells(i, row, ch)

ChangeJob(i, c) ==
    /\ UserAsks(i) /\ Present
    /\ PutStarts(i, [NoChange EXCEPT !.type = c.type, !.fields = c.fields])
    /\ UNCHANGED extraction

Unlinked(i) ==
    /\ At(i, "unlink")
    /\ PutTells(i, request[i].seen, request[i].change)
    /\ UNCHANGED <<extraction, asked>>

\* The answer of annotation to update_job_in_annotation.
Patched(i) ==
    /\ At(i, "patch") /\ manual # "absent"
    /\ PutWrites(i, request[i].seen, request[i].change)
    /\ UNCHANGED <<extraction, asked>>

\* The answer of annotation to start_job_in_annotation.
Started(i) ==
    /\ At(i, "started")
    /\ Ends(i, Present, {})
    /\ UNCHANGED <<row, extraction, asked>>

Linked(i) ==
    /\ At(i, "link")
    /\ Ends(i, TRUE, {})
    /\ UNCHANGED <<row, extraction, asked>>

\* DELETE /jobs/{job_id}: the row, then the links; the services are not told.
Delete(i) ==
    /\ UserAsks(i) /\ Present
    /\ row' = Absent
    /\ Proceeds(i, Request("delete", "link", row, NoChange))
    /\ UNCHANGED extraction

\* The annotation service refuses a job it does not know or has already, a
\* start without tasks, users for a job that has no manual part.
Refused(i) ==
    \/ At(i, "post") /\ manual # "absent"
    \/ At(i, "patch") /\ manual \in {"absent", "extraction"}
    \/ At(i, "start") /\ manual \in {"absent", "extraction", "Pending"}
    \/ At(i, "start") /\ i = "annotation" /\ ~Present
    \/ At(i, "starting") /\ call.for = i /\ call.at = "refused"

\* A call fails: the request ends with an error, whatever it has written.
CallFails(i) ==
    /\ request[i] # NoRequest
    /\ \/ Refused(i) /\ UNCHANGED jobFaults
       \/ /\ "down" \in JobFaults /\ jobFaults < MaxJobFaults
          /\ request[i].at # "starting"
          /\ jobFaults' = jobFaults + 1
    /\ request' = [request EXCEPT ![i] = NoRequest]
    /\ IF At(i, "starting") THEN call' = NoCall /\ UNCHANGED <<report, manual>>
       ELSE AnswerTo(i, FALSE)
    /\ disturbed' = disturbed
           \cup (IF request[i].at \in {"start", "starting", "started"}
                 THEN {"startFailed"}
                 ELSE IF Refused(i) THEN {} ELSE {"failed"})
           \cup (IF GivesUp(i, FALSE) THEN {"gaveUp"} ELSE {})
    /\ UNCHANGED <<row, extraction, asked>>

-----------------------------------------------------------------------------
(* The pipelines service: PipelineExecution, as far as a job sees it *)

\* A second execution for the same job adds to the tasks of the first.
Accept(i) ==
    /\ At(i, "execute")
    /\ extraction' = CASE extraction = "none" -> "accepted"
                       [] extraction = "done" -> "running"
                       [] OTHER -> extraction
    /\ request' = [request EXCEPT ![i].at = "executed"]
    /\ disturbed' = disturbed
           \cup IF extraction = "none" THEN {} ELSE {"twice"}
    /\ UNCHANGED <<row, report, manual, call, asked, jobFaults>>

Reports(state, status) ==
    /\ report = NoCall
    /\ extraction' = state
    /\ report' = [status |-> status, tries |-> 1]
    /\ UNCHANGED <<row, request, manual, call, asked, disturbed, jobFaults>>

ExtractionStarts == extraction = "accepted" /\ Reports("running", "InProgress")

ExtractionEnds ==
    /\ extraction = "running"
    /\ Reports("done", "Finished") \/ Reports("failed", "Failed")

\* A webhook arrives; there are no awaits but those of PutStarts.
SendReport ==
    /\ report # NoCall /\ request["pipelines"] = NoRequest
    /\ PutStarts("pipelines", StatusChange(report.status))
    /\ UNCHANGED <<extraction, asked>>

ReportFails ==
    /\ report # NoCall /\ request["pipelines"] = NoRequest
    /\ "down" \in JobFaults /\ jobFaults < MaxJobFaults
    /\ jobFaults' = jobFaults + 1
    /\ AnswerTo("pipelines", FALSE)
    /\ disturbed' = disturbed
           \cup IF GivesUp("pipelines", FALSE) THEN {"gaveUp"} ELSE {}
    /\ UNCHANGED <<row, request, extraction, asked>>

-----------------------------------------------------------------------------
(* The annotation service: AnnotationTasks, as far as a job sees it *)

PostArrives(i) ==
    /\ At(i, "post") /\ manual = "absent"
    /\ manual' = IF IsManual(request[i].seen.type) THEN "Pending"
                 ELSE "extraction"
    /\ request' = [request EXCEPT ![i].at = "posted"]
    /\ UNCHANGED <<row, extraction, report, call, asked, disturbed, jobFaults>>

Calls(status, for) ==
    /\ call = NoCall
    /\ call' = [status |-> status, for |-> for, at |-> "send"]
    /\ UNCHANGED <<row, extraction, report, manual, asked, jobFaults>>

\* The job has tasks.
HasTasks == manual \notin {"absent", "extraction"}

\* start_job for the jobs service, which waits for it.
StartArrives(i) ==
    /\ At(i, "start") /\ i # "annotation" /\ IsManual(row.type) /\ HasTasks
    /\ Calls("InProgress", i)
    /\ request' = [request EXCEPT ![i].at = "starting"]
    /\ UNCHANGED disturbed

\* start_job for a manager: it looks neither at the status of the job nor at its
\* automatic part, and may be called again.
ManagerStarts ==
    /\ HasTasks
    /\ Calls("InProgress", "manager")
    /\ disturbed' = disturbed
           \cup IF row.type = "ExtractionWithAnnotationJob" /\ row.mode # "Manual"
                THEN {"early"} ELSE {}
    /\ UNCHANGED request

\* finish_task finishes the job.
ManualFinishes ==
    /\ manual = "InProgress"
    /\ Calls("Finished", "manager")
    /\ UNCHANGED <<request, disturbed>>

\* The annotation of a job that was started early ends before the extraction,
\* and the jobs service has the job started while it is told so: start_job
\* calls back ...
StartsWithin ==
    /\ At("annotation", "start") /\ Present
    /\ row' = WriteRow(row, StatusChange("InProgress"))
    /\ Waits("annotation", "starting")
    /\ UNCHANGED <<extraction, asked>>

\* ... and commits, before finish_task does.
StartedWithin ==
    /\ At("annotation", "starting")
    /\ manual' = "InProgress"
    /\ request' = [request EXCEPT !["annotation"].at = "started"]
    /\ UNCHANGED <<row, extraction, report, call, asked, disturbed, jobFaults>>

\* The callback; an error or no answer in time rolls the service back.
SendCall ==
    /\ call # NoCall /\ call.at = "send" /\ request["annotation"] = NoRequest
    /\ PutStarts("annotation", StatusChange(call.status))
    /\ UNCHANGED <<extraction, asked>>

SendCallFails ==
    /\ call # NoCall /\ call.at = "send" /\ request["annotation"] = NoRequest
    /\ "down" \in JobFaults /\ jobFaults < MaxJobFaults
    /\ jobFaults' = jobFaults + 1
    /\ AnswerTo("annotation", FALSE)
    /\ UNCHANGED <<row, request, extraction, asked, disturbed>>

CallEnds ==
    /\ call # NoCall /\ call.at \in {"done", "refused"}
    /\ IF call.for = "manager" THEN UNCHANGED request
       ELSE /\ call.at = "done"
            /\ request' = [request EXCEPT ![call.for].at = "started"]
    /\ call' = NoCall
    /\ UNCHANGED <<row, extraction, report, manual, asked, disturbed, jobFaults>>

-----------------------------------------------------------------------------
InitJobs ==
    /\ row = Absent
    /\ request = [i \in Source |-> NoRequest]
    /\ extraction = "none" /\ manual = "absent"
    /\ report = NoCall /\ call = NoCall
    /\ asked = {} /\ disturbed = {} /\ jobFaults = 0

NextJobs ==
    \/ \E i \in User :
           \/ \E k \in Jobs :
                  CreateExtraction(i, k) \/ CreateAnnotation(i, k) \/ CreateCombined(i, k)
           \/ \E c \in Changes : ChangeJob(i, c)
           \/ Run(i) \/ Delete(i)
    \/ \E i \in Source :
           \/ Executed(i) \/ Posted(i) \/ Unlinked(i) \/ Patched(i)
           \/ Started(i) \/ Linked(i) \/ CallFails(i)
           \/ Accept(i) \/ PostArrives(i) \/ StartArrives(i)
    \/ ExtractionStarts \/ ExtractionEnds \/ SendReport \/ ReportFails
    \/ ManagerStarts \/ ManualFinishes \/ StartsWithin \/ StartedWithin
    \/ SendCall \/ SendCallFails \/ CallEnds

JobsSpec == InitJobs /\ [][NextJobs]_jobsVars

-----------------------------------------------------------------------------
(* Properties *)

\* A job with a manual part is finished only when its annotation is: neither
\* the end of the automatic part, nor a request that overlaps with it, makes
\* it so (change_job), as long as the manual part was not started before its
\* time, its start succeeded and no answer to a webhook was lost.
FinishedMeansAnnotated ==
    ( /\ Present /\ IsManual(row.type) /\ row.status = "Finished"
      /\ disturbed \cap {"early", "startFailed", "lost", "converted", "twice"} = {} )
    => \/ manual = "Finished"
       \/ call # NoCall /\ call.status = "Finished"

\* A job with both parts is in the manual one only after its extraction is
\* done, whatever order requests and callbacks come in.  The callback of an
\* annotation that was started and finished early does bring it there.
ManualAfterExtraction ==
    ( /\ Present /\ row.type = "ExtractionWithAnnotationJob"
      /\ row.mode = "Manual" /\ disturbed \cap {"early", "converted", "twice"} = {} )
    => extraction = "done"

JobsQuiet ==
    /\ \A i \in Source : request[i] = NoRequest
    /\ report = NoCall /\ call = NoCall

ExtractionStatus ==
    CASE extraction = "none" -> "Draft"
      [] extraction = "accepted" -> "Pending"
      [] extraction = "running" -> "InProgress"
      [] extraction = "done" -> "Finished"
      [] extraction = "failed" -> "Failed"

SettledStatus ==
    IF row.type = "ExtractionJob" THEN {ExtractionStatus}
    ELSE IF row.type = "ExtractionWithAnnotationJob" /\ extraction # "done"
    THEN {ExtractionStatus}
    ELSE IF manual \in {"InProgress", "Finished"} THEN {manual}
    ELSE IF manual = "Pending" THEN {"Pending", "ReadyForAnnotation"}
    ELSE IF row.type = "AnnotationJob" THEN {"Draft"}
    ELSE {"ReadyForAnnotation"}

\* When nothing is under way the status is that of the last part the services
\* have reported: no callback is undone by a request that read the row before
\* it.  run_job's own Pending is the exception (overtaken).
StatusSettles ==
    Present /\ JobsQuiet /\ disturbed = {} => row.status \in SettledStatus

=============================================================================
