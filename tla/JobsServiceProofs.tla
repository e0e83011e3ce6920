-------------------------- MODULE JobsServiceProofs --------------------------
(***************************************************************************)
(* Theorems about JobsService, for any requests of users, jobs and faults. *)
(***************************************************************************)
EXTENDS JobsService, TLAPS

\* What users and their requests are: none is a service, and a request changes
\* the type of a job only to convert it.
UsersConvert ==
    /\ User \cap {"pipelines", "annotation", "manager"} = {}
    /\ \A c \in Changes : c.type \in {"none", "ExtractionWithAnnotationJob"}

-----------------------------------------------------------------------------
(* The inductive invariant *)

JobTypes == {"ExtractionJob", "AnnotationJob", "ExtractionWithAnnotationJob"}

JobRowOK(r) ==
    /\ r = [type |-> r.type, mode |-> r.mode, auto |-> r.auto, status |-> r.status]
    /\ r.type \in JobTypes /\ r.mode \in {"none", "Automatic", "Manual"}
    /\ r.type = "ExtractionJob" =>
           r.mode # "Manual" /\ r.status # "ReadyForAnnotation"
    /\ r.type = "ExtractionWithAnnotationJob" =>
           /\ r.mode = "Manual" => r.status # "Draft"
           /\ r.status = "ReadyForAnnotation" => r.mode = "Manual"

\* Where the request of a user is, and with which row: only an extraction is
\* converted, what is started has been a draft or ready for annotation.
UserRequestOK(q) ==
    /\ q.at \in {"execute", "executed", "post", "posted", "unlink", "patch", "link"}
    /\ q.at \in {"execute", "executed", "post", "posted"} => q.op \in {"create", "run"}
    /\ q.at \in {"execute", "executed"} =>
           /\ q.seen.type # "AnnotationJob"
           /\ q.op = "run" => q.seen.status = "Draft"
    /\ q.at \in {"post", "posted"} /\ q.op = "run" =>
           \/ q.seen.type = "AnnotationJob" /\ q.seen.status = "Draft"
           \/ /\ q.seen.type = "ExtractionWithAnnotationJob"
              /\ q.seen.status = "ReadyForAnnotation"
    /\ q.at \in {"unlink", "patch"} =>
           /\ q.op = "put"
           /\ q.change = [type |-> q.change.type, mode |-> "none", status |-> "none",
                          fields |-> q.change.fields]
           /\ \/ q.change.type = "none"
              \/ /\ q.change.type = "ExtractionWithAnnotationJob"
                 /\ q.seen.type = "ExtractionJob"
    /\ q.at = "patch" => q.seen.type # "ExtractionJob"

\* The callbacks of pipelines wait for the start of the manual part, those of
\* annotation for nothing.
JobRequestOK(i) ==
    LET q == request[i]
    IN  \/ q = NoRequest
        \/ /\ i # "annotation"
           /\ q = [op |-> q.op, at |-> q.at, seen |-> q.seen, change |-> q.change]
           /\ JobRowOK(q.seen)
           /\ q.op # "none"
           /\ IF i = "pipelines" THEN q.op = "put" /\ q.at \in {"start", "starting", "started"}
              ELSE UserRequestOK(q)

ReportOK ==
    \/ report = NoCall
    \/ /\ report = [status |-> report.status, tries |-> report.tries]
       /\ report.status \in {"InProgress", "Finished", "Failed"}

CallOK ==
    \/ call = NoCall
    \/ /\ call = [status |-> call.status, for |-> call.for, at |-> call.at]
       /\ call.status \in {"InProgress", "Finished"}
       /\ call.for # "manager" => call.for = "pipelines" /\ At("pipelines", "starting")
       /\ call.at \in {"send", "done", "refused"}
       /\ manual \in {"Pending", "InProgress", "Finished"}

TypesOK ==
    /\ row # Absent => JobRowOK(row)
    /\ DOMAIN request = Source /\ \A i \in Source : JobRequestOK(i)
    /\ ReportOK /\ CallOK
    /\ extraction \in {"none", "accepted", "running", "done", "failed"}
    /\ manual \in {"absent", "extraction", "Pending", "InProgress", "Finished"}

\* Nothing is there before a user asks for the job.
BeginOK ==
    /\ \A i \in User \ asked : request[i] = NoRequest
    /\ asked = {} =>
           /\ row = Absent /\ \A i \in Source : request[i] = NoRequest
           /\ extraction = "none" /\ manual = "absent"
           /\ report = NoCall /\ call = NoCall

\* What a request has read is an earlier state of the row.
Earlier(r) ==
    /\ r.type = "AnnotationJob" <=> row.type = "AnnotationJob"
    /\ r.type = "ExtractionWithAnnotationJob" =>
           /\ row.type = "ExtractionWithAnnotationJob"
           /\ r.mode = "Manual" => row.mode = "Manual"

SeenOK(i) ==
    request[i] # NoRequest =>
        /\ Present =>
               /\ Earlier(request[i].seen)
               /\ request[i].at = "execute" => row.mode # "none"
               /\ request[i].op = "create" => row.status # "Draft"
        /\ request[i].at = "executed" => extraction # "none"
        /\ request[i].at = "posted" =>
               IF IsManual(request[i].seen.type)
               THEN manual \in {"Pending", "InProgress", "Finished"}
               ELSE manual = "extraction"

SeenInv == \A i \in Source : SeenOK(i)

InManualPart ==
    \/ row.type = "AnnotationJob"
    \/ row.type = "ExtractionWithAnnotationJob" /\ row.mode = "Manual"

\* Before its manual part a job is not started in the annotation service.
PartInv ==
    Present =>
        /\ ~InManualPart =>
               /\ manual \notin {"InProgress", "Finished"} /\ call = NoCall
               /\ request["pipelines"] = NoRequest
        /\ row.type = "ExtractionJob" => manual # "Pending"
        /\ row.type = "AnnotationJob" => manual # "extraction"

ReportInv ==
    /\ report # NoCall => extraction # "none"
    /\ request["pipelines"] # NoRequest => report # NoCall
    /\ Present /\ extraction # "none" =>
           row.mode # "none" /\ row.type # "AnnotationJob"
    /\ "twice" \notin disturbed =>
           /\ report.status = "Finished" => extraction = "done"
           /\ report.status = "InProgress" => extraction = "running"
           /\ report.status = "Failed" => extraction = "failed"
           /\ Present /\ row.type = "ExtractionJob" /\ row.status = "Finished" =>
                  extraction = "done"

\* No disturbance of those that put the parts out of order.
InOrder == disturbed \cap {"startFailed", "lost", "converted", "twice"} = {}

\* Of a job that is not started early.
ManualWhenDone ==
    ( /\ Present /\ row.type = "ExtractionWithAnnotationJob"
      /\ row.mode = "Manual" /\ disturbed \cap {"converted", "twice"} = {} )
    => extraction = "done"

OrderInv ==
    /\ ManualWhenDone
    /\ InOrder /\ Present =>
           /\ row.type = "ExtractionJob" /\ row.status = "Finished" => report = NoCall
           /\ InManualPart /\ request["pipelines"] = NoRequest => report = NoCall
           /\ IsManual(row.type) /\ row.status = "Finished" => manual = "Finished"

\* Who is still to hand a created job to a service, and who to write Pending.
CreatesExtraction == \E i \in User : At(i, "execute") /\ request[i].op = "create"
RunsExtraction == \E i \in User : At(i, "executed") /\ request[i].op = "run"
CreatesManual == \E i \in User : At(i, "post") /\ request[i].op = "create"
RunsManual == \E i \in User : At(i, "posted") /\ request[i].op = "run"

\* The status of a job in each of its parts, while the services and run_job are
\* still to write theirs.
AutomaticStatus ==
    CASE extraction = "none" ->
             row.status = "Draft" \/ (row.status = "Pending" /\ CreatesExtraction)
      [] extraction = "accepted" ->
             /\ report = NoCall
             /\ row.status = "Pending" \/ (row.status = "Draft" /\ RunsExtraction)
      [] extraction = "running" -> report # NoCall \/ row.status = "InProgress"
      [] extraction = "done" ->
             report # NoCall \/ (row.type = "ExtractionJob" /\ row.status = "Finished")
      [] extraction = "failed" -> report # NoCall \/ row.status = "Failed"

ManualStatus ==
    CASE manual \in {"InProgress", "Finished"} -> row.status = manual
      [] manual = "Pending" ->
             IF row.type = "AnnotationJob"
             THEN row.status = "Pending" \/ (row.status = "Draft" /\ RunsManual)
             ELSE row.status \in {"Pending", "ReadyForAnnotation"}
      [] OTHER ->
             IF row.type = "AnnotationJob"
             THEN row.status = "Draft" \/ (row.status = "Pending" /\ CreatesManual)
             ELSE row.status = "ReadyForAnnotation"

StatusInv ==
    Present /\ disturbed = {} =>
        IF InManualPart THEN ManualStatus ELSE AutomaticStatus

JobsInv ==
    /\ TypesOK /\ BeginOK /\ SeenInv
    /\ PartInv /\ ReportInv /\ OrderInv /\ StatusInv

-----------------------------------------------------------------------------
(* What every step keeps *)

\* A row is deleted, or goes on: its parts are gone through in one direction.
RowGoesOn ==
    Present' =>
        /\ Present /\ JobRowOK(row')
        /\ row'.type = "AnnotationJob" <=> row.type = "AnnotationJob"
        /\ row.type = "ExtractionWithAnnotationJob" =>
               /\ row'.type = "ExtractionWithAnnotationJob"
               /\ row.mode = "Manual" => row'.mode = "Manual"
        /\ row.mode # "none" => row'.mode # "none"
        /\ row.status # "Draft" => row'.status # "Draft"

Working == {"Pending", "InProgress", "Finished"}

ServicesGoOn ==
    /\ ReportOK'
    /\ extraction' \in {"none", "accepted", "running", "done", "failed"}
    /\ extraction # "none" => extraction' # "none"
    /\ manual' \in {"absent", "extraction"} \cup Working
    /\ manual # "absent" =>
           manual' = manual \/ (manual \in Working /\ manual' \in Working)

\* The row and the services that stay as they were go on.
LEMMA StaysGoesOn ==
    ASSUME TypesOK
    PROVE  /\ row' = row => RowGoesOn
           /\ UNCHANGED <<report, extraction, manual>> => ServicesGoOn
<1>1. ASSUME row' = row
      PROVE  RowGoesOn
  BY <1>1 DEF RowGoesOn, TypesOK, Present
<1>2. ASSUME UNCHANGED <<report, extraction, manual>>
      PROVE  ServicesGoOn
  BY <1>2 DEF ServicesGoOn, TypesOK, ReportOK, Working
<1> QED
  BY <1>1, <1>2

\* What was read of a row that goes on is still an earlier state of it.
LEMMA EarlierKept ==
    ASSUME RowGoesOn, Present', NEW r, Earlier(r)
    PROVE  Earlier(r)'
BY DEF RowGoesOn, Earlier

\* A step that changes one request at most.
OnlyOf(i) ==
    DOMAIN request' = Source /\ \A j \in Source \ {i} : request'[j] = request[j]

\* A step that writes one request leaves the others as they were.
LEMMA OnlyOfOne ==
    ASSUME TypesOK, NEW i \in Source, NEW q, request' = [request EXCEPT ![i] = q]
    PROVE  OnlyOf(i) /\ request'[i] = q
BY DEF TypesOK, OnlyOf

\* It is enough to look at the request that a step writes.
LEMMA RequestsKept ==
    ASSUME TypesOK, SeenInv, RowGoesOn, ServicesGoOn, CallOK',
           NEW i \in Source, OnlyOf(i), JobRequestOK(i)', SeenOK(i)'
    PROVE  TypesOK' /\ SeenInv'
<1>1. DOMAIN request' = Source /\ \A j \in Source \ {i} : request'[j] = request[j]
  BY DEF OnlyOf
<1>2. ASSUME NEW j \in Source
      PROVE  JobRequestOK(j)'
  <2>1. CASE j = i
    BY <2>1
  <2>2. CASE j # i
    <3>1. request'[j] = request[j] /\ JobRequestOK(j)
      BY <1>1, <2>2 DEF TypesOK
    <3> QED
      BY <3>1 DEF JobRequestOK
  <2> QED
    BY <2>1, <2>2
<1>3. ASSUME NEW j \in Source, j # i
      PROVE  SeenOK(j)'
  <2>1. PICK p : p = request[j]
    OBVIOUS
  <2>2. request'[j] = p /\ SeenOK(j)
    BY <1>1, <1>3, <2>1 DEF SeenInv
  <2>3. CASE p = NoRequest
    BY <2>2, <2>3 DEF SeenOK
  <2>4. CASE p # NoRequest
    <3>1. Present' => /\ Earlier(p.seen)'
                      /\ p.at = "execute" => row'.mode # "none"
                      /\ p.op = "create" => row'.status # "Draft"
      <4>1. ASSUME Present'
            PROVE  Present
        BY <4>1 DEF RowGoesOn
      <4>2. Present => /\ Earlier(p.seen)
                       /\ p.at = "execute" => row.mode # "none"
                       /\ p.op = "create" => row.status # "Draft"
        BY <2>1, <2>2, <2>4 DEF SeenOK
      <4> QED
        BY <4>1, <4>2, EarlierKept DEF RowGoesOn
    <3>2. p.at = "executed" => extraction' # "none"
      BY <2>1, <2>2, <2>4 DEF SeenOK, ServicesGoOn
    <3>3. p.at = "posted" =>
              IF IsManual(p.seen.type) THEN manual' \in Working ELSE manual' = "extraction"
      BY <2>1, <2>2, <2>4 DEF SeenOK, ServicesGoOn, Working
    <3> QED
      BY <2>2, <3>1, <3>2, <3>3 DEF SeenOK, Working
  <2> QED
    BY <2>3, <2>4
<1>4. row' # Absent => JobRowOK(row')
  BY DEF RowGoesOn, Present
<1> QED
  BY <1>1, <1>2, <1>3, <1>4 DEF TypesOK, SeenInv, ServicesGoOn, Working

\* A step of the services only.
LEMMA ServicesKept ==
    ASSUME TypesOK, SeenInv, ServicesGoOn, CallOK', UNCHANGED <<row, request>>
    PROVE  TypesOK' /\ SeenInv'
<1>1. PICK i \in Source : i = "pipelines"
  BY DEF Source
<1>2. JobRequestOK(i)' /\ OnlyOf(i)
  BY DEF TypesOK, JobRequestOK, OnlyOf
<1>3. RowGoesOn
  BY StaysGoesOn
<1>4. SeenOK(i)'
  <2>1. SeenOK(i)
    BY DEF SeenInv
  <2> QED
    BY <2>1 DEF SeenOK, ServicesGoOn, Working, Earlier, Present
<1> QED
  BY <1>2, <1>3, <1>4, RequestsKept

\* Something is there only after a user has asked for it.
LEMMA WasAsked ==
    ASSUME BeginOK,
           \/ Present \/ report # NoCall \/ call # NoCall \/ extraction # "none"
           \/ manual # "absent" \/ \E i \in Source : request[i] # NoRequest
    PROVE  asked # {}
BY DEF BeginOK, Present

\* Steps of a request after its first, and of the services.
LEMMA BeginKept ==
    ASSUME BeginOK, asked # {}, asked' = asked,
           NEW i \in Source, OnlyOf(i), i \in User => request[i] # NoRequest
    PROVE  BeginOK'
<1>1. \A j \in Source \ {i} : request'[j] = request[j]
  BY DEF OnlyOf
<1>2. \A j \in User \ asked : j \in Source /\ j # i
  BY DEF BeginOK, Source
<1> QED
  BY <1>1, <1>2 DEF BeginOK

\* The first step of a request.
LEMMA BeginAsked ==
    ASSUME BeginOK, NEW i \in User, asked' = asked \cup {i},
           OnlyOf(i)
    PROVE  BeginOK'
<1>1. asked' # {}
  OBVIOUS
<1>2. \A j \in User \ asked' : request'[j] = NoRequest
  BY DEF BeginOK, OnlyOf, Source
<1> QED
  BY <1>1, <1>2 DEF BeginOK

\* A request without which the status would not be what it is.
Owes(i) ==
    \/ At(i, "execute") /\ request[i].op = "create"
    \/ At(i, "executed") /\ request[i].op = "run"
    \/ At(i, "posted") /\ request[i].op = "run"
    \/ At(i, "post") /\ request[i].op = "create" /\ manual = "absent"

\* What is owed is still owed after the step of a request that owes nothing.
LEMMA OwedKept ==
    ASSUME NEW i, ~Owes(i), OnlyOf(i)
    PROVE  /\ CreatesExtraction => CreatesExtraction'
           /\ RunsExtraction => RunsExtraction'
           /\ RunsManual => RunsManual'
           /\ manual = "absent" => (CreatesManual => CreatesManual')
<1>1. User \subseteq Source
  BY DEF Source
<1>2. CreatesExtraction => CreatesExtraction'
  BY <1>1 DEF CreatesExtraction, OnlyOf, Owes, At
<1>3. RunsExtraction => RunsExtraction'
  BY <1>1 DEF RunsExtraction, OnlyOf, Owes, At
<1>4. RunsManual => RunsManual'
  BY <1>1 DEF RunsManual, OnlyOf, Owes, At
<1>5. manual = "absent" => (CreatesManual => CreatesManual')
  BY <1>1 DEF CreatesManual, OnlyOf, Owes, At
<1> QED
  BY <1>2, <1>3, <1>4, <1>5

-----------------------------------------------------------------------------
(* Steps of the requests of users *)

\* A user is none of the services.
LEMMA UserIsNoService ==
    ASSUME UsersConvert, NEW i \in User
    PROVE  /\ i \in Source /\ i # "pipelines" /\ i # "annotation" /\ i # "manager"
           /\ OnlyOf(i) => request'["pipelines"] = request["pipelines"]
BY DEF UsersConvert, Source, OnlyOf

\* The services stay as they are in a step of the request of a user.
UserStep(i) ==
    /\ OnlyOf(i) /\ disturbed \subseteq disturbed'
    /\ UNCHANGED <<extraction, report, manual, call>>

\* The same for a step of a user's request.
LEMMA UserStepTypes ==
    ASSUME UsersConvert, JobsInv, NEW i \in User, UserStep(i),
           RowGoesOn, JobRequestOK(i)', SeenOK(i)'
    PROVE  TypesOK' /\ SeenInv'
<1>1. i \in Source /\ request'["pipelines"] = request["pipelines"]
  BY UserIsNoService DEF UserStep
<1>2. ServicesGoOn
  BY StaysGoesOn DEF JobsInv, UserStep
<1>3. CallOK'
  BY <1>1 DEF JobsInv, TypesOK, CallOK, At, UserStep
<1> QED
  BY <1>1, <1>2, <1>3, RequestsKept DEF JobsInv, UserStep

\* A step that leaves the row alone: what it owed is a disturbance.
LEMMA RequestStep ==
    ASSUME UsersConvert, JobsInv, NEW i \in User, UserStep(i), row' = row,
           JobRequestOK(i)', SeenOK(i)', BeginOK', Present /\ Owes(i) => disturbed' # {}
    PROVE  JobsInv'
<1>1. RowGoesOn
  BY StaysGoesOn DEF JobsInv
<1>2. TypesOK' /\ SeenInv'
  BY <1>1, UserStepTypes
<1>3. request'["pipelines"] = request["pipelines"] /\ (Present' <=> Present)
      /\ (InManualPart' <=> InManualPart)
  BY UserIsNoService DEF UserStep, Present, InManualPart
<1>4. PartInv'
  BY <1>3 DEF JobsInv, PartInv, UserStep
<1>5. ReportInv'
  BY <1>3 DEF JobsInv, ReportInv, UserStep
<1>6. OrderInv'
  BY <1>3 DEF JobsInv, OrderInv, ManualWhenDone, UserStep, InOrder
<1>7. StatusInv'
  <2>1. SUFFICES ASSUME Present', disturbed' = {}
                 PROVE  IF InManualPart THEN ManualStatus' ELSE AutomaticStatus'
    BY <1>3 DEF StatusInv
  <2>2. disturbed = {} /\ ~Owes(i)
    BY <1>3, <2>1 DEF UserStep
  <2>3. IF InManualPart THEN ManualStatus ELSE AutomaticStatus
    BY <1>3, <2>1, <2>2 DEF JobsInv, StatusInv
  <2>4. /\ CreatesExtraction => CreatesExtraction'
        /\ RunsExtraction => RunsExtraction'
        /\ RunsManual => RunsManual'
        /\ manual = "absent" => (CreatesManual => CreatesManual')
    BY <2>2, OwedKept DEF UserStep
  <2>5. AutomaticStatus => AutomaticStatus'
    BY <2>4 DEF AutomaticStatus, UserStep, JobsInv, TypesOK
  <2>6. Present /\ InManualPart /\ ManualStatus => ManualStatus'
    BY <2>4 DEF ManualStatus, UserStep, JobsInv, TypesOK, PartInv
  <2> QED
    BY <1>3, <2>1, <2>3, <2>5, <2>6
<1> QED
  BY <1>2, <1>4, <1>5, <1>6, <1>7 DEF JobsInv

\* A conversion puts the job in its manual part.
LEMMA ConversionStep ==
    ASSUME UsersConvert, JobsInv, NEW i \in User, UserStep(i),
           Present, row.type # "AnnotationJob",
           row' = [type |-> "ExtractionWithAnnotationJob", mode |-> "Manual",
                   auto |-> row.auto, status |-> "ReadyForAnnotation"],
           \/ row.type = "ExtractionJob" /\ row.status = "Finished"
           \/ "converted" \in disturbed',
           JobRequestOK(i)', SeenOK(i)', BeginOK'
    PROVE  JobsInv'
<1>1. PICK auto : auto = row.auto
  OBVIOUS
<1>2. /\ row'.type = "ExtractionWithAnnotationJob" /\ row'.mode = "Manual"
      /\ row'.status = "ReadyForAnnotation"
      /\ row' = [type |-> row'.type, mode |-> row'.mode, auto |-> row'.auto,
                 status |-> row'.status]
  BY <1>1
<1>3. RowGoesOn /\ Present' /\ InManualPart'
  <2>1. JobRowOK(row') /\ Present'
    BY <1>2 DEF JobRowOK, JobTypes, Present, Absent
  <2> QED
    BY <1>2, <2>1 DEF RowGoesOn, InManualPart
<1>4. TypesOK' /\ SeenInv'
  BY <1>3, UserStepTypes
<1>5. request'["pipelines"] = request["pipelines"]
  BY UserIsNoService DEF UserStep
<1>6. PartInv'
  BY <1>2, <1>3 DEF PartInv
<1>7. ReportInv'
  BY <1>2, <1>3, <1>5 DEF JobsInv, ReportInv, UserStep
<1>8. OrderInv'
  <2>1. ASSUME disturbed' \cap {"converted", "twice"} = {}
        PROVE  extraction = "done"
    BY <2>1 DEF UserStep, JobsInv, ReportInv
  <2>2. ASSUME InOrder', request["pipelines"] = NoRequest
        PROVE  report = NoCall
    BY <2>2 DEF UserStep, JobsInv, OrderInv, InOrder
  <2> QED
    BY <1>2, <1>3, <1>5, <2>1, <2>2 DEF OrderInv, ManualWhenDone, UserStep
<1>9. StatusInv'
  <2>1. SUFFICES ASSUME disturbed' = {}
                 PROVE  ManualStatus'
    BY <1>3 DEF StatusInv
  <2>2. row.type = "ExtractionJob"
    BY <2>1
  <2>3. manual' \in {"absent", "extraction"}
    BY <2>2 DEF JobsInv, TypesOK, PartInv, InManualPart, UserStep
  <2> QED
    BY <1>2, <2>3 DEF ManualStatus
<1> QED
  BY <1>4, <1>6, <1>7, <1>8, <1>9 DEF JobsInv

\* The end of run_job.
LEMMA RunEndsStep ==
    ASSUME UsersConvert, JobsInv, NEW i \in User, UserStep(i), Present,
           At(i, "executed") \/ At(i, "posted"), request[i].op = "run",
           row' = [type |-> row.type, mode |-> row.mode, auto |-> row.auto,
                   status |-> "Pending"],
           row.status # request[i].seen.status => disturbed' # {},
           request'[i] = NoRequest, asked' = asked
    PROVE  JobsInv'
<1>1. PICK type, mode, auto : type = row.type /\ mode = row.mode /\ auto = row.auto
  OBVIOUS
<1>2. /\ row'.type = row.type /\ row'.mode = row.mode /\ row'.status = "Pending"
      /\ row' = [type |-> row'.type, mode |-> row'.mode, auto |-> row'.auto,
                 status |-> row'.status]
  BY <1>1
<1>3. RowGoesOn /\ Present' /\ (InManualPart' <=> InManualPart)
  <2>1. JobRowOK(row)
    BY DEF JobsInv, TypesOK, Present
  <2>2. JobRowOK(row') /\ Present'
    BY <1>2, <2>1 DEF JobRowOK, Present, Absent, JobTypes
  <2> QED
    BY <1>2, <2>2 DEF RowGoesOn, InManualPart
<1>4. i \in Source /\ request'["pipelines"] = request["pipelines"] /\ OnlyOf(i)
  BY UserIsNoService DEF UserStep
<1>5. TypesOK' /\ SeenInv'
  <2>1. JobRequestOK(i)' /\ SeenOK(i)'
    BY DEF JobRequestOK, SeenOK
  <2> QED
    BY <1>3, <2>1, UserStepTypes
<1>6. BeginOK'
  BY <1>4, BeginKept, WasAsked DEF JobsInv, At
<1>7. PartInv'
  BY <1>2, <1>3, <1>4 DEF JobsInv, PartInv, UserStep
<1>8. ReportInv'
  BY <1>2, <1>3, <1>4 DEF JobsInv, ReportInv, UserStep
<1>9. OrderInv'
  BY <1>2, <1>3, <1>4 DEF JobsInv, OrderInv, ManualWhenDone, UserStep, InOrder
<1>10. StatusInv'
  <2>1. SUFFICES ASSUME disturbed' = {}
                 PROVE  IF InManualPart THEN ManualStatus' ELSE AutomaticStatus'
    BY <1>3 DEF StatusInv
  <2>2. disturbed = {} /\ row.status = request[i].seen.status
    BY <2>1 DEF UserStep
  <2>3. IF InManualPart THEN ManualStatus ELSE AutomaticStatus
    BY <2>2 DEF JobsInv, StatusInv
  <2>4. JobRequestOK(i) /\ SeenOK(i) /\ request[i] # NoRequest /\ JobRowOK(row)
    BY <1>4 DEF JobsInv, TypesOK, SeenInv, At, Present
  <2>5. UserRequestOK(request[i])
    BY <2>4, UserIsNoService DEF JobRequestOK
  <2>6. Earlier(request[i].seen)
    BY <2>4 DEF SeenOK
  <2>7. CASE At(i, "executed")
    <3>1. row.status = "Draft" /\ row.type # "AnnotationJob" /\ extraction # "none"
      BY <2>2, <2>4, <2>5, <2>6, <2>7 DEF UserRequestOK, At, Earlier, SeenOK
    <3>2. ~InManualPart
      BY <2>4, <3>1 DEF InManualPart, JobRowOK
    <3> QED
      BY <1>2, <2>3, <3>1, <3>2 DEF AutomaticStatus, UserStep, JobsInv, TypesOK
  <2>8. CASE At(i, "posted")
    <3>1. /\ row.type \in {"AnnotationJob", "ExtractionWithAnnotationJob"}
          /\ row.status \in {"Draft", "ReadyForAnnotation"}
          /\ InManualPart /\ manual \in Working
      BY <2>2, <2>4, <2>5, <2>6, <2>8
         DEF UserRequestOK, At, Earlier, SeenOK, JobRowOK, InManualPart, IsManual, Working
    <3> QED
      BY <1>2, <2>3, <3>1 DEF ManualStatus, UserStep, Working
  <2> QED
    BY <2>7, <2>8
<1> QED
  BY <1>5, <1>6, <1>7, <1>8, <1>9, <1>10 DEF JobsInv

\* The first step of a request that leaves it with q: it owed nothing.
LEMMA FirstStep ==
    ASSUME UsersConvert, JobsInv, NEW i, UserAsks(i), NEW q,
           request' = [request EXCEPT ![i] = q]
    PROVE  /\ i \in User /\ request[i] = NoRequest /\ OnlyOf(i) /\ request'[i] = q
           /\ ~Owes(i) /\ BeginOK'
<1>1. i \in User /\ i \in Source /\ request[i] = NoRequest
  BY UserIsNoService DEF UserAsks, JobsInv, BeginOK
<1>2. OnlyOf(i) /\ request'[i] = q
  BY <1>1, OnlyOfOne DEF JobsInv
<1>3. BeginOK'
  BY <1>1, <1>2, BeginAsked DEF JobsInv, TypesOK, UserAsks
<1>4. ~Owes(i)
  BY <1>1 DEF Owes, At
<1> QED
  BY <1>1, <1>2, <1>3, <1>4

\* The fields of a request that is begun.
LEMMA RequestFields ==
    ASSUME NEW op, NEW at, NEW seen, NEW change, NEW q,
           q = Request(op, at, seen, change)
    PROVE  /\ q = [op |-> q.op, at |-> q.at, seen |-> q.seen, change |-> q.change]
           /\ q.op = op /\ q.at = at /\ q.seen = seen /\ q.change = change
BY DEF Request

\* A job is run: its row gets a mode, its status does not change.
LEMMA RunStep ==
    ASSUME UsersConvert, JobsInv, NEW i, Run(i)
    PROVE  JobsInv'
<1>1. JobRowOK(row) /\ Present /\ MayRun(row) /\ UserAsks(i) /\ UNCHANGED extraction
  BY DEF Run, JobsInv, TypesOK, Present
<1>2. PICK at, mode :
          /\ row' = [type |-> row.type, mode |-> mode, auto |-> row.auto,
                     status |-> row.status]
          /\ request' = [request EXCEPT ![i] = Request("run", at, row', NoChange)]
          /\ UNCHANGED <<report, manual, call>> /\ disturbed' = disturbed
          /\ \/ /\ at = "execute" /\ mode = "Automatic"
                /\ row.type # "AnnotationJob" /\ row.status = "Draft"
             \/ /\ at = "post" /\ mode = "Manual"
                /\ row.type = "AnnotationJob" /\ row.status = "Draft"
             \/ /\ at = "post" /\ mode = row.mode
                /\ row.type = "ExtractionWithAnnotationJob"
                /\ row.status = "ReadyForAnnotation"
  <2>1. PICK type, m, auto, status :
            row = [type |-> type, mode |-> m, auto |-> auto, status |-> status]
    BY <1>1 DEF JobRowOK
  <2>2. CASE RunExtraction(i, "run", row) /\
             ( \/ row.type = "ExtractionJob"
               \/ row.type = "ExtractionWithAnnotationJob" /\ row.status = "Draft" )
    <3>1. row.status = "Draft" /\ row.type # "AnnotationJob"
      BY <1>1, <2>2 DEF MayRun
    <3>2. row' = [type |-> type, mode |-> "Automatic", auto |-> auto, status |-> status]
      BY <2>1, <2>2 DEF RunExtraction, WithMode
    <3> QED
      BY <2>1, <2>2, <3>1, <3>2 DEF RunExtraction, Proceeds, Moves
  <2>3. CASE RunAnnotation(i, "run", row, "Manual") /\
             ~( \/ row.type = "ExtractionJob"
                \/ row.type = "ExtractionWithAnnotationJob" /\ row.status = "Draft" )
    <3>1. \/ row.type = "AnnotationJob" /\ row.status = "Draft"
          \/ row.type = "ExtractionWithAnnotationJob" /\ row.status = "ReadyForAnnotation"
      BY <1>1, <2>3 DEF MayRun, JobRowOK, JobTypes
    <3>2. IF row.type = "ExtractionWithAnnotationJob" THEN row' = row
          ELSE row' = [type |-> type, mode |-> "Manual", auto |-> auto, status |-> status]
      BY <2>1, <2>3 DEF RunAnnotation, WithMode
    <3> QED
      BY <2>1, <2>3, <3>1, <3>2 DEF RunAnnotation, Proceeds, Moves
  <2> QED
    BY <2>2, <2>3 DEF Run
<1>3. PICK type, auto, status : type = row.type /\ auto = row.auto /\ status = row.status
  OBVIOUS
<1>4. /\ row'.type = row.type /\ row'.mode = mode /\ row'.status = row.status
      /\ row' = [type |-> row'.type, mode |-> row'.mode, auto |-> row'.auto,
                 status |-> row'.status]
  BY <1>2, <1>3
<1>5. PICK q : q = Request("run", at, row', NoChange)
  OBVIOUS
<1>6. /\ i \in User /\ OnlyOf(i) /\ request'[i] = q /\ ~Owes(i) /\ BeginOK'
      /\ i \in Source /\ i # "pipelines" /\ i # "annotation"
      /\ request'["pipelines"] = request["pipelines"]
  <2>1. request' = [request EXCEPT ![i] = q]
    BY <1>2, <1>5
  <2> QED
    BY <1>1, <2>1, FirstStep, UserIsNoService
<1>7. UserStep(i)
  BY <1>1, <1>2, <1>6 DEF UserStep
<1>8. RowGoesOn /\ Present' /\ (InManualPart' <=> InManualPart)
  <2>1. JobRowOK(row') /\ Present'
    BY <1>1, <1>2, <1>4 DEF JobRowOK, Present, Absent, JobTypes
  <2> QED
    BY <1>1, <1>2, <1>4, <2>1 DEF RowGoesOn, InManualPart, JobRowOK
<1>9. TypesOK' /\ SeenInv'
  <2>1. /\ q = [op |-> q.op, at |-> q.at, seen |-> q.seen, change |-> q.change]
        /\ q.op = "run" /\ q.at = at /\ q.seen = row'
    BY <1>5, RequestFields
  <2>2. UserRequestOK(q)
    BY <1>2, <1>4, <2>1 DEF UserRequestOK
  <2>3. JobRequestOK(i)'
    BY <1>6, <1>8, <2>1, <2>2 DEF JobRequestOK, RowGoesOn
  <2>4. SeenOK(i)'
    BY <1>2, <1>4, <1>6, <2>1 DEF SeenOK, Earlier
  <2> QED
    BY <1>6, <1>7, <1>8, <2>3, <2>4, UserStepTypes
<1>10. PartInv'
  BY <1>1, <1>4, <1>6, <1>7, <1>8 DEF JobsInv, PartInv, UserStep
<1>11. ReportInv'
  BY <1>1, <1>2, <1>4, <1>6, <1>7 DEF JobsInv, ReportInv, UserStep
<1>12. OrderInv'
  <2>1. row'.type = "ExtractionWithAnnotationJob" /\ row'.mode = "Manual" =>
            row.type = "ExtractionWithAnnotationJob" /\ row.mode = "Manual"
    BY <1>2, <1>4
  <2> QED
    BY <1>1, <1>2, <1>4, <1>6, <1>7, <1>8, <2>1
       DEF JobsInv, OrderInv, ManualWhenDone, UserStep, InOrder
<1>13. StatusInv'
  <2>1. SUFFICES ASSUME disturbed = {}
                 PROVE  IF InManualPart THEN ManualStatus' ELSE AutomaticStatus'
    BY <1>2, <1>8 DEF StatusInv
  <2>2. IF InManualPart THEN ManualStatus ELSE AutomaticStatus
    BY <1>1, <2>1 DEF JobsInv, StatusInv
  <2>3. /\ CreatesExtraction => CreatesExtraction'
        /\ RunsExtraction => RunsExtraction'
        /\ RunsManual => RunsManual'
        /\ manual = "absent" => (CreatesManual => CreatesManual')
    BY <1>6, OwedKept
  <2>4. AutomaticStatus => AutomaticStatus'
    BY <1>4, <1>7, <2>3 DEF AutomaticStatus, UserStep, JobsInv, TypesOK
  <2>5. InManualPart /\ ManualStatus => ManualStatus'
    BY <1>1, <1>4, <1>7, <2>3 DEF ManualStatus, UserStep, JobsInv, TypesOK, PartInv
  <2> QED
    BY <2>2, <2>4, <2>5
<1> QED
  BY <1>6, <1>9, <1>10, <1>11, <1>12, <1>13 DEF JobsInv

\* A job is created: nothing has been done for it.
LEMMA CreateStep ==
    ASSUME UsersConvert, JobsInv, NEW i, NEW k,
           CreateExtraction(i, k) \/ CreateAnnotation(i, k) \/ CreateCombined(i, k)
    PROVE  JobsInv'
<1>1. /\ UserAsks(i) /\ asked = {} /\ UNCHANGED extraction
      /\ k.type \in JobTypes
  BY DEF CreateExtraction, CreateAnnotation, CreateCombined, Created, JobTypes
<1>2. PICK q, mode, status :
          /\ row' = [type |-> k.type, mode |-> mode, auto |-> k.auto, status |-> status]
          /\ request' = [request EXCEPT ![i] = q] \/ (q = NoRequest /\ request' = request)
          /\ UNCHANGED <<report, manual, call>> /\ disturbed' = disturbed
          /\ \/ q = NoRequest /\ mode = "none" /\ status = "Draft"
             \/ /\ q = Request("create", "execute", row', NoChange)
                /\ mode = "Automatic" /\ status = "Pending" /\ k.type # "AnnotationJob"
             \/ /\ q = Request("create", "post", row', NoChange)
                /\ mode = "Manual" /\ status = "Pending" /\ k.type = "AnnotationJob"
  <2>1. PICK type, auto : type = k.type /\ auto = k.auto
    OBVIOUS
  <2>2. CASE Draft(k)
    <3>1. row' = [type |-> type, mode |-> "none", auto |-> auto, status |-> "Draft"]
      BY <2>1, <2>2 DEF Draft, CreatedRow
    <3> QED
      BY <2>1, <2>2, <3>1 DEF Draft
  <2>3. CASE ~k.draft /\ RunExtraction(i, "create", CreatedRow(k))
             /\ k.type # "AnnotationJob"
    <3>1. CreatedRow(k) = [type |-> type, mode |-> "none", auto |-> auto,
                           status |-> "Pending"]
      BY <2>1, <2>3 DEF CreatedRow
    <3>2. row' = [type |-> type, mode |-> "Automatic", auto |-> auto,
                  status |-> "Pending"]
      BY <2>3, <3>1 DEF RunExtraction, WithMode
    <3> QED
      BY <2>1, <2>3, <3>2 DEF RunExtraction, Proceeds, Moves
  <2>4. CASE ~k.draft /\ RunAnnotation(i, "create", CreatedRow(k), "Manual")
             /\ k.type = "AnnotationJob"
    <3>1. CreatedRow(k) = [type |-> type, mode |-> "none", auto |-> auto,
                           status |-> "Pending"]
      BY <2>1, <2>4 DEF CreatedRow
    <3>2. row' = [type |-> type, mode |-> "Manual", auto |-> auto, status |-> "Pending"]
      BY <2>1, <2>4, <3>1 DEF RunAnnotation, WithMode
    <3> QED
      BY <2>1, <2>4, <3>2 DEF RunAnnotation, Proceeds, Moves
  <2> QED
    BY <2>2, <2>3, <2>4 DEF CreateExtraction, CreateAnnotation, CreateCombined
<1>3. PICK type, auto : type = k.type /\ auto = k.auto
  OBVIOUS
<1>4. /\ row'.type = type /\ row'.mode = mode /\ row'.status = status
      /\ row' = [type |-> row'.type, mode |-> row'.mode, auto |-> row'.auto,
                 status |-> row'.status]
  BY <1>2, <1>3
<1>5. /\ i \in User /\ i \in Source /\ i # "pipelines" /\ i # "annotation"
      /\ DOMAIN request = Source /\ request[i] = NoRequest
      /\ \A j \in Source : request[j] = NoRequest
      /\ row = Absent /\ extraction = "none" /\ manual = "absent"
      /\ report = NoCall /\ call = NoCall
  BY <1>1, UserIsNoService DEF JobsInv, TypesOK, BeginOK, UserAsks
<1>6. OnlyOf(i) /\ request'[i] = q
  BY <1>2, <1>5 DEF OnlyOf
<1>7. /\ request'["pipelines"] = NoRequest
      /\ \A j \in Source \ {i} : request'[j] = NoRequest
  BY <1>5, <1>6 DEF OnlyOf, Source
<1>8. BeginOK'
  BY <1>1, <1>5, <1>6, BeginAsked DEF JobsInv, UserAsks
<1>9. JobRowOK(row') /\ Present'
  BY <1>1, <1>2, <1>3, <1>4 DEF JobRowOK, JobTypes, Present, Absent
<1>10. JobRequestOK(i)' /\ SeenOK(i)'
  <2>1. CASE q = NoRequest
    BY <1>6, <2>1 DEF JobRequestOK, SeenOK
  <2>2. CASE q # NoRequest
    <3>1. /\ q = [op |-> q.op, at |-> q.at, seen |-> q.seen, change |-> q.change]
          /\ q.op = "create" /\ q.at \in {"execute", "post"} /\ q.seen = row'
          /\ q.at = "execute" => k.type # "AnnotationJob"
      BY <1>2, <2>2, RequestFields
    <3>2. UserRequestOK(q)
      BY <1>3, <1>4, <3>1 DEF UserRequestOK
    <3>3. JobRequestOK(i)'
      BY <1>5, <1>6, <1>9, <3>1, <3>2 DEF JobRequestOK
    <3> QED
      BY <1>2, <1>4, <1>6, <2>2, <3>1, <3>3 DEF SeenOK, Earlier
  <2> QED
    BY <2>1, <2>2
<1>11. TypesOK' /\ SeenInv'
  <2>1. \A j \in Source : JobRequestOK(j)' /\ SeenOK(j)'
    <3>1. \A j \in Source \ {i} : JobRequestOK(j)' /\ SeenOK(j)'
      BY <1>7 DEF JobRequestOK, SeenOK
    <3> QED
      BY <1>10, <3>1
  <2>2. ReportOK' /\ CallOK'
    BY <1>2, <1>5 DEF ReportOK, CallOK
  <2> QED
    BY <1>1, <1>2, <1>5, <1>6, <1>9, <2>1, <2>2 DEF TypesOK, SeenInv, OnlyOf
<1>12. PartInv'
  BY <1>2, <1>5, <1>7 DEF PartInv
<1>13. ReportInv'
  <2>1. report'.status = "none" /\ report' = NoCall /\ extraction' = "none"
    BY <1>1, <1>2, <1>5 DEF NoCall
  <2> QED
    BY <1>2, <1>4, <1>7, <2>1 DEF ReportInv
<1>14. OrderInv'
  BY <1>2, <1>3, <1>4, <1>5 DEF OrderInv, ManualWhenDone
<1>15. StatusInv'
  <2>1. CASE q = NoRequest
    <3>1. row'.mode = "none" /\ row'.status = "Draft"
      <4>1. \A at : q # Request("create", at, row', NoChange)
        BY <2>1 DEF Request, NoRequest
      <4> QED
        BY <1>2, <1>4, <4>1
    <3>2. manual' = "absent" /\ extraction' = "none"
      BY <1>1, <1>2, <1>5
    <3> QED
      BY <3>1, <3>2 DEF StatusInv, InManualPart, ManualStatus, AutomaticStatus
  <2>2. CASE q = Request("create", "execute", row', NoChange) /\ q # NoRequest
    <3>1. CreatesExtraction'
      BY <1>5, <1>6, <2>2, RequestFields DEF CreatesExtraction, At
    <3> QED
      BY <1>1, <1>2, <1>3, <1>4, <1>5, <2>2, <3>1, RequestFields
         DEF StatusInv, InManualPart, AutomaticStatus
  <2>3. CASE q = Request("create", "post", row', NoChange) /\ q # NoRequest
    <3>1. CreatesManual' /\ q.at = "post"
      BY <1>5, <1>6, <2>3, RequestFields DEF CreatesManual, At
    <3>2. row'.type = "AnnotationJob" /\ row'.status = "Pending" /\ manual' = "absent"
      BY <1>2, <1>3, <1>4, <1>5, <2>3, <3>1, RequestFields
    <3> QED
      BY <3>1, <3>2 DEF StatusInv, InManualPart, ManualStatus
  <2> QED
    BY <1>2, <2>1, <2>2, <2>3
<1> QED
  BY <1>8, <1>11, <1>12, <1>13, <1>14, <1>15 DEF JobsInv

\* A job is deleted: its row is gone.
LEMMA DeleteStep ==
    ASSUME UsersConvert, JobsInv, NEW i, Delete(i)
    PROVE  JobsInv'
<1>1. PICK q : q = Request("delete", "link", row, NoChange)
  OBVIOUS
<1>2. /\ UserAsks(i) /\ row' = Absent /\ request' = [request EXCEPT ![i] = q]
      /\ UNCHANGED <<extraction, report, manual, call>> /\ disturbed' = disturbed
      /\ JobRowOK(row) /\ ~Present'
  BY <1>1 DEF Delete, Proceeds, Moves, JobsInv, TypesOK, Present
<1>3. /\ i \in User /\ OnlyOf(i) /\ request'[i] = q /\ BeginOK'
      /\ request'["pipelines"] = request["pipelines"]
      /\ i # "pipelines" /\ i # "annotation"
  BY <1>2, FirstStep, UserIsNoService
<1>4. /\ q = [op |-> q.op, at |-> q.at, seen |-> q.seen, change |-> q.change]
      /\ q.op = "delete" /\ q.at = "link" /\ q.seen = row
  BY <1>1, RequestFields
<1>5. UserRequestOK(q)
  BY <1>4 DEF UserRequestOK
<1>6. JobRequestOK(i)'
  BY <1>2, <1>3, <1>4, <1>5 DEF JobRequestOK
<1>7. SeenOK(i)' /\ RowGoesOn
  BY <1>2, <1>3, <1>4 DEF SeenOK, RowGoesOn
<1>8. TypesOK' /\ SeenInv'
  BY <1>2, <1>3, <1>6, <1>7, UserStepTypes DEF UserStep
<1>9. PartInv' /\ OrderInv' /\ StatusInv'
  BY <1>2 DEF PartInv, OrderInv, StatusInv, ManualWhenDone
<1>10. ReportInv'
  BY <1>2, <1>3 DEF JobsInv, ReportInv
<1> QED
  BY <1>3, <1>8, <1>9, <1>10 DEF JobsInv

-----------------------------------------------------------------------------
(* PUT by users *)

\* What a user changes, of a job seen as that.
UserChange(seen, ch) ==
    /\ JobRowOK(seen)
    /\ Present => Earlier(seen)
    /\ ch = [type |-> ch.type, mode |-> "none", status |-> "none", fields |-> ch.fields]
    /\ \/ ch.type = "none"
       \/ ch.type = "ExtractionWithAnnotationJob" /\ seen.type = "ExtractionJob"

\* The end of a user's request, and its wait for the answer of a service.
LEMMA UserEnds ==
    ASSUME UsersConvert, TypesOK, NEW i \in User, NEW ok, NEW d, Ends(i, ok, d),
           UNCHANGED extraction
    PROVE  UserStep(i) /\ request'[i] = NoRequest /\ d \subseteq disturbed'
<1>1. i \in Source /\ i # "pipelines" /\ i # "annotation"
  BY UserIsNoService
<1>2. request' = [request EXCEPT ![i] = NoRequest] /\ UNCHANGED <<report, manual, call>>
  BY <1>1 DEF Ends, AnswerTo
<1>3. disturbed \subseteq disturbed' /\ d \subseteq disturbed'
  BY DEF Ends
<1> QED
  BY <1>1, <1>2, <1>3, OnlyOfOne DEF UserStep

\* A request of a user that goes on writes nothing but itself and the history.
LEMMA UserMoves ==
    ASSUME UsersConvert, TypesOK, NEW i \in User, NEW q, NEW d, Moves(i, q, d),
           UNCHANGED extraction
    PROVE  UserStep(i) /\ request'[i] = q /\ d \subseteq disturbed'
<1>1. i \in Source
  BY UserIsNoService
<1>2. request' = [request EXCEPT ![i] = q] /\ UNCHANGED <<report, manual, call>>
      /\ disturbed \subseteq disturbed' /\ d \subseteq disturbed'
  BY DEF Moves
<1> QED
  BY <1>1, <1>2, OnlyOfOne DEF UserStep

\* A request that is over, or that waits as a put of what a user changes.
LEMMA PutRequestOK ==
    ASSUME UsersConvert, NEW i \in User, NEW seen, NEW ch, UserChange(seen, ch),
           NEW at \in {"unlink", "patch", "link"}, at = "patch" => seen.type # "ExtractionJob",
           Present' => Earlier(seen)',
           request'[i] = NoRequest \/ request'[i] = Request("put", at, seen, ch)
    PROVE  JobRequestOK(i)' /\ SeenOK(i)'
<1>1. PICK q : q = request'[i]
  OBVIOUS
<1>2. CASE q = NoRequest
  BY <1>1, <1>2 DEF JobRequestOK, SeenOK
<1>3. CASE q # NoRequest
  <2>1. /\ q = [op |-> q.op, at |-> q.at, seen |-> q.seen, change |-> q.change]
        /\ q.op = "put" /\ q.at = at /\ q.seen = seen /\ q.change = ch
    BY <1>1, <1>3, RequestFields
  <2>2. UserRequestOK(q)
    BY <2>1 DEF UserRequestOK, UserChange
  <2>3. JobRequestOK(i)'
    BY <1>1, <2>1, <2>2, UserIsNoService DEF JobRequestOK, UserChange
  <2> QED
    BY <1>1, <2>1, <2>3 DEF SeenOK
<1> QED
  BY <1>2, <1>3

\* What the last part of a user's put writes: nothing, or a conversion.
LEMMA PutWritten ==
    ASSUME JobsInv, NEW i, NEW seen, NEW ch, UserChange(seen, ch), Present,
           PutWrites(i, seen, ch)
    PROVE  /\ \/ /\ row' = row
              \/ /\ row' = [type |-> "ExtractionWithAnnotationJob", mode |-> "Manual",
                            auto |-> row.auto, status |-> "ReadyForAnnotation"]
                 /\ row.type # "AnnotationJob"
                 /\ \/ row.type = "ExtractionJob" /\ row.status = "Finished"
                    \/ Moves(i, Request("put", "link", seen, ch), {"converted"})
                    \/ Ends(i, TRUE, {"converted"})
           /\ \/ Moves(i, Request("put", "link", seen, ch), {})
              \/ Moves(i, Request("put", "link", seen, ch), {"converted"})
              \/ Ends(i, TRUE, {}) \/ Ends(i, TRUE, {"converted"})
<1>1. PICK ctype, fields : ch = [type |-> ctype, mode |-> "none", status |-> "none",
                                 fields |-> fields]
  BY DEF UserChange
<1>2. PICK type, mode, auto, status :
          row = [type |-> type, mode |-> mode, auto |-> auto, status |-> status]
  BY DEF JobsInv, TypesOK, JobRowOK, Present
<1>3. ch.type = ctype /\ ch.mode = "none" /\ ch.status = "none" /\ ch.fields = fields
  BY <1>1
<1>4. ~FinishesAutomaticPart(seen, ch)
  BY <1>3 DEF FinishesAutomaticPart
<1>5. row' = WriteRow(seen, Effective(seen, ch))
      /\ \/ Moves(i, Request("put", "link", seen, ch),
                  IF ConvertsLate(seen, ch) THEN {"converted"} ELSE {})
         \/ Ends(i, TRUE, IF ConvertsLate(seen, ch) THEN {"converted"} ELSE {})
  BY <1>4 DEF PutWrites
<1>6. CASE ctype = "none"
  <2>1. Effective(seen, ch) = ch /\ ~ConvertsLate(seen, ch)
    BY <1>3, <1>4, <1>6 DEF Effective, Converts, ConvertsLate
  <2>2. WriteRow(seen, ch) = row
    BY <1>2, <1>3, <1>6 DEF WriteRow
  <2> QED
    BY <1>5, <2>1, <2>2
<1>7. CASE ctype # "none"
  <2>1. ctype = "ExtractionWithAnnotationJob" /\ seen.type = "ExtractionJob"
        /\ seen.mode # "Manual" /\ seen.status # "ReadyForAnnotation"
        /\ row.type # "AnnotationJob"
    BY <1>3, <1>7 DEF UserChange, JobRowOK, Earlier
  <2>2. Effective(seen, ch) = [type |-> ctype, mode |-> "Manual",
                               status |-> "ReadyForAnnotation", fields |-> fields]
    BY <1>1, <1>3, <2>1 DEF Effective, Converts
  <2>3. WriteRow(seen, Effective(seen, ch)) =
            [type |-> ctype, mode |-> "Manual", auto |-> auto,
             status |-> "ReadyForAnnotation"]
    <3>1. PICK e : e = Effective(seen, ch)
      OBVIOUS
    <3>2. e.type = ctype /\ e.mode = "Manual" /\ e.status = "ReadyForAnnotation"
      BY <2>2, <3>1
    <3>3. /\ e.type \notin {"none", seen.type} /\ e.mode \notin {"none", seen.mode}
          /\ e.status \notin {"none", seen.status}
      BY <2>1, <3>2
    <3>4. WriteRow(seen, e) = [row EXCEPT !.type = e.type, !.mode = e.mode,
                                         !.status = e.status]
      BY <3>3 DEF WriteRow
    <3> QED
      BY <1>2, <3>1, <3>2, <3>4
  <2>4. ConvertsLate(seen, ch) \/ (row.type = "ExtractionJob" /\ row.status = "Finished")
    BY <1>3, <2>1 DEF ConvertsLate, Converts
  <2>5. ~ConvertsLate(seen, ch) =>
            Moves(i, Request("put", "link", seen, ch), {}) \/ Ends(i, TRUE, {})
    BY <1>5
  <2>6. ConvertsLate(seen, ch) =>
            \/ Moves(i, Request("put", "link", seen, ch), {"converted"})
            \/ Ends(i, TRUE, {"converted"})
    BY <1>5
  <2>7. auto = row.auto
    BY <1>2
  <2>8. row' = [type |-> "ExtractionWithAnnotationJob", mode |-> "Manual",
                auto |-> row.auto, status |-> "ReadyForAnnotation"]
    BY <1>5, <2>1, <2>3, <2>7
  <2> QED
    BY <2>1, <2>4, <2>5, <2>6, <2>8
<1> QED
  BY <1>6, <1>7

\* The last part of a user's put.
LEMMA PutWritesStep ==
    ASSUME UsersConvert, JobsInv, NEW i \in User, NEW seen, NEW ch,
           UserChange(seen, ch), PutWrites(i, seen, ch), UNCHANGED extraction,
           ~Owes(i), OnlyOf(i) => BeginOK'
    PROVE  JobsInv'
<1>1. CASE ~Present
  <2>1. row' = row /\ Ends(i, FALSE, {})
    BY <1>1 DEF PutWrites
  <2>2. UserStep(i) /\ request'[i] = NoRequest
    BY <2>1, UserEnds DEF JobsInv
  <2>3. JobRequestOK(i)' /\ SeenOK(i)'
    BY <2>2 DEF JobRequestOK, SeenOK
  <2> QED
    BY <2>1, <2>2, <2>3, RequestStep DEF UserStep
<1>2. CASE Present
  <2>1. /\ UserStep(i)
        /\ request'[i] = NoRequest \/ request'[i] = Request("put", "link", seen, ch)
        /\ \/ row' = row
           \/ /\ row' = [type |-> "ExtractionWithAnnotationJob", mode |-> "Manual",
                         auto |-> row.auto, status |-> "ReadyForAnnotation"]
              /\ row.type # "AnnotationJob"
              /\ \/ row.type = "ExtractionJob" /\ row.status = "Finished"
                 \/ "converted" \in disturbed'
    <3>1. ASSUME NEW d, Moves(i, Request("put", "link", seen, ch), d)
          PROVE  UserStep(i) /\ request'[i] = Request("put", "link", seen, ch)
                 /\ d \subseteq disturbed'
      BY <3>1, UserMoves DEF JobsInv
    <3>2. ASSUME NEW d, Ends(i, TRUE, d)
          PROVE  UserStep(i) /\ request'[i] = NoRequest /\ d \subseteq disturbed'
      BY <3>2, UserEnds DEF JobsInv
    <3> QED
      BY <1>2, <3>1, <3>2, PutWritten
  <2>2. Present' => Earlier(seen)'
    <3>1. Earlier(seen) /\ JobRowOK(seen)
      BY <1>2 DEF UserChange
    <3>2. CASE row' = row
      BY <3>1, <3>2 DEF Earlier
    <3>3. CASE row'.type = "ExtractionWithAnnotationJob" /\ row'.mode = "Manual"
               /\ row.type # "AnnotationJob"
      BY <3>1, <3>3 DEF Earlier
    <3>4. ASSUME row' = [type |-> "ExtractionWithAnnotationJob", mode |-> "Manual",
                         auto |-> row.auto, status |-> "ReadyForAnnotation"]
          PROVE  row'.type = "ExtractionWithAnnotationJob" /\ row'.mode = "Manual"
      BY <3>4
    <3> QED
      BY <2>1, <3>2, <3>3, <3>4
  <2>3. JobRequestOK(i)' /\ SeenOK(i)'
    BY <2>1, <2>2, PutRequestOK
  <2> QED
    BY <1>2, <2>1, <2>3, RequestStep, ConversionStep DEF UserStep
<1> QED
  BY <1>1, <1>2

\* The part before.
LEMMA PutTellsStep ==
    ASSUME UsersConvert, JobsInv, NEW i \in User, NEW seen, NEW ch,
           UserChange(seen, ch), PutTells(i, seen, ch), UNCHANGED extraction,
           ~Owes(i), OnlyOf(i) => BeginOK'
    PROVE  JobsInv'
<1>1. CASE PutWrites(i, seen, ch)
  BY <1>1, PutWritesStep
<1>2. CASE IsManual(seen.type) /\ Proceeds(i, Request("put", "patch", seen, ch)) /\ row' = row
  <2>1. UserStep(i) /\ request'[i] = Request("put", "patch", seen, ch)
    BY <1>2, UserMoves DEF JobsInv, Proceeds
  <2>2. Present' => Earlier(seen)'
    BY <1>2 DEF UserChange, Earlier, Present
  <2>3. seen.type # "ExtractionJob"
    BY <1>2 DEF IsManual
  <2>4. JobRequestOK(i)' /\ SeenOK(i)'
    BY <2>1, <2>2, <2>3, PutRequestOK
  <2> QED
    BY <1>2, <2>1, <2>4, RequestStep DEF UserStep
<1> QED
  BY <1>1, <1>2 DEF PutTells

\* A change is begun: it is refused, waits for the taxonomy or the annotation
\* service, or writes the row at once.
LEMMA PutStep ==
    ASSUME UsersConvert, JobsInv, NEW i, NEW c \in Changes, ChangeJob(i, c)
    PROVE  JobsInv'
<1>1. /\ i \in User /\ i \in Source /\ UserAsks(i) /\ Present /\ JobRowOK(row)
      /\ UNCHANGED extraction /\ c.type \in {"none", "ExtractionWithAnnotationJob"}
  BY UserIsNoService DEF ChangeJob, UserAsks, UsersConvert, JobsInv, TypesOK, Present
<1>2. PICK ch : ch = [NoChange EXCEPT !.type = c.type, !.fields = c.fields]
  OBVIOUS
<1>3. /\ ch = [type |-> ch.type, mode |-> "none", status |-> "none", fields |-> ch.fields]
      /\ ch.type = c.type
  BY <1>2 DEF NoChange
<1>4. PutStarts(i, ch)
  BY <1>2 DEF ChangeJob
<1>5. ~Owes(i) /\ (OnlyOf(i) => BeginOK')
  BY <1>1, BeginAsked DEF JobsInv, BeginOK, Owes, At, TypesOK, UserAsks
<1>6. CASE ~PutAllowed(row, ch)
  <2>1. row' = row /\ Ends(i, FALSE, {})
    BY <1>4, <1>6 DEF PutStarts
  <2>2. UserStep(i) /\ request'[i] = NoRequest
    BY <1>1, <2>1, UserEnds DEF JobsInv
  <2>3. JobRequestOK(i)' /\ SeenOK(i)'
    BY <2>2 DEF JobRequestOK, SeenOK
  <2> QED
    BY <1>1, <1>5, <2>1, <2>2, <2>3, RequestStep DEF UserStep
<1>7. CASE PutAllowed(row, ch)
  <2>1. PICK seen : seen = row
    OBVIOUS
  <2>2. UserChange(seen, ch)
    BY <1>1, <1>3, <1>7, <2>1 DEF UserChange, PutAllowed, Earlier
  <2>3. CASE Proceeds(i, Request("put", "unlink", seen, ch)) /\ row' = row
    <3>1. UserStep(i) /\ request'[i] = Request("put", "unlink", seen, ch)
      BY <1>1, <2>3, UserMoves DEF JobsInv, Proceeds
    <3>2. Present' => Earlier(seen)'
      BY <2>1, <2>3 DEF Earlier
    <3>3. JobRequestOK(i)' /\ SeenOK(i)'
      BY <1>1, <2>2, <3>1, <3>2, PutRequestOK
    <3> QED
      BY <1>1, <1>5, <2>3, <3>1, <3>3, RequestStep DEF UserStep
  <2>4. CASE PutTells(i, seen, ch)
    BY <1>1, <1>5, <2>2, <2>4, PutTellsStep
  <2> QED
    BY <1>1, <1>4, <1>7, <2>1, <2>3, <2>4 DEF PutStarts
<1> QED
  BY <1>6, <1>7

\* Whose request it is that waits there.
LEMMA WaitsOfUsers ==
    ASSUME JobsInv, NEW i \in Source, request[i] # NoRequest,
           request[i].at \notin {"start", "starting", "started"}
    PROVE  i \in User /\ UserRequestOK(request[i]) /\ JobRowOK(request[i].seen)
           /\ asked # {} /\ SeenOK(i)
<1>1. JobRequestOK(i) /\ SeenOK(i)
  BY DEF JobsInv, TypesOK, SeenInv
<1>2. asked # {}
  BY WasAsked DEF JobsInv
<1> QED
  BY <1>1, <1>2 DEF JobRequestOK, Source

\* A put that goes on after the links have been removed, and after annotation
\* has answered.
LEMMA PutGoesOnStep ==
    ASSUME UsersConvert, JobsInv, NEW i \in Source, Unlinked(i) \/ Patched(i)
    PROVE  JobsInv'
<1>1. PICK seen, ch : seen = request[i].seen /\ ch = request[i].change
  OBVIOUS
<1>2. /\ At(i, "unlink") \/ At(i, "patch")
      /\ PutTells(i, seen, ch) \/ PutWrites(i, seen, ch)
      /\ UNCHANGED <<extraction, asked>>
  BY <1>1 DEF Unlinked, Patched
<1>3. /\ i \in User /\ asked # {} /\ UserRequestOK(request[i]) /\ JobRowOK(seen) /\ SeenOK(i)
      /\ request[i] # NoRequest
  BY <1>1, <1>2, WaitsOfUsers DEF At
<1>4. UserChange(seen, ch)
  BY <1>1, <1>2, <1>3 DEF UserChange, UserRequestOK, SeenOK, At
<1>5. ~Owes(i)
  BY <1>2, <1>3 DEF Owes, At, UserRequestOK
<1>6. OnlyOf(i) => BeginOK'
  BY <1>2, <1>3, BeginKept DEF JobsInv
<1> QED
  BY <1>2, <1>3, <1>4, <1>5, <1>6, PutTellsStep, PutWritesStep

-----------------------------------------------------------------------------
(* Answers to the requests of users *)

\* A request that ends and owed nothing, or is a disturbance now.
LEMMA EndStep ==
    ASSUME UsersConvert, JobsInv, NEW i \in User, UserStep(i), request[i] # NoRequest,
           row' = row, asked' = asked, request'[i] = NoRequest,
           Present /\ Owes(i) => disturbed' # {}
    PROVE  JobsInv'
<1>1. i \in Source /\ OnlyOf(i)
  BY UserIsNoService DEF UserStep
<1>2. JobRequestOK(i)' /\ SeenOK(i)'
  BY DEF JobRequestOK, SeenOK
<1>3. BeginOK'
  BY <1>1, BeginKept, WasAsked DEF JobsInv
<1> QED
  BY <1>2, <1>3, RequestStep

\* run_job writes Pending when its last call is answered, over what callbacks
\* have written meanwhile: the history has that.
LEMMA RunEndsAsWell ==
    ASSUME UsersConvert, JobsInv, NEW i \in User, RunEnds(i),
           UNCHANGED <<extraction, asked>>,
           At(i, "executed") \/ At(i, "posted"), request[i].op = "run"
    PROVE  JobsInv'
<1>1. i \in Source /\ i # "pipelines" /\ i # "annotation"
  BY UserIsNoService
<1>2. PICK ok, d : /\ ok = Present
                   /\ d = IF Present /\ row.status # request[i].seen.status
                          THEN {"overtaken"} ELSE {}
  OBVIOUS
<1>3. Ends(i, ok, d)
  BY <1>2 DEF RunEnds
<1>4. UserStep(i) /\ request'[i] = NoRequest /\ d \subseteq disturbed'
  BY <1>3, UserEnds DEF JobsInv
<1>5. CASE ~Present
  BY <1>4, <1>5, EndStep DEF RunEnds, At
<1>6. CASE Present
  <2>1. row' = [type |-> row.type, mode |-> row.mode, auto |-> row.auto,
                status |-> "Pending"]
    <3>1. PICK type, mode, auto, status :
              row = [type |-> type, mode |-> mode, auto |-> auto, status |-> status]
      BY <1>6 DEF JobsInv, TypesOK, Present, JobRowOK
    <3>2. row' = [row EXCEPT !.status = "Pending"]
      BY <1>6 DEF RunEnds
    <3> QED
      BY <3>1, <3>2
  <2>2. row.status # request[i].seen.status => disturbed' # {}
    BY <1>2, <1>4, <1>6
  <2> QED
    BY <1>4, <1>6, <2>1, <2>2, RunEndsStep
<1> QED
  BY <1>5, <1>6

\* The call to pipelines is answered, and run_job or create_job goes on.
LEMMA ExecutedStep ==
    ASSUME UsersConvert, JobsInv, NEW i \in Source, Executed(i)
    PROVE  JobsInv'
<1>1. /\ i \in User /\ asked # {} /\ UserRequestOK(request[i]) /\ SeenOK(i)
      /\ At(i, "executed") /\ request[i] # NoRequest /\ UNCHANGED <<extraction, asked>>
      /\ JobRequestOK(i)
  BY WaitsOfUsers DEF Executed, At, JobsInv, TypesOK
<1>2. CASE request[i].op = "run"
  BY <1>1, <1>2, RunEndsAsWell DEF Executed
<1>3. CASE request[i].op # "run" /\ Ends(i, FALSE, {}) /\ row' = row
  <2>1. ~Owes(i)
    BY <1>1, <1>3 DEF Owes, At
  <2>2. UserStep(i) /\ request'[i] = NoRequest
    BY <1>1, <1>3, UserEnds DEF JobsInv
  <2> QED
    BY <1>1, <1>3, <2>1, <2>2, EndStep
<1>4. CASE /\ request[i].op # "run" /\ row' = row
           /\ Present \/ request[i].seen.type # "ExtractionJob"
           /\ Proceeds(i, Request(request[i].op, "post", Reread(request[i].seen),
                                  request[i].change))
  <2>1. PICK op, seen, change : /\ op = request[i].op /\ change = request[i].change
                                /\ seen = Reread(request[i].seen)
    OBVIOUS
  <2>2. PICK q : q = Request(op, "post", seen, change)
    OBVIOUS
  <2>3. Moves(i, q, {})
    BY <1>4, <2>1, <2>2 DEF Proceeds
  <2>4. UserStep(i) /\ request'[i] = q
    BY <1>1, <2>3, UserMoves DEF JobsInv
  <2>5. /\ q = [op |-> q.op, at |-> q.at, seen |-> q.seen, change |-> q.change]
        /\ q.op = op /\ q.at = "post" /\ q.seen = seen
    BY <2>2, RequestFields
  <2>6. JobRowOK(request[i].seen) /\ op = "create"
    BY <1>1, <1>4, <2>1 DEF JobRequestOK, UserRequestOK, At
  <2>7. JobRowOK(seen) /\ (Present => Earlier(seen))
    <3>1. CASE request[i].seen.type = "ExtractionWithAnnotationJob"
      BY <1>1, <2>1, <2>6, <3>1 DEF Reread, SeenOK
    <3>2. CASE request[i].seen.type # "ExtractionWithAnnotationJob"
      <4>1. seen = row /\ Present
        BY <1>1, <1>4, <2>1, <2>6, <3>2
           DEF Reread, JobRowOK, JobTypes, UserRequestOK, At
      <4> QED
        BY <4>1 DEF JobsInv, TypesOK, Present, Earlier
    <3> QED
      BY <3>1, <3>2
  <2>8. UserRequestOK(q)
    BY <2>5, <2>6 DEF UserRequestOK
  <2>9. JobRequestOK(i)'
    BY <1>1, <2>4, <2>5, <2>8, <2>6, <2>7, UserIsNoService DEF JobRequestOK
  <2>10. SeenOK(i)'
    BY <1>1, <1>4, <2>1, <2>4, <2>5, <2>7 DEF SeenOK, Earlier, Present
  <2>11. i \in Source /\ OnlyOf(i)
    BY <2>4 DEF UserStep
  <2>12. BeginOK'
    BY <1>1, <2>11, BeginKept DEF JobsInv
  <2>13. ~Owes(i)
    BY <1>1, <1>4 DEF Owes, At
  <2> QED
    BY <1>1, <1>4, <2>4, <2>9, <2>10, <2>12, <2>13, RequestStep
<1> QED
  BY <1>1, <1>2, <1>3, <1>4 DEF Executed

\* The call to the annotation service, or to the taxonomies, is answered.
LEMMA PostedStep ==
    ASSUME UsersConvert, JobsInv, NEW i \in Source, Posted(i) \/ Linked(i)
    PROVE  JobsInv'
<1>1. /\ i \in User /\ UserRequestOK(request[i])
      /\ At(i, "posted") \/ At(i, "link")
      /\ request[i] # NoRequest /\ UNCHANGED <<extraction, asked>>
  BY WaitsOfUsers DEF Posted, Linked, At
<1>2. CASE At(i, "posted") /\ request[i].op = "run" /\ RunEnds(i)
  BY <1>1, <1>2, RunEndsAsWell
<1>3. CASE Ends(i, TRUE, {}) /\ row' = row /\ (At(i, "link") \/ request[i].op # "run")
  <2>1. ~Owes(i)
    BY <1>1, <1>3 DEF Owes, At
  <2>2. UserStep(i) /\ request'[i] = NoRequest
    BY <1>1, <1>3, UserEnds DEF JobsInv
  <2> QED
    BY <1>1, <1>3, <2>1, <2>2, EndStep
<1> QED
  BY <1>2, <1>3 DEF Posted, Linked

\* A call of a user's request fails, and the request with it.
LEMMA UserCallFailsStep ==
    ASSUME UsersConvert, JobsInv, NEW i \in User, CallFails(i)
    PROVE  JobsInv'
<1>1. i \in Source /\ i # "pipelines" /\ i # "annotation" /\ JobRequestOK(i)
  BY UserIsNoService DEF JobsInv, TypesOK
<1>2. /\ request[i] # NoRequest /\ request[i].at \notin {"start", "starting", "started"}
      /\ request' = [request EXCEPT ![i] = NoRequest]
      /\ UNCHANGED <<row, extraction, asked>>
  BY <1>1 DEF CallFails, JobRequestOK, UserRequestOK
<1>3. /\ UNCHANGED <<report, manual, call>>
      /\ disturbed \subseteq disturbed'
      /\ ~Refused(i) => "failed" \in disturbed'
  BY <1>1, <1>2 DEF CallFails, AnswerTo, At
<1>4. Refused(i) => ~Owes(i)
  BY <1>2 DEF Refused, Owes, At
<1>5. UserStep(i) /\ request'[i] = NoRequest
  BY <1>1, <1>2, <1>3, OnlyOfOne DEF UserStep, JobsInv
<1> QED
  BY <1>2, <1>3, <1>4, <1>5, EndStep

-----------------------------------------------------------------------------
(* Requests arrive at the services *)

\* A request is elsewhere: it has arrived.
LEMMA Arrives ==
    ASSUME UsersConvert, JobsInv, NEW i \in User, UserRequestOK(request[i]),
           request[i] # NoRequest, NEW at \in {"executed", "posted"},
           request[i].at = IF at = "executed" THEN "execute" ELSE "post",
           request' = [request EXCEPT ![i].at = at], asked' = asked
    PROVE  /\ i \in Source /\ OnlyOf(i) /\ JobRequestOK(i)' /\ BeginOK'
           /\ request'["pipelines"] = request["pipelines"]
           /\ request'[i] # NoRequest /\ request'[i].op = request[i].op
           /\ request'[i].at = at /\ request'[i].seen = request[i].seen
<1>1. i \in Source /\ i # "pipelines" /\ i # "annotation" /\ JobRequestOK(i)
  BY UserIsNoService DEF JobsInv, TypesOK
<1>2. PICK op, was, seen, change :
          request[i] = [op |-> op, at |-> was, seen |-> seen, change |-> change]
  BY <1>1 DEF JobRequestOK
<1>3. PICK q : q = [op |-> op, at |-> at, seen |-> seen, change |-> change]
  OBVIOUS
<1>4. request' = [request EXCEPT ![i] = q]
  <2>1. [request[i] EXCEPT !.at = at] = q
    BY <1>2, <1>3
  <2> QED
    BY <2>1
<1>5. OnlyOf(i) /\ request'[i] = q
  BY <1>1, <1>4, OnlyOfOne DEF JobsInv
<1>6. /\ q = [op |-> q.op, at |-> q.at, seen |-> q.seen, change |-> q.change]
      /\ q.op = op /\ q.at = at /\ q.seen = seen
      /\ request[i].op = op /\ request[i].seen = seen
  BY <1>2, <1>3
<1>7. q # NoRequest /\ q.op # "none"
  BY <1>1, <1>6 DEF JobRequestOK, NoRequest
<1>8. UserRequestOK(q)
  BY <1>6 DEF UserRequestOK
<1>9. JobRequestOK(i)'
  BY <1>1, <1>5, <1>6, <1>7, <1>8 DEF JobRequestOK
<1>10. BeginOK'
  BY <1>1, <1>5, BeginKept, WasAsked DEF JobsInv
<1> QED
  BY <1>1, <1>5, <1>6, <1>7, <1>9, <1>10, UserIsNoService

\* Pipelines accepts a job; an extraction it runs twice is in the history.
LEMMA AcceptStep ==
    ASSUME UsersConvert, JobsInv, NEW i \in Source, Accept(i)
    PROVE  JobsInv'
<1>1. /\ i \in User /\ asked # {} /\ UserRequestOK(request[i]) /\ SeenOK(i)
      /\ request[i] # NoRequest /\ request[i].at = "execute"
      /\ UNCHANGED <<row, report, manual, call, asked>>
      /\ disturbed \subseteq disturbed'
      /\ extraction # "none" => "twice" \in disturbed'
  BY WaitsOfUsers DEF Accept, At
<1>2. /\ extraction' \in {"accepted", "running", "done", "failed"}
      /\ extraction = "none" => extraction' = "accepted"
  BY DEF Accept, JobsInv, TypesOK
<1>3. /\ OnlyOf(i) /\ JobRequestOK(i)' /\ BeginOK'
      /\ request'["pipelines"] = request["pipelines"]
      /\ request'[i] # NoRequest /\ request'[i].op = request[i].op
      /\ request'[i].at = "executed" /\ request'[i].seen = request[i].seen
  BY <1>1, Arrives DEF Accept, At
<1>4. Present => row.type # "AnnotationJob" /\ row.mode # "none" /\ JobRowOK(row)
  BY <1>1 DEF SeenOK, UserRequestOK, Earlier, JobsInv, TypesOK, Present
<1>5. (Present' <=> Present) /\ (InManualPart' <=> InManualPart) /\ RowGoesOn
  BY <1>1, StaysGoesOn DEF Present, InManualPart, JobsInv
<1>6. TypesOK' /\ SeenInv'
  <2>1. ServicesGoOn
    BY <1>1, <1>2 DEF ServicesGoOn, JobsInv, TypesOK, ReportOK, Working
  <2>2. CallOK'
    BY <1>1, <1>3 DEF JobsInv, TypesOK, CallOK, At
  <2>3. SeenOK(i)'
    BY <1>1, <1>2, <1>3, <1>5 DEF SeenOK, Earlier
  <2> QED
    BY <1>3, <1>5, <2>1, <2>2, <2>3, RequestsKept DEF JobsInv
<1>7. PartInv'
  BY <1>1, <1>3, <1>5 DEF JobsInv, PartInv
<1>8. ReportInv'
  <2>1. ASSUME "twice" \notin disturbed'
        PROVE  extraction = "none" /\ report' = NoCall
    BY <1>1, <2>1 DEF JobsInv, ReportInv
  <2>2. NoCall.status = "none"
    BY DEF NoCall
  <2> QED
    BY <1>1, <1>2, <1>3, <1>4, <1>5, <2>1, <2>2 DEF JobsInv, ReportInv
<1>9. OrderInv'
  BY <1>1, <1>2, <1>3, <1>5 DEF JobsInv, OrderInv, ManualWhenDone, InOrder
<1>10. StatusInv'
  <2>1. SUFFICES ASSUME Present, disturbed' = {}
                 PROVE  IF InManualPart THEN ManualStatus' ELSE AutomaticStatus'
    BY <1>5 DEF StatusInv
  <2>2. disturbed = {} /\ extraction = "none" /\ extraction' = "accepted" /\ report' = NoCall
    BY <1>1, <1>2, <2>1 DEF JobsInv, ReportInv
  <2>3. ~InManualPart
    BY <1>4, <2>1, <2>2 DEF InManualPart, JobsInv, OrderInv, ManualWhenDone
  <2>4. row.status \in {"Draft", "Pending"}
    BY <2>1, <2>2, <2>3 DEF JobsInv, StatusInv, AutomaticStatus
  <2>5. CASE request[i].op = "run"
    <3>1. RunsExtraction'
      BY <1>1, <1>3, <2>5 DEF RunsExtraction, At
    <3> QED
      BY <1>1, <2>2, <2>3, <2>4, <3>1 DEF AutomaticStatus
  <2>6. CASE request[i].op = "create"
    <3>1. row.status # "Draft"
      BY <1>1, <2>1, <2>6 DEF SeenOK
    <3> QED
      BY <1>1, <2>2, <2>3, <2>4, <3>1 DEF AutomaticStatus
  <2> QED
    BY <1>1, <2>5, <2>6 DEF UserRequestOK
<1> QED
  BY <1>3, <1>6, <1>7, <1>8, <1>9, <1>10 DEF JobsInv

\* The annotation service gets the job.
LEMMA PostArrivesStep ==
    ASSUME UsersConvert, JobsInv, NEW i \in Source, PostArrives(i)
    PROVE  JobsInv'
<1>1. /\ i \in User /\ UserRequestOK(request[i]) /\ JobRowOK(request[i].seen) /\ SeenOK(i)
      /\ request[i] # NoRequest /\ request[i].at = "post" /\ manual = "absent"
      /\ UNCHANGED <<row, extraction, report, call, asked, disturbed>>
      /\ manual' = IF IsManual(request[i].seen.type) THEN "Pending" ELSE "extraction"
  BY WaitsOfUsers DEF PostArrives, At
<1>2. /\ OnlyOf(i) /\ JobRequestOK(i)' /\ BeginOK'
      /\ request'["pipelines"] = request["pipelines"]
      /\ request'[i] # NoRequest /\ request'[i].op = request[i].op
      /\ request'[i].at = "posted" /\ request'[i].seen = request[i].seen
  BY <1>1, Arrives DEF PostArrives, At
<1>3. call = NoCall
  BY <1>1 DEF JobsInv, TypesOK, CallOK
<1>4. (Present' <=> Present) /\ (InManualPart' <=> InManualPart) /\ RowGoesOn
  BY <1>1, StaysGoesOn DEF Present, InManualPart, JobsInv
<1>5. TypesOK' /\ SeenInv'
  <2>1. ServicesGoOn
    BY <1>1 DEF ServicesGoOn, JobsInv, TypesOK, ReportOK, Working
  <2>2. CallOK'
    BY <1>1, <1>3 DEF CallOK
  <2>3. SeenOK(i)'
    BY <1>1, <1>2, <1>4 DEF SeenOK, Earlier, IsManual
  <2> QED
    BY <1>2, <1>4, <2>1, <2>2, <2>3, RequestsKept DEF JobsInv
<1>6. Present => /\ row.type = "ExtractionJob" => manual' = "extraction"
                 /\ row.type = "AnnotationJob" => manual' = "Pending"
  BY <1>1 DEF SeenOK, Earlier, IsManual, JobRowOK, JobTypes
<1>7. PartInv'
  BY <1>1, <1>2, <1>3, <1>4, <1>6 DEF JobsInv, PartInv
<1>8. ReportInv'
  BY <1>1, <1>2, <1>4 DEF JobsInv, ReportInv
<1>9. OrderInv'
  BY <1>1, <1>2, <1>4 DEF JobsInv, OrderInv, ManualWhenDone, InOrder
<1>10. StatusInv'
  <2>1. SUFFICES ASSUME Present, disturbed = {}
                 PROVE  IF InManualPart THEN ManualStatus' ELSE AutomaticStatus'
    BY <1>1, <1>4 DEF StatusInv
  <2>2. IF InManualPart THEN ManualStatus ELSE AutomaticStatus
    BY <2>1 DEF JobsInv, StatusInv
  <2>3. CASE ~InManualPart
    <3>1. User \subseteq Source
      BY DEF Source
    <3>2. CreatesExtraction => CreatesExtraction'
      BY <1>1, <1>2, <3>1 DEF CreatesExtraction, At, OnlyOf
    <3>3. RunsExtraction => RunsExtraction'
      BY <1>1, <1>2, <3>1 DEF RunsExtraction, At, OnlyOf
    <3> QED
      BY <1>1, <2>2, <2>3, <3>2, <3>3 DEF AutomaticStatus, JobsInv, TypesOK
  <2>4. CASE InManualPart /\ row.type # "AnnotationJob"
    BY <1>1, <2>2, <2>4 DEF ManualStatus
  <2>5. CASE row.type = "AnnotationJob"
    <3>1. row.status \in {"Draft", "Pending"} /\ manual' = "Pending"
      BY <1>1, <1>6, <2>1, <2>2, <2>5 DEF ManualStatus, InManualPart
    <3>2. request[i].op = "run" => RunsManual'
      BY <1>1, <1>2 DEF RunsManual, At
    <3>3. request[i].op = "create" => row.status # "Draft"
      BY <1>1, <2>1 DEF SeenOK
    <3> QED
      BY <1>1, <2>5, <3>1, <3>2, <3>3 DEF ManualStatus, UserRequestOK, InManualPart
  <2> QED
    BY <2>3, <2>4, <2>5
<1> QED
  BY <1>2, <1>5, <1>7, <1>8, <1>9, <1>10 DEF JobsInv

-----------------------------------------------------------------------------
(* The webhooks of pipelines *)

\* An answer to a webhook: it is over, or is sent again.
JobAnswered(ok) ==
    \/ report' = NoCall /\ (ok \/ "gaveUp" \in disturbed' \/ "lost" \in disturbed')
    \/ /\ report' # NoCall /\ report'.status = report.status
       /\ ~ok \/ "lost" \in disturbed'

\* An answered webhook is over, one without success is repeated or given up.
LEMMA WebhookAnswered ==
    ASSUME ReportOK, report # NoCall, NEW ok, AnswerTo("pipelines", ok),
           GivesUp("pipelines", ok) => "gaveUp" \in disturbed'
    PROVE  /\ UNCHANGED <<manual, call>> /\ ReportOK'
           /\ JobAnswered(ok)
<1>1. PICK status, tries : /\ report = [status |-> status, tries |-> tries]
                           /\ status \in {"InProgress", "Finished", "Failed"}
  BY DEF ReportOK
<1>2. /\ UNCHANGED <<manual, call>>
      /\ report' = IF ok \/ report.tries = WebhookTries THEN NoCall
                   ELSE [report EXCEPT !.tries = @ + 1]
  BY DEF AnswerTo
<1>3. CASE ok \/ report.tries = WebhookTries
  BY <1>2, <1>3 DEF ReportOK, JobAnswered, GivesUp
<1>4. CASE ~(ok \/ report.tries = WebhookTries)
  <2>1. PICK n : n = tries + 1
    OBVIOUS
  <2>2. report' = [status |-> status, tries |-> n]
    BY <1>1, <1>2, <1>4, <2>1
  <2>3. report'.status = status /\ report.status = status
        /\ report' = [status |-> report'.status, tries |-> report'.tries]
    BY <1>1, <2>2
  <2>4. report' # NoCall
    BY <1>1, <2>3 DEF NoCall
  <2> QED
    BY <1>1, <1>2, <1>4, <2>3, <2>4 DEF ReportOK, JobAnswered
<1> QED
  BY <1>2, <1>3, <1>4

\* A request of pipelines ends.
LEMMA PipelinesEnds ==
    ASSUME TypesOK, report # NoCall, NEW ok, NEW d, Ends("pipelines", ok, d)
    PROVE  /\ OnlyOf("pipelines") /\ request'["pipelines"] = NoRequest
           /\ disturbed \subseteq disturbed' /\ UNCHANGED <<manual, call>> /\ ReportOK'
           /\ JobAnswered(ok)
<1>1. "pipelines" \in Source
  BY DEF Source
<1>2. request' = [request EXCEPT !["pipelines"] = NoRequest] /\ disturbed \subseteq disturbed'
  BY DEF Ends
<1>3. OnlyOf("pipelines") /\ request'["pipelines"] = NoRequest
  BY <1>1, <1>2, OnlyOfOne
<1>4. CASE AnswerTo("pipelines", ok) /\ (GivesUp("pipelines", ok) => "gaveUp" \in disturbed')
  BY <1>2, <1>3, <1>4, WebhookAnswered DEF TypesOK
<1>5. CASE AnswerTo("pipelines", FALSE) /\ "lost" \in disturbed'
           /\ (GivesUp("pipelines", FALSE) => "gaveUp" \in disturbed')
  <2>1. UNCHANGED <<manual, call>> /\ ReportOK' /\ JobAnswered(FALSE)
    BY <1>5, WebhookAnswered DEF TypesOK
  <2>2. JobAnswered(ok)
    BY <1>5, <2>1 DEF JobAnswered
  <2> QED
    BY <1>2, <1>3, <2>1, <2>2
<1> QED
  BY <1>4, <1>5 DEF Ends

\* Before the manual part of a job its pipeline reports.
LEMMA ReportsBefore ==
    ASSUME JobsInv, Present, InOrder, report # NoCall, request["pipelines"] = NoRequest
    PROVE  ~InManualPart /\ row.mode \in {"Automatic", "Manual"}
BY DEF JobsInv, OrderInv, ReportInv, TypesOK, JobRowOK, Present

\* What is in the history stays there.
LEMMA OrderOfDisturbances ==
    ASSUME disturbed \subseteq disturbed'
    PROVE  /\ InOrder' => InOrder
           /\ disturbed' = {} => disturbed = {} /\ InOrder'
           /\ InOrder' => /\ {"startFailed", "lost", "converted", "twice"} \cap disturbed' = {}
                          /\ "twice" \notin disturbed' /\ "lost" \notin disturbed'
                          /\ "startFailed" \notin disturbed'
BY DEF InOrder

\* Pipelines begins to report that it has gone on.
LEMMA ReportsStep ==
    ASSUME UsersConvert, JobsInv, ExtractionStarts \/ ExtractionEnds
    PROVE  JobsInv'
<1>1. PICK state, status :
          /\ report = NoCall /\ extraction \in {"accepted", "running"}
          /\ extraction' = state /\ report' = [status |-> status, tries |-> 1]
          /\ UNCHANGED <<row, request, manual, call, asked, disturbed>>
          /\ \/ state = "running" /\ status = "InProgress"
             \/ state = "done" /\ status = "Finished"
             \/ state = "failed" /\ status = "Failed"
  BY DEF ExtractionStarts, ExtractionEnds, Reports
<1>2. report' # NoCall /\ report'.status = status /\ ReportOK'
  <2>1. report'.status = status /\ report'.tries = 1
    BY <1>1
  <2> QED
    BY <1>1, <2>1 DEF ReportOK, NoCall
<1>3. (Present' <=> Present) /\ (InManualPart' <=> InManualPart)
  BY <1>1 DEF Present, InManualPart
<1>4. TypesOK' /\ SeenInv'
  <2>1. ServicesGoOn
    BY <1>1, <1>2 DEF ServicesGoOn, JobsInv, TypesOK, Working
  <2>2. CallOK'
    BY <1>1 DEF JobsInv, TypesOK, CallOK, At
  <2> QED
    BY <1>1, <2>1, <2>2, ServicesKept DEF JobsInv
<1>5. BeginOK'
  <2>1. asked # {}
    BY <1>1, WasAsked DEF JobsInv
  <2> QED
    BY <1>1, <2>1 DEF JobsInv, BeginOK
<1>6. PartInv'
  BY <1>1, <1>3 DEF JobsInv, PartInv
<1>7. "twice" \notin disturbed =>
          ~(Present /\ row.type = "ExtractionJob" /\ row.status = "Finished")
  BY <1>1 DEF JobsInv, ReportInv
<1>8. ReportInv'
  BY <1>1, <1>2, <1>3, <1>7 DEF JobsInv, ReportInv
<1>9. Present /\ InOrder => ~InManualPart
  BY <1>1 DEF JobsInv, ReportInv, OrderInv, ManualWhenDone, InManualPart, InOrder
<1>10. OrderInv'
  <2>1. InOrder => "twice" \notin disturbed
    BY DEF InOrder
  <2>2. ManualWhenDone'
    BY <1>1, <1>3 DEF JobsInv, OrderInv, ManualWhenDone
  <2> QED
    BY <1>1, <1>3, <1>7, <1>9, <2>1, <2>2 DEF JobsInv, OrderInv, InOrder
<1>11. StatusInv'
  <2>1. SUFFICES ASSUME Present, disturbed = {}
                 PROVE  ~InManualPart /\ AutomaticStatus'
    BY <1>1, <1>3 DEF StatusInv
  <2>2. ~InManualPart
    BY <1>9, <2>1 DEF InOrder
  <2>3. AutomaticStatus'
    BY <1>1, <1>2 DEF AutomaticStatus
  <2> QED
    BY <2>2, <2>3
<1> QED
  BY <1>4, <1>5, <1>6, <1>8, <1>10, <1>11 DEF JobsInv

\* A webhook is not answered, or answered with an error.
LEMMA ReportFailsStep ==
    ASSUME UsersConvert, JobsInv, ReportFails
    PROVE  JobsInv'
<1>1. /\ report # NoCall /\ request["pipelines"] = NoRequest
      /\ UNCHANGED <<row, request, extraction, manual, call, asked>>
      /\ disturbed \subseteq disturbed' /\ ReportOK' /\ JobAnswered(FALSE)
  <2>1. /\ report # NoCall /\ request["pipelines"] = NoRequest /\ AnswerTo("pipelines", FALSE)
        /\ disturbed \subseteq disturbed' /\ UNCHANGED <<row, request, extraction, asked>>
        /\ GivesUp("pipelines", FALSE) => "gaveUp" \in disturbed'
    BY DEF ReportFails
  <2> QED
    BY <2>1, WebhookAnswered DEF JobsInv, TypesOK
<1>2. (Present' <=> Present) /\ (InManualPart' <=> InManualPart)
  BY <1>1 DEF Present, InManualPart
<1>3. TypesOK' /\ SeenInv'
  <2>1. ServicesGoOn
    BY <1>1 DEF ServicesGoOn, JobsInv, TypesOK, Working
  <2>2. CallOK'
    BY <1>1 DEF JobsInv, TypesOK, CallOK, At
  <2> QED
    BY <1>1, <2>1, <2>2, ServicesKept DEF JobsInv
<1>4. BeginOK'
  <2>1. asked # {}
    BY <1>1, WasAsked DEF JobsInv
  <2> QED
    BY <1>1, <2>1 DEF JobsInv, BeginOK
<1>5. PartInv'
  BY <1>1, <1>2 DEF JobsInv, PartInv
<1>6. ReportInv'
  <2>1. report'.status \in {"none", report.status}
    BY <1>1 DEF JobAnswered, NoCall
  <2> QED
    BY <1>1, <1>2, <2>1 DEF JobsInv, ReportInv
<1>7. Present /\ InOrder' => ~InManualPart
  BY <1>1, OrderOfDisturbances, ReportsBefore
<1>8. OrderInv'
  <2>1. ManualWhenDone'
    BY <1>1, <1>2 DEF JobsInv, OrderInv, ManualWhenDone
  <2>2. InOrder' /\ Present /\ row.type = "ExtractionJob" => row.status # "Finished"
    BY <1>1, OrderOfDisturbances DEF JobsInv, OrderInv
  <2>3. InOrder' /\ Present /\ IsManual(row.type) /\ row.status = "Finished" =>
            manual = "Finished"
    BY <1>1, OrderOfDisturbances DEF JobsInv, OrderInv
  <2> QED
    BY <1>1, <1>2, <1>7, <2>1, <2>2, <2>3 DEF OrderInv, IsManual
<1>9. StatusInv'
  <2>1. SUFFICES ASSUME Present, disturbed' = {}
                 PROVE  ~InManualPart /\ AutomaticStatus'
    BY <1>2 DEF StatusInv
  <2>2. ~InManualPart /\ disturbed = {} /\ report' # NoCall
    BY <1>1, <1>7, <2>1, OrderOfDisturbances DEF JobAnswered
  <2>3. AutomaticStatus
    BY <2>1, <2>2 DEF JobsInv, StatusInv
  <2>4. extraction \notin {"none", "accepted"}
    BY <1>1, <2>3 DEF AutomaticStatus, JobsInv, ReportInv
  <2>5. AutomaticStatus'
    BY <1>1, <2>2, <2>4 DEF AutomaticStatus, JobsInv, TypesOK
  <2> QED
    BY <2>2, <2>5
<1> QED
  BY <1>3, <1>4, <1>5, <1>6, <1>8, <1>9 DEF JobsInv

\* What is written to a row that has been read as it is.
LEMMA RowAsRead ==
    ASSUME NEW type, NEW mode, NEW auto, NEW status, NEW e,
           row = [type |-> type, mode |-> mode, auto |-> auto, status |-> status]
    PROVE  WriteRow(row, e) =
               [type |-> IF e.type = "none" THEN type ELSE e.type,
                mode |-> IF e.mode = "none" THEN mode ELSE e.mode,
                auto |-> auto,
                status |-> IF e.status = "none" THEN status ELSE e.status]
<1>1. row.type = type /\ row.mode = mode /\ row.status = status
  OBVIOUS
<1>2. PICK t, m, s : /\ t = IF e.type \in {"none", row.type} THEN row.type ELSE e.type
                     /\ m = IF e.mode \in {"none", row.mode} THEN row.mode ELSE e.mode
                     /\ s = IF e.status \in {"none", row.status} THEN row.status ELSE e.status
  OBVIOUS
<1>3. WriteRow(row, e) = [row EXCEPT !.type = t, !.mode = m, !.status = s]
  BY <1>2 DEF WriteRow
<1>4. [row EXCEPT !.type = t, !.mode = m, !.status = s] =
          [type |-> t, mode |-> m, auto |-> auto, status |-> s]
  <2>1. PICK f : f = [type |-> type, mode |-> mode, auto |-> auto, status |-> status]
    OBVIOUS
  <2>2. PICK g : g = [f EXCEPT !.type = t, !.mode = m, !.status = s]
    OBVIOUS
  <2>3. g = [type |-> t, mode |-> m, auto |-> auto, status |-> s]
    BY <2>1, <2>2
  <2>4. row = f
    BY <2>1
  <2> QED
    BY <2>2, <2>3, <2>4
<1>5. /\ t = IF e.type = "none" THEN type ELSE e.type
      /\ m = IF e.mode = "none" THEN mode ELSE e.mode
      /\ s = IF e.status = "none" THEN status ELSE e.status
  BY <1>1, <1>2
<1> QED
  BY <1>3, <1>4, <1>5

\* What the webhook of pipelines writes, and what is left of it.
LEMMA ReportWritten ==
    ASSUME JobsInv, SendReport, Present
    PROVE  \E mode, status :
               /\ row' = [type |-> row.type, mode |-> mode, auto |-> row.auto,
                          status |-> status]
               /\ IF /\ row.type = "ExtractionWithAnnotationJob"
                     /\ row.mode = "Automatic" /\ report.status = "Finished"
                  THEN /\ mode = "Manual" /\ status = "ReadyForAnnotation"
                       /\ \/ Ends("pipelines", TRUE, {})
                          \/ \E seen, ch :
                                 seen = row /\ Proceeds("pipelines", Request("put", "start", seen, ch))
                  ELSE /\ mode = row.mode /\ status = report.status
                       /\ Ends("pipelines", TRUE, {})
<1>1. PICK type, mode, auto, status :
          row = [type |-> type, mode |-> mode, auto |-> auto, status |-> status]
  BY DEF JobsInv, TypesOK, Present, JobRowOK
<1>2. PICK s : s = report.status
  OBVIOUS
<1>3. PICK ch : ch = StatusChange(s)
  OBVIOUS
<1>4. ch = [type |-> "none", mode |-> "none", status |-> s, fields |-> "none"]
  BY <1>3 DEF StatusChange, NoChange
<1>5. ch.type = "none" /\ ch.mode = "none" /\ ch.status = s /\ ch.fields = "none"
  BY <1>4
<1>6. s # "none"
  BY <1>2 DEF SendReport, JobsInv, TypesOK, ReportOK
<1>7. PICK seen : seen = row
  OBVIOUS
<1>8. PutWrites("pipelines", seen, ch)
  <2>1. PutAllowed(row, ch)
    BY <1>5 DEF PutAllowed
  <2>2. PutStarts("pipelines", ch)
    BY <1>2, <1>3 DEF SendReport
  <2> QED
    BY <1>5, <1>7, <2>1, <2>2 DEF PutStarts, PutTells
<1>9. ~Converts(seen, ch)
  BY <1>5 DEF Converts
<1>10. row' = WriteRow(seen, Effective(seen, ch))
       /\ IF FinishesAutomaticPart(seen, ch) /\ seen.auto
          THEN Proceeds("pipelines", Request("put", "start", seen, ch))
          ELSE Ends("pipelines", TRUE, {})
  BY <1>5, <1>8, <1>9 DEF PutWrites, ConvertsLate
<1>11. CASE FinishesAutomaticPart(seen, ch)
  <2>1. /\ row.type = "ExtractionWithAnnotationJob"
        /\ row.mode = "Automatic" /\ report.status = "Finished"
    BY <1>2, <1>5, <1>7, <1>11 DEF FinishesAutomaticPart
  <2>2. Effective(seen, ch) = [type |-> "none", mode |-> "Manual",
                               status |-> "ReadyForAnnotation", fields |-> "none"]
    BY <1>4, <1>11 DEF Effective
  <2>3. PICK e : e = Effective(seen, ch)
    OBVIOUS
  <2>4. e.type = "none" /\ e.mode = "Manual" /\ e.status = "ReadyForAnnotation"
    BY <2>2, <2>3
  <2>5. WriteRow(seen, e) = [type |-> type, mode |-> "Manual", auto |-> auto,
                             status |-> "ReadyForAnnotation"]
    BY <1>1, <1>7, <2>4, RowAsRead
  <2>6. row' = [type |-> row.type, mode |-> "Manual", auto |-> row.auto,
                status |-> "ReadyForAnnotation"]
    BY <1>1, <1>10, <2>3, <2>5
  <2> QED
    BY <1>7, <1>10, <2>1, <2>6
<1>12. CASE ~FinishesAutomaticPart(seen, ch)
  <2>1. ~( /\ row.type = "ExtractionWithAnnotationJob"
           /\ row.mode = "Automatic" /\ report.status = "Finished" )
    BY <1>2, <1>5, <1>7, <1>12 DEF FinishesAutomaticPart
  <2>2. Effective(seen, ch) = ch
    BY <1>9, <1>12 DEF Effective
  <2>3. WriteRow(seen, ch) = [type |-> type, mode |-> mode, auto |-> auto, status |-> s]
    BY <1>1, <1>5, <1>6, <1>7, RowAsRead
  <2>4. row' = [type |-> row.type, mode |-> row.mode, auto |-> row.auto,
                status |-> report.status]
    BY <1>1, <1>2, <1>10, <2>2, <2>3
  <2> QED
    BY <1>10, <1>12, <2>1, <2>4
<1> QED
  BY <1>11, <1>12

\* A webhook is received.
LEMMA SendReportStep ==
    ASSUME UsersConvert, JobsInv, SendReport
    PROVE  JobsInv'
<1>1. /\ report # NoCall /\ request["pipelines"] = NoRequest
      /\ UNCHANGED <<extraction, asked>> /\ extraction # "none"
      /\ ReportOK /\ "pipelines" \in Source /\ "pipelines" \notin User
      /\ report.status \in {"InProgress", "Finished", "Failed"}
  BY DEF SendReport, JobsInv, ReportInv, TypesOK, ReportOK, Source, UsersConvert
<1>2. CASE ~Present
  <2>1. row' = row /\ Ends("pipelines", FALSE, {})
    BY <1>2 DEF SendReport, PutStarts
  <2>2. /\ OnlyOf("pipelines") /\ request'["pipelines"] = NoRequest
        /\ UNCHANGED <<manual, call>> /\ ReportOK' /\ report'.status \in {"none", report.status}
    <3>1. \A ok : JobAnswered(ok) => report'.status \in {"none", report.status}
      BY DEF JobAnswered, NoCall
    <3> QED
      BY <1>1, <2>1, <3>1, PipelinesEnds DEF JobsInv
  <2>3. TypesOK' /\ SeenInv'
    <3>1. ServicesGoOn /\ RowGoesOn
      BY <1>1, <2>1, <2>2, StaysGoesOn DEF ServicesGoOn, JobsInv, TypesOK, Working
    <3>2. CallOK'
      BY <1>1, <2>2 DEF JobsInv, TypesOK, CallOK, At, OnlyOf
    <3>3. JobRequestOK("pipelines")' /\ SeenOK("pipelines")'
      BY <2>2 DEF JobRequestOK, SeenOK
    <3> QED
      BY <1>1, <2>2, <3>1, <3>2, <3>3, RequestsKept DEF JobsInv
  <2>4. BeginOK'
    BY <1>1, <2>2, BeginKept, WasAsked DEF JobsInv
  <2>5. ~Present'
    BY <1>2, <2>1 DEF Present
  <2>6. ReportInv'
    <3>1. "twice" \notin disturbed' => "twice" \notin disturbed
      BY <2>1 DEF Ends
    <3> QED
      BY <1>1, <2>2, <2>5, <3>1 DEF JobsInv, ReportInv
  <2> QED
    BY <2>3, <2>4, <2>5, <2>6 DEF JobsInv, PartInv, OrderInv, ManualWhenDone, StatusInv
<1>3. CASE Present
  <2>1. PICK type, mode, auto, status :
            row = [type |-> type, mode |-> mode, auto |-> auto, status |-> status]
            /\ JobRowOK(row)
    BY <1>3 DEF JobsInv, TypesOK, Present, JobRowOK
  <2>2. PICK m, st :
            /\ row' = [type |-> row.type, mode |-> m, auto |-> row.auto, status |-> st]
            /\ IF /\ row.type = "ExtractionWithAnnotationJob"
                  /\ row.mode = "Automatic" /\ report.status = "Finished"
               THEN /\ m = "Manual" /\ st = "ReadyForAnnotation"
                    /\ \/ Ends("pipelines", TRUE, {})
                       \/ \E seen, ch :
                              seen = row /\ Proceeds("pipelines", Request("put", "start", seen, ch))
               ELSE m = row.mode /\ st = report.status /\ Ends("pipelines", TRUE, {})
    BY <1>3, ReportWritten
  <2>3. /\ row'.type = row.type /\ row'.mode = m /\ row'.status = st
        /\ row' = [type |-> row'.type, mode |-> row'.mode, auto |-> row'.auto,
                   status |-> row'.status]
    BY <2>1, <2>2
  <2>4. /\ OnlyOf("pipelines") /\ UNCHANGED <<manual, call>> /\ disturbed \subseteq disturbed'
        /\ ReportOK' /\ JobRequestOK("pipelines")'
        /\ \/ request'["pipelines"] = NoRequest /\ JobAnswered(TRUE)
           \/ /\ m = "Manual" /\ row.type = "ExtractionWithAnnotationJob"
              /\ request'["pipelines"] # NoRequest /\ request'["pipelines"].seen = row
              /\ request'["pipelines"].at = "start" /\ request'["pipelines"].op = "put"
              /\ report' = report
    <3>1. CASE Ends("pipelines", TRUE, {})
      <4>1. JobRequestOK("pipelines")'
        BY <1>1, <3>1, PipelinesEnds DEF JobsInv, JobRequestOK
      <4> QED
        BY <1>1, <3>1, <4>1, PipelinesEnds DEF JobsInv
    <3>2. CASE \E seen, ch : seen = row /\ Proceeds("pipelines", Request("put", "start", seen, ch))
               /\ m = "Manual" /\ row.type = "ExtractionWithAnnotationJob"
      <4>1. PICK seen, ch : seen = row /\ Proceeds("pipelines", Request("put", "start", seen, ch))
        BY <3>2
      <4>2. PICK q : q = Request("put", "start", seen, ch)
        OBVIOUS
      <4>3. /\ q = [op |-> q.op, at |-> q.at, seen |-> q.seen, change |-> q.change]
            /\ q.op = "put" /\ q.at = "start" /\ q.seen = seen
        BY <4>2, RequestFields
      <4>4. q # NoRequest
        BY <4>3 DEF NoRequest
      <4>5. /\ OnlyOf("pipelines") /\ request'["pipelines"] = q
            /\ UNCHANGED <<report, manual, call>> /\ disturbed' = disturbed
        <5>1. request' = [request EXCEPT !["pipelines"] = q]
              /\ UNCHANGED <<report, manual, call>> /\ disturbed' = disturbed
          BY <4>1, <4>2 DEF Proceeds, Moves
        <5> QED
          BY <1>1, <5>1, OnlyOfOne DEF JobsInv
      <4>6. JobRequestOK("pipelines")' /\ ReportOK'
        BY <1>1, <2>1, <4>1, <4>3, <4>4, <4>5 DEF JobRequestOK, ReportOK
      <4> QED
        BY <3>2, <4>1, <4>3, <4>4, <4>5, <4>6
    <3> QED
      BY <2>2, <3>1, <3>2
  <2>5. RowGoesOn /\ Present' /\ (InManualPart => InManualPart')
        /\ (m = "Manual" /\ row.type = "ExtractionWithAnnotationJob" => InManualPart')
    <3>1. JobRowOK(row') /\ Present'
      BY <1>1, <2>1, <2>2, <2>3 DEF JobRowOK, Present, Absent, JobTypes
    <3> QED
      BY <1>1, <1>3, <2>1, <2>2, <2>3, <3>1 DEF RowGoesOn, InManualPart
  <2>6. TypesOK' /\ SeenInv'
    <3>1. ServicesGoOn
      BY <1>1, <2>4 DEF ServicesGoOn, JobsInv, TypesOK, Working
    <3>2. CallOK'
      BY <1>1, <2>4 DEF JobsInv, TypesOK, CallOK, At
    <3>3. SeenOK("pipelines")'
      BY <2>3, <2>4 DEF SeenOK, Earlier
    <3> QED
      BY <1>1, <2>4, <2>5, <3>1, <3>2, <3>3, RequestsKept DEF JobsInv
  <2>7. BeginOK'
    BY <1>1, <2>4, BeginKept, WasAsked DEF JobsInv
  <2>8. PartInv'
    BY <1>3, <2>3, <2>4, <2>5 DEF JobsInv, PartInv
  <2>9. row.mode # "none" /\ row.type # "AnnotationJob"
    BY <1>1, <1>3 DEF JobsInv, ReportInv
  <2>10. "twice" \notin disturbed' =>
            /\ report.status = "Finished" => extraction = "done"
            /\ report.status = "InProgress" => extraction = "running"
            /\ report.status = "Failed" => extraction = "failed"
    BY <2>4 DEF JobsInv, ReportInv
  <2>11. ReportInv'
    <3>1. report'.status \in {"none", report.status}
      BY <2>4 DEF JobAnswered, NoCall
    <3>2. "twice" \notin disturbed' /\ row'.type = "ExtractionJob" /\ row'.status = "Finished"
             => extraction = "done"
      BY <2>2, <2>3, <2>10
    <3>3. row'.mode # "none" /\ row'.type # "AnnotationJob"
      BY <2>2, <2>3, <2>9
    <3> QED
      BY <1>1, <2>4, <2>10, <3>1, <3>2, <3>3 DEF ReportInv
  <2>12. InOrder' => ~InManualPart
    BY <1>1, <1>3, <2>4, OrderOfDisturbances, ReportsBefore
  <2>13. InOrder' /\ request'["pipelines"] = NoRequest => report' = NoCall
    BY <2>4 DEF JobAnswered, InOrder
  <2>14. OrderInv'
    <3>1. ManualWhenDone'
      <4>1. ASSUME row'.type = "ExtractionWithAnnotationJob", row'.mode = "Manual",
                   disturbed' \cap {"converted", "twice"} = {}
            PROVE  extraction = "done"
        <5>1. "twice" \notin disturbed' /\ disturbed \cap {"converted", "twice"} = {}
          BY <2>4, <4>1
        <5>2. CASE row.mode = "Manual"
          BY <1>3, <2>3, <4>1, <5>1, <5>2 DEF JobsInv, OrderInv, ManualWhenDone
        <5>3. CASE row.mode # "Manual"
          BY <2>2, <2>3, <2>10, <4>1, <5>1, <5>3
        <5> QED
          BY <5>2, <5>3
      <4> QED
        BY <1>1, <4>1 DEF ManualWhenDone
    <3>2. InOrder' /\ row'.type = "ExtractionJob" => report' = NoCall
      BY <2>2, <2>3, <2>4, <2>13
    <3>3. ~(InOrder' /\ IsManual(row'.type) /\ row'.status = "Finished")
      <4>1. SUFFICES ASSUME InOrder', IsManual(row.type), st = "Finished"
                     PROVE  FALSE
        BY <2>3
      <4>2. row.type = "ExtractionWithAnnotationJob"
        BY <2>9, <4>1 DEF IsManual
      <4>3. row.mode = "Automatic"
        BY <2>1, <2>9, <2>12, <4>1, <4>2 DEF JobRowOK, InManualPart
      <4> QED
        BY <2>2, <4>1, <4>2, <4>3
    <3> QED
      BY <2>13, <3>1, <3>2, <3>3 DEF OrderInv
  <2>15. StatusInv'
    <3>1. SUFFICES ASSUME disturbed' = {}
                   PROVE  IF InManualPart' THEN ManualStatus' ELSE AutomaticStatus'
      BY DEF StatusInv
    <3>2. InOrder' /\ ~InManualPart /\ "twice" \notin disturbed'
      BY <2>4, <2>12, <3>1, OrderOfDisturbances
    <3>3. CASE InManualPart'
      <4>1. row'.type = "ExtractionWithAnnotationJob" /\ row'.status = "ReadyForAnnotation"
        BY <2>2, <2>3, <3>2, <3>3 DEF InManualPart
      <4>2. manual' \in {"absent", "extraction", "Pending"}
        BY <1>3, <2>4, <3>2 DEF JobsInv, PartInv, TypesOK
      <4> QED
        BY <3>3, <4>1, <4>2 DEF ManualStatus
    <3>4. CASE ~InManualPart'
      <4>1. row'.status = report.status
        BY <2>2, <2>3, <2>5, <3>4
      <4>2. extraction' \in {"running", "done", "failed"}
            /\ (extraction' = "running" => row'.status = "InProgress")
            /\ (extraction' = "done" => row'.status = "Finished")
            /\ (extraction' = "failed" => row'.status = "Failed")
        BY <1>1, <2>10, <3>2, <4>1
      <4>3. row'.status = "Finished" => row'.type = "ExtractionJob"
        BY <2>1, <2>2, <2>3, <2>9, <3>2, <3>4, <4>1 DEF JobRowOK, JobTypes, InManualPart
      <4> QED
        BY <3>4, <4>2, <4>3 DEF AutomaticStatus
    <3> QED
      BY <3>3, <3>4
  <2> QED
    BY <2>6, <2>7, <2>8, <2>11, <2>14, <2>15 DEF JobsInv
<1> QED
  BY <1>2, <1>3

-----------------------------------------------------------------------------
(* The start of the manual part *)

\* The request of pipelines, where it waits for the start.
LEMMA WaitsOfPipelines ==
    ASSUME UsersConvert, JobsInv, NEW i \in Source, request[i] # NoRequest,
           request[i].at \in {"start", "starting", "started"}
    PROVE  /\ i = "pipelines" /\ i \notin User /\ report # NoCall /\ asked # {}
           /\ JobRequestOK("pipelines") /\ SeenOK("pipelines") /\ ~Owes("pipelines")
           /\ Present => InManualPart
<1>1. JobRequestOK(i) /\ SeenOK(i)
  BY DEF JobsInv, TypesOK, SeenInv
<1>2. i = "pipelines"
  BY <1>1 DEF JobRequestOK, UserRequestOK, Source
<1>3. i \notin User
  BY <1>2 DEF UsersConvert
<1>4. report # NoCall /\ asked # {}
  BY <1>2, WasAsked DEF JobsInv, ReportInv
<1>5. ~Owes("pipelines")
  BY <1>2 DEF Owes, At
<1>6. Present => InManualPart
  BY <1>2 DEF JobsInv, PartInv
<1> QED
  BY <1>1, <1>2, <1>3, <1>4, <1>5, <1>6

\* The status of a job does not change when a request that owed nothing does.
LEMMA ManualStatusStays ==
    ASSUME JobsInv, NEW i, OnlyOf(i), ~Owes(i), Present, InManualPart,
           UNCHANGED <<row, manual>>, disturbed \subseteq disturbed'
    PROVE  StatusInv'
<1>1. (Present' <=> Present) /\ (InManualPart' <=> InManualPart)
  BY DEF Present, InManualPart
<1>2. SUFFICES ASSUME disturbed' = {}
               PROVE  ManualStatus'
  BY <1>1 DEF StatusInv
<1>3. ManualStatus
  BY <1>2 DEF JobsInv, StatusInv
<1>4. RunsManual => RunsManual'
  BY OwedKept
<1>5. manual = "absent" => (CreatesManual => CreatesManual')
  BY OwedKept
<1>6. row.type = "AnnotationJob" => manual # "extraction"
  BY DEF JobsInv, PartInv
<1> QED
  BY <1>3, <1>4, <1>5, <1>6 DEF ManualStatus, JobsInv, TypesOK

\* The request of pipelines is over: it has been answered, or it failed.
LEMMA PipelinesAnsweredStep ==
    ASSUME UsersConvert, JobsInv, request["pipelines"] # NoRequest,
           request["pipelines"].at \in {"start", "starting", "started"},
           UNCHANGED <<row, extraction, manual, asked>>, disturbed \subseteq disturbed',
           OnlyOf("pipelines"), request'["pipelines"] = NoRequest, ReportOK',
           report'.status \in {"none", report.status},
           CallOK', call' \in {call, NoCall},
           Present /\ InOrder' => report' = NoCall
    PROVE  JobsInv'
<1>1. /\ "pipelines" \in Source /\ "pipelines" \notin User /\ report # NoCall
      /\ asked # {} /\ ~Owes("pipelines") /\ (Present => InManualPart)
  BY WaitsOfPipelines DEF Source
<1>2. (Present' <=> Present) /\ (InManualPart' <=> InManualPart) /\ RowGoesOn
  BY StaysGoesOn DEF Present, InManualPart, JobsInv
<1>3. TypesOK' /\ SeenInv'
  <2>1. ServicesGoOn
    BY DEF ServicesGoOn, JobsInv, TypesOK, Working
  <2>2. JobRequestOK("pipelines")' /\ SeenOK("pipelines")'
    BY DEF JobRequestOK, SeenOK
  <2> QED
    BY <1>1, <1>2, <2>1, <2>2, RequestsKept DEF JobsInv
<1>4. BeginOK'
  BY <1>1, BeginKept DEF JobsInv
<1>5. PartInv'
  BY <1>2 DEF JobsInv, PartInv
<1>6. ReportInv'
  BY <1>1, <1>2 DEF JobsInv, ReportInv
<1>7. OrderInv'
  <2>1. ManualWhenDone'
    BY <1>2 DEF JobsInv, OrderInv, ManualWhenDone
  <2>2. InOrder' => InOrder
    BY OrderOfDisturbances
  <2> QED
    BY <1>2, <2>1, <2>2 DEF JobsInv, OrderInv
<1>8. StatusInv'
  <2>1. CASE Present
    BY <1>1, <2>1, ManualStatusStays
  <2>2. CASE ~Present
    BY <1>2, <2>2 DEF StatusInv
  <2> QED
    BY <2>1, <2>2
<1> QED
  BY <1>3, <1>4, <1>5, <1>6, <1>7, <1>8 DEF JobsInv

\* The start of the manual part is answered, and the callback with it.
LEMMA StartedStep ==
    ASSUME UsersConvert, JobsInv, NEW i \in Source, Started(i)
    PROVE  JobsInv'
<1>1. /\ request[i] # NoRequest /\ request[i].at = "started"
      /\ UNCHANGED <<row, extraction, asked>>
  BY DEF Started, At
<1>2. i = "pipelines" /\ report # NoCall
  BY <1>1, WaitsOfPipelines
<1>3. PICK ok : ok = Present
  OBVIOUS
<1>4. Ends("pipelines", ok, {})
  BY <1>2, <1>3 DEF Started
<1>5. /\ OnlyOf("pipelines") /\ request'["pipelines"] = NoRequest
      /\ disturbed \subseteq disturbed' /\ UNCHANGED <<manual, call>> /\ ReportOK'
      /\ JobAnswered(ok)
  BY <1>2, <1>4, PipelinesEnds DEF JobsInv
<1>6. CallOK'
  BY <1>1, <1>2, <1>5 DEF JobsInv, TypesOK, CallOK, At
<1>7. report'.status \in {"none", report.status}
  BY <1>5 DEF JobAnswered, NoCall
<1>8. Present /\ InOrder' => report' = NoCall
  BY <1>3, <1>5 DEF JobAnswered, InOrder
<1> QED
  BY <1>1, <1>2, <1>5, <1>6, <1>7, <1>8, PipelinesAnsweredStep

\* A callback fails because the annotation service does not start the job.
LEMMA StartFailsStep ==
    ASSUME UsersConvert, JobsInv, NEW i \in Source, i \notin User, CallFails(i)
    PROVE  JobsInv'
<1>1. /\ request[i] # NoRequest /\ request' = [request EXCEPT ![i] = NoRequest]
      /\ UNCHANGED <<row, extraction, asked>> /\ disturbed \subseteq disturbed'
      /\ IF At(i, "starting") THEN call' = NoCall /\ UNCHANGED <<report, manual>>
         ELSE AnswerTo(i, FALSE)
      /\ request[i].at \in {"start", "starting", "started"} => "startFailed" \in disturbed'
      /\ GivesUp(i, FALSE) => "gaveUp" \in disturbed'
  BY DEF CallFails
<1>2. request[i].at \in {"start", "starting", "started"}
  BY <1>1 DEF JobsInv, TypesOK, JobRequestOK, Source
<1>3. i = "pipelines" /\ report # NoCall
  BY <1>1, <1>2, WaitsOfPipelines
<1>4. OnlyOf("pipelines") /\ request'["pipelines"] = NoRequest
  BY <1>1, <1>3, OnlyOfOne DEF JobsInv
<1>5. /\ manual' = manual /\ ReportOK' /\ report'.status \in {"none", report.status}
      /\ call' \in {call, NoCall} /\ (At(i, "starting") => call' = NoCall)
  <2>1. CASE At(i, "starting")
    BY <1>1, <2>1 DEF JobsInv, TypesOK, ReportOK
  <2>2. CASE ~At(i, "starting")
    <3>1. UNCHANGED <<manual, call>> /\ ReportOK' /\ JobAnswered(FALSE)
      BY <1>1, <1>3, <2>2, WebhookAnswered DEF JobsInv, TypesOK
    <3> QED
      BY <2>2, <3>1 DEF JobAnswered, NoCall
  <2> QED
    BY <2>1, <2>2
<1>6. CallOK'
  BY <1>3, <1>5 DEF JobsInv, TypesOK, CallOK, At
<1>7. ~InOrder'
  BY <1>1, <1>2 DEF InOrder
<1> QED
  BY <1>1, <1>2, <1>3, <1>4, <1>5, <1>6, <1>7, PipelinesAnsweredStep

-----------------------------------------------------------------------------
(* The callbacks of annotation *)

\* A callback begins, is refused, or ends: the row is as it was, and pipelines
\* may wait for it.
LEMMA CallStep ==
    ASSUME UsersConvert, JobsInv, UNCHANGED <<row, extraction, report, manual, asked>>,
           disturbed \subseteq disturbed',
           OnlyOf("pipelines"), JobRequestOK("pipelines")',
           \/ request'["pipelines"] = request["pipelines"]
           \/ /\ request["pipelines"] # NoRequest /\ request'["pipelines"] # NoRequest
              /\ request'["pipelines"].seen = request["pipelines"].seen
              /\ request'["pipelines"].op = request["pipelines"].op
              /\ request'["pipelines"].at \in {"starting", "started"},
           CallOK', call' # NoCall /\ Present => InManualPart
    PROVE  JobsInv'
<1>1. "pipelines" \in Source /\ ~Owes("pipelines") /\ SeenOK("pipelines")
      /\ JobRequestOK("pipelines") /\ "pipelines" \notin User
  BY DEF Source, JobsInv, TypesOK, SeenInv, JobRequestOK, Owes, At, UsersConvert
<1>2. (Present' <=> Present) /\ (InManualPart' <=> InManualPart) /\ RowGoesOn
  BY StaysGoesOn DEF Present, InManualPart, JobsInv
<1>3. TypesOK' /\ SeenInv'
  <2>1. ServicesGoOn
    BY StaysGoesOn DEF JobsInv
  <2>2. SeenOK("pipelines")'
    BY <1>1, <1>2 DEF SeenOK, Earlier
  <2> QED
    BY <1>1, <1>2, <2>1, <2>2, RequestsKept DEF JobsInv
<1>4. BeginOK'
  <2>1. CASE asked # {}
    BY <1>1, <2>1, BeginKept DEF JobsInv
  <2>2. CASE asked = {}
    <3>1. /\ ~Present /\ \A j \in Source : request[j] = NoRequest
          /\ manual = "absent"
      BY <2>2 DEF JobsInv, BeginOK, Present
    <3>2. call' = NoCall
      BY <3>1 DEF CallOK
    <3> QED
      BY <1>1, <2>2, <3>1, <3>2 DEF JobsInv, BeginOK, OnlyOf, Source
  <2> QED
    BY <2>1, <2>2
<1>5. PartInv'
  BY <1>2 DEF JobsInv, PartInv
<1>6. ReportInv'
  BY <1>2 DEF JobsInv, ReportInv
<1>7. OrderInv'
  <2>1. ManualWhenDone'
    BY <1>2 DEF JobsInv, OrderInv, ManualWhenDone
  <2>2. InOrder' => InOrder
    BY OrderOfDisturbances
  <2> QED
    BY <1>2, <2>1, <2>2 DEF JobsInv, OrderInv
<1>8. StatusInv'
  <2>1. CASE Present /\ InManualPart
    BY <1>1, <2>1, ManualStatusStays
  <2>2. CASE ~Present
    BY <1>2, <2>2 DEF StatusInv
  <2>3. CASE Present /\ ~InManualPart
    <3>1. CreatesExtraction => CreatesExtraction'
      BY <1>1, OwedKept
    <3>2. RunsExtraction => RunsExtraction'
      BY <1>1, OwedKept
    <3>3. AutomaticStatus => AutomaticStatus'
      BY <3>1, <3>2 DEF AutomaticStatus, JobsInv, TypesOK
    <3> QED
      BY <1>2, <2>3, <3>3 DEF JobsInv, StatusInv
  <2> QED
    BY <2>1, <2>2, <2>3
<1> QED
  BY <1>3, <1>4, <1>5, <1>6, <1>7, <1>8 DEF JobsInv

\* The fields of a callback of the annotation service.
LEMMA CallRecord ==
    ASSUME NEW status, NEW for, NEW at, NEW c,
           c = [status |-> status, for |-> for, at |-> at]
    PROVE  /\ c = [status |-> c.status, for |-> c.for, at |-> c.at]
           /\ c.status = status /\ c.for = for /\ c.at = at
OBVIOUS

\* A manager starts the manual part when its time has come, or its last task is
\* finished.
LEMMA CallBeginsStep ==
    ASSUME UsersConvert, JobsInv,
           (ManagerStarts /\ "early" \notin disturbed') \/ ManualFinishes
    PROVE  JobsInv'
<1>1. PICK status, c :
          /\ c = [status |-> status, for |-> "manager", at |-> "send"]
          /\ status \in {"InProgress", "Finished"}
          /\ call' = c /\ call = NoCall
          /\ manual \in {"Pending", "InProgress", "Finished"}
          /\ UNCHANGED <<row, request, extraction, report, manual, asked, disturbed>>
          /\ Present => InManualPart
  <2>1. ASSUME ManagerStarts, "early" \notin disturbed'
        PROVE  /\ manual \in {"Pending", "InProgress", "Finished"}
               /\ disturbed' = disturbed /\ (Present => InManualPart)
    <3>1. /\ manual \in {"Pending", "InProgress", "Finished"}
          /\ row.type = "ExtractionWithAnnotationJob" => row.mode = "Manual"
          /\ disturbed' = disturbed
      BY <2>1 DEF ManagerStarts, HasTasks, JobsInv, TypesOK
    <3>2. Present => row.type # "ExtractionJob"
      BY <3>1 DEF JobsInv, PartInv, InManualPart
    <3>3. Present => row.type \in JobTypes
      BY DEF JobsInv, TypesOK, JobRowOK, Present
    <3> QED
      BY <3>1, <3>2, <3>3 DEF JobTypes, InManualPart
  <2>2. ASSUME ManualFinishes
        PROVE  Present => InManualPart
    BY <2>2 DEF ManualFinishes, JobsInv, PartInv
  <2> QED
    BY <2>1, <2>2 DEF ManagerStarts, ManualFinishes, Calls
<1>2. CallOK'
  BY <1>1, CallRecord DEF CallOK
<1>3. OnlyOf("pipelines") /\ JobRequestOK("pipelines")'
  BY <1>1 DEF OnlyOf, JobsInv, TypesOK, JobRequestOK, Source
<1> QED
  BY <1>1, <1>2, <1>3, CallStep

\* The annotation service is asked to start the job, and calls back first.
LEMMA StartArrivesStep ==
    ASSUME UsersConvert, JobsInv, NEW i \in Source, StartArrives(i)
    PROVE  JobsInv'
<1>1. /\ request[i] # NoRequest /\ request[i].at = "start"
      /\ request' = [request EXCEPT ![i].at = "starting"]
      /\ call' = [status |-> "InProgress", for |-> i, at |-> "send"]
      /\ manual \notin {"absent", "extraction"}
      /\ UNCHANGED <<row, extraction, report, manual, asked, disturbed>>
  BY DEF StartArrives, At, Calls, HasTasks
<1>2. /\ i = "pipelines" /\ JobRequestOK("pipelines") /\ (Present => InManualPart)
  BY <1>1, WaitsOfPipelines
<1>3. PICK op, seen, change :
          request[i] = [op |-> op, at |-> "start", seen |-> seen, change |-> change]
  BY <1>1, <1>2 DEF JobRequestOK
<1>4. PICK q : q = [op |-> op, at |-> "starting", seen |-> seen, change |-> change]
  OBVIOUS
<1>5. request' = [request EXCEPT ![i] = q]
  <2>1. [request[i] EXCEPT !.at = "starting"] = q
    BY <1>3, <1>4
  <2> QED
    BY <1>1, <2>1
<1>6. OnlyOf("pipelines") /\ request'["pipelines"] = q
  BY <1>2, <1>5, OnlyOfOne DEF JobsInv
<1>7. /\ q = [op |-> q.op, at |-> q.at, seen |-> q.seen, change |-> q.change]
      /\ q.op = op /\ q.at = "starting" /\ q.seen = seen
      /\ request[i].op = op /\ request[i].seen = seen
  BY <1>3, <1>4
<1>8. JobRequestOK("pipelines")' /\ q # NoRequest
  BY <1>1, <1>2, <1>6, <1>7 DEF JobRequestOK, NoRequest
<1>9. CallOK'
  <2>1. At("pipelines", "starting")'
    BY <1>6, <1>7, <1>8 DEF At
  <2>2. PICK c : c = [status |-> "InProgress", for |-> "pipelines", at |-> "send"]
    OBVIOUS
  <2>3. call' = c
    BY <1>1, <1>2, <2>2
  <2>4. manual' \in {"Pending", "InProgress", "Finished"}
    BY <1>1 DEF JobsInv, TypesOK
  <2> QED
    BY <2>1, <2>2, <2>3, <2>4, CallRecord DEF CallOK
<1> QED
  BY <1>1, <1>2, <1>6, <1>7, <1>8, <1>9, CallStep

\* The callback of annotation is over, and the start that waited for it.
LEMMA CallEndsStep ==
    ASSUME UsersConvert, JobsInv, CallEnds
    PROVE  JobsInv'
<1>1. /\ call # NoCall /\ call' = NoCall /\ CallOK'
      /\ UNCHANGED <<row, extraction, report, manual, asked, disturbed>>
  BY DEF CallEnds, CallOK
<1>2. CASE call.for = "manager"
  <2>1. OnlyOf("pipelines") /\ JobRequestOK("pipelines")' /\ request' = request
    BY <1>2 DEF CallEnds, OnlyOf, JobsInv, TypesOK, JobRequestOK, Source
  <2> QED
    BY <1>1, <2>1, CallStep
<1>3. CASE call.for # "manager"
  <2>1. /\ "pipelines" \in Source /\ request["pipelines"] # NoRequest
        /\ request["pipelines"].at = "starting" /\ JobRequestOK("pipelines")
        /\ request' = [request EXCEPT !["pipelines"].at = "started"]
    BY <1>1, <1>3 DEF CallEnds, JobsInv, TypesOK, CallOK, At, Source
  <2>2. PICK op, seen, change : request["pipelines"] =
            [op |-> op, at |-> "starting", seen |-> seen, change |-> change]
    BY <2>1 DEF JobRequestOK
  <2>3. PICK q : q = [op |-> op, at |-> "started", seen |-> seen, change |-> change]
    OBVIOUS
  <2>4. request' = [request EXCEPT !["pipelines"] = q]
    <3>1. [request["pipelines"] EXCEPT !.at = "started"] = q
      BY <2>2, <2>3
    <3> QED
      BY <2>1, <3>1
  <2>5. OnlyOf("pipelines") /\ request'["pipelines"] = q
    BY <2>1, <2>4, OnlyOfOne DEF JobsInv
  <2>6. /\ q = [op |-> q.op, at |-> q.at, seen |-> q.seen, change |-> q.change]
        /\ q.op = op /\ q.at = "started" /\ q.seen = seen
        /\ request["pipelines"].op = op /\ request["pipelines"].seen = seen
    BY <2>2, <2>3
  <2>7. JobRequestOK("pipelines")' /\ q # NoRequest
    BY <2>1, <2>5, <2>6 DEF JobRequestOK, NoRequest
  <2> QED
    BY <1>1, <2>1, <2>5, <2>6, <2>7, CallStep
<1> QED
  BY <1>2, <1>3

\* An answer to a callback: its record is kept, with what became of it.
LEMMA CallAnswered ==
    ASSUME CallOK, call # NoCall, NEW ok, AnswerTo("annotation", ok),
           request'["pipelines"] = request["pipelines"]
    PROVE  /\ CallOK' /\ call' # NoCall /\ report' = report
           /\ IF ok THEN manual' = call.status ELSE manual' = manual
<1>1. PICK status, for, at :
          /\ call = [status |-> status, for |-> for, at |-> at]
          /\ status \in {"InProgress", "Finished"}
          /\ for # "manager" => for = "pipelines" /\ At("pipelines", "starting")
          /\ manual \in {"Pending", "InProgress", "Finished"}
  BY DEF CallOK
<1>2. /\ call' = [call EXCEPT !.at = IF ok THEN "done" ELSE "refused"]
      /\ manual' = (IF ok THEN call.status ELSE manual)
      /\ report' = report
  BY DEF AnswerTo
<1>3. PICK a : a = IF ok THEN "done" ELSE "refused"
  OBVIOUS
<1>4. PICK c : c = [status |-> status, for |-> for, at |-> a]
  OBVIOUS
<1>5. call' = c
  BY <1>1, <1>2, <1>3, <1>4
<1>6. c = [status |-> c.status, for |-> c.for, at |-> c.at]
      /\ c.status = status /\ c.for = for /\ c.at = a
  BY <1>4, CallRecord
<1>7. call.status = status
  BY <1>1
<1>8. for # "manager" => At("pipelines", "starting")'
  BY <1>1 DEF At
<1>9. CallOK'
  BY <1>1, <1>2, <1>3, <1>5, <1>6, <1>7, <1>8 DEF CallOK
<1>10. c # NoCall
  BY <1>1, <1>6 DEF NoCall
<1> QED
  BY <1>2, <1>5, <1>7, <1>9, <1>10

\* The callback of annotation fails on its way.
LEMMA SendCallFailsStep ==
    ASSUME UsersConvert, JobsInv, SendCallFails
    PROVE  JobsInv'
<1>1. /\ call # NoCall /\ AnswerTo("annotation", FALSE)
      /\ UNCHANGED <<row, request, extraction, asked, disturbed>>
  BY DEF SendCallFails
<1>2. CallOK' /\ UNCHANGED <<report, manual>>
  BY <1>1, CallAnswered DEF JobsInv, TypesOK
<1>3. OnlyOf("pipelines") /\ JobRequestOK("pipelines")'
  BY <1>1 DEF OnlyOf, JobsInv, TypesOK, JobRequestOK, Source
<1>4. Present => InManualPart
  BY <1>1 DEF JobsInv, PartInv
<1> QED
  BY <1>1, <1>2, <1>3, <1>4, CallStep

\* A callback is received: the status of the row and that of the service are
\* the same from then on, unless the answer is lost.
LEMMA SendCallStep ==
    ASSUME UsersConvert, JobsInv, SendCall
    PROVE  JobsInv'
<1>1. /\ call # NoCall /\ request["annotation"] = NoRequest /\ CallOK
      /\ call.status \in {"InProgress", "Finished"} /\ manual \in Working
      /\ PutStarts("annotation", StatusChange(call.status))
      /\ UNCHANGED <<extraction, asked>>
      /\ {"annotation", "pipelines"} \subseteq Source
      /\ Present => InManualPart
  BY DEF SendCall, JobsInv, TypesOK, CallOK, PartInv, Source, Working
<1>2. ASSUME NEW ok, Ends("annotation", ok, {})
      PROVE  /\ OnlyOf("annotation") /\ request'["annotation"] = NoRequest
             /\ request'["pipelines"] = request["pipelines"]
             /\ disturbed \subseteq disturbed' /\ report' = report
             /\ CallOK' /\ call' # NoCall
             /\ manual' \in {manual, call.status}
             /\ manual' = call.status \/ ~ok \/ "lost" \in disturbed'
             /\ ~ok => manual' = manual
  <2>1. /\ request' = [request EXCEPT !["annotation"] = NoRequest]
        /\ disturbed \subseteq disturbed'
        /\ \/ AnswerTo("annotation", ok)
           \/ ok /\ AnswerTo("annotation", FALSE) /\ "lost" \in disturbed'
    BY <1>2 DEF Ends
  <2>2. OnlyOf("annotation") /\ request'["annotation"] = NoRequest
        /\ request'["pipelines"] = request["pipelines"]
    BY <1>1, <2>1, OnlyOfOne DEF JobsInv, OnlyOf
  <2>3. CASE AnswerTo("annotation", ok)
    BY <1>1, <2>1, <2>2, <2>3, CallAnswered
  <2>4. CASE ok /\ AnswerTo("annotation", FALSE) /\ "lost" \in disturbed'
    BY <1>1, <2>1, <2>2, <2>4, CallAnswered
  <2> QED
    BY <2>1, <2>3, <2>4
<1>3. ASSUME OnlyOf("annotation"), request'["annotation"] = NoRequest, ReportOK', CallOK',
             RowGoesOn, manual' \in {manual, call.status}
      PROVE  TypesOK' /\ SeenInv' /\ BeginOK'
  <2>1. ServicesGoOn
    BY <1>1, <1>3 DEF ServicesGoOn, Working, JobsInv, TypesOK
  <2>2. JobRequestOK("annotation")' /\ SeenOK("annotation")'
    BY <1>3 DEF JobRequestOK, SeenOK
  <2>3. BeginOK'
    BY <1>1, <1>3, BeginKept, WasAsked DEF JobsInv, UsersConvert
  <2> QED
    BY <1>1, <1>3, <2>1, <2>2, <2>3, RequestsKept DEF JobsInv
<1>4. CASE ~Present
  <2>1. row' = row /\ Ends("annotation", FALSE, {})
    BY <1>1, <1>4 DEF PutStarts
  <2>2. RowGoesOn /\ ~Present' /\ report' = report /\ ReportOK' /\ UNCHANGED extraction
        /\ request'["pipelines"] = request["pipelines"] /\ disturbed \subseteq disturbed'
    BY <1>1, <1>2, <1>4, <2>1, StaysGoesOn DEF Present, JobsInv, TypesOK, ReportOK
  <2>3. TypesOK' /\ SeenInv' /\ BeginOK'
    BY <1>2, <1>3, <2>1, <2>2
  <2>4. ReportInv'
    BY <2>2 DEF JobsInv, ReportInv
  <2> QED
    BY <2>2, <2>3, <2>4 DEF JobsInv, PartInv, OrderInv, ManualWhenDone, StatusInv
<1>5. CASE Present
  <2>1. PICK type, mode, auto, status :
            row = [type |-> type, mode |-> mode, auto |-> auto, status |-> status]
            /\ JobRowOK(row)
    BY <1>5 DEF JobsInv, TypesOK, Present, JobRowOK
  <2>2. PICK seen, ch, s : seen = row /\ ch = StatusChange(s) /\ s = call.status
    OBVIOUS
  <2>3. ch = [type |-> "none", mode |-> "none", status |-> s, fields |-> "none"]
        /\ ch.type = "none" /\ ch.mode = "none" /\ ch.status = s /\ ch.fields = "none"
        /\ s # "none"
    BY <1>1, <2>2 DEF StatusChange, NoChange
  <2>4. ~FinishesAutomaticPart(seen, ch) /\ ~Converts(seen, ch)
    BY <1>1, <1>5, <2>2, <2>3 DEF FinishesAutomaticPart, Converts, InManualPart
  <2>5. PutWrites("annotation", seen, ch)
    <3>1. PutStarts("annotation", ch) /\ PutAllowed(row, ch)
      BY <1>1, <2>2, <2>3 DEF PutAllowed
    <3> QED
      BY <1>5, <2>2, <2>3, <3>1 DEF PutStarts, PutTells
  <2>6. row' = WriteRow(seen, Effective(seen, ch)) /\ Ends("annotation", TRUE, {})
    BY <1>5, <2>3, <2>4, <2>5 DEF PutWrites, ConvertsLate
  <2>7. row' = [type |-> type, mode |-> mode, auto |-> auto, status |-> s]
    <3>1. Effective(seen, ch) = ch
      BY <2>4 DEF Effective
    <3>2. WriteRow(row, ch) = [type |-> type, mode |-> mode, auto |-> auto, status |-> s]
      BY <2>1, <2>3, RowAsRead
    <3> QED
      BY <2>2, <2>6, <3>1, <3>2
  <2>8. /\ row'.type = row.type /\ row'.mode = row.mode /\ row'.status = s
        /\ row' = [type |-> row'.type, mode |-> row'.mode, auto |-> row'.auto,
                   status |-> row'.status]
    BY <2>1, <2>7
  <2>9. RowGoesOn /\ Present' /\ InManualPart' /\ InManualPart
    <3>1. JobRowOK(row') /\ Present'
      BY <1>1, <1>5, <2>1, <2>2, <2>8 DEF JobRowOK, Present, Absent, JobTypes, InManualPart
    <3> QED
      BY <1>1, <1>5, <2>2, <2>8, <3>1 DEF RowGoesOn, InManualPart
  <2>10. /\ OnlyOf("annotation") /\ request'["annotation"] = NoRequest
         /\ request'["pipelines"] = request["pipelines"]
         /\ disturbed \subseteq disturbed' /\ report' = report
         /\ CallOK' /\ call' # NoCall
         /\ manual' \in {manual, call.status}
         /\ manual' = s \/ "lost" \in disturbed'
    BY <1>2, <2>2, <2>6
  <2>11. ReportOK'
    BY <2>10 DEF JobsInv, TypesOK, ReportOK
  <2>12. TypesOK' /\ SeenInv' /\ BeginOK'
    BY <1>3, <2>9, <2>10, <2>11
  <2>13. manual' \in Working
    BY <1>1, <2>10 DEF Working
  <2>14. row'.type # "ExtractionJob"
    BY <2>9 DEF InManualPart
  <2>15. PartInv'
    BY <2>9, <2>13, <2>14 DEF PartInv, Working
  <2>16. ReportInv'
    BY <1>1, <1>5, <2>8, <2>10, <2>14 DEF JobsInv, ReportInv
  <2>17. OrderInv'
    <3>1. ManualWhenDone'
      BY <1>1, <1>5, <2>8, <2>10 DEF JobsInv, OrderInv, ManualWhenDone
    <3>2. InOrder' => InOrder /\ manual' = s
      BY <2>10, OrderOfDisturbances
    <3> QED
      BY <1>5, <2>8, <2>9, <2>10, <2>14, <3>1, <3>2 DEF JobsInv, OrderInv
  <2>18. StatusInv'
    <3>1. SUFFICES ASSUME disturbed' = {}
                   PROVE  ManualStatus'
      BY <2>9 DEF StatusInv
    <3>2. manual' = s
      BY <2>10, <3>1
    <3> QED
      BY <1>1, <2>2, <2>8, <3>2 DEF ManualStatus
  <2> QED
    BY <2>12, <2>15, <2>16, <2>17, <2>18 DEF JobsInv
<1> QED
  BY <1>4, <1>5

-----------------------------------------------------------------------------
(* Theorems *)

\* The invariant holds in the beginning, when there is no job.
LEMMA JobsInit ==
    ASSUME UsersConvert, InitJobs
    PROVE  JobsInv
<1>1. /\ row = Absent /\ \A i \in Source : request[i] = NoRequest
      /\ DOMAIN request = Source /\ "pipelines" \in Source
      /\ extraction = "none" /\ manual = "absent" /\ report = NoCall /\ call = NoCall
      /\ asked = {} /\ ~Present
  BY DEF InitJobs, Present, Source
<1>2. TypesOK
  BY <1>1 DEF TypesOK, JobRequestOK, ReportOK, CallOK
<1>3. BeginOK
  BY <1>1 DEF BeginOK, Source
<1>4. SeenInv
  BY <1>1 DEF SeenInv, SeenOK
<1>5. ReportInv
  <2>1. report.status = "none"
    BY <1>1 DEF NoCall
  <2> QED
    BY <1>1, <2>1 DEF ReportInv
<1>6. PartInv /\ OrderInv /\ StatusInv
  BY <1>1 DEF PartInv, OrderInv, ManualWhenDone, StatusInv
<1> QED
  BY <1>2, <1>3, <1>4, <1>5, <1>6 DEF JobsInv

\* It holds after every step but an early start, one lemma for each kind of
\* step, and while nothing happens.
LEMMA JobsNext ==
    ASSUME UsersConvert, JobsInv, [NextJobs]_jobsVars, "early" \notin disturbed'
    PROVE  JobsInv'
<1>1. ASSUME NEW i \in User, NEW k \in Jobs,
             CreateExtraction(i, k) \/ CreateAnnotation(i, k) \/ CreateCombined(i, k)
      PROVE  JobsInv'
  BY <1>1, CreateStep
<1>2. ASSUME NEW i \in User, NEW c \in Changes, ChangeJob(i, c)
      PROVE  JobsInv'
  BY <1>2, PutStep
<1>3. ASSUME NEW i \in User, Run(i) \/ Delete(i)
      PROVE  JobsInv'
  BY <1>3, RunStep, DeleteStep
<1>4. ASSUME NEW i \in Source, Executed(i) \/ Posted(i) \/ Linked(i)
      PROVE  JobsInv'
  BY <1>4, ExecutedStep, PostedStep
<1>5. ASSUME NEW i \in Source, Unlinked(i) \/ Patched(i)
      PROVE  JobsInv'
  BY <1>5, PutGoesOnStep
<1>6. ASSUME NEW i \in Source, Accept(i) \/ PostArrives(i) \/ StartArrives(i)
      PROVE  JobsInv'
  BY <1>6, AcceptStep, PostArrivesStep, StartArrivesStep
<1>7. ASSUME NEW i \in Source, Started(i)
      PROVE  JobsInv'
  BY <1>7, StartedStep
<1>8. ASSUME NEW i \in Source, CallFails(i)
      PROVE  JobsInv'
  BY <1>8, UserCallFailsStep, StartFailsStep
<1>9. CASE ExtractionStarts \/ ExtractionEnds
  BY <1>9, ReportsStep
<1>10. CASE SendReport
  BY <1>10, SendReportStep
<1>11. CASE ReportFails
  BY <1>11, ReportFailsStep
<1>12. CASE ManagerStarts \/ ManualFinishes
  BY <1>12, CallBeginsStep
<1>13. CASE SendCall
  BY <1>13, SendCallStep
<1>14. CASE SendCallFails
  BY <1>14, SendCallFailsStep
<1>15. CASE CallEnds
  BY <1>15, CallEndsStep
<1>16. CASE UNCHANGED jobsVars
  <2>1. UNCHANGED <<row, request, extraction, report, manual, call, asked, disturbed>>
    BY <1>16 DEF jobsVars
  <2>2. OnlyOf("pipelines") /\ JobRequestOK("pipelines")'
    BY <2>1 DEF OnlyOf, JobsInv, TypesOK, JobRequestOK, Source
  <2>3. CallOK'
    BY <2>1 DEF JobsInv, TypesOK, CallOK, At
  <2>4. call # NoCall /\ Present => InManualPart
    BY DEF JobsInv, PartInv
  <2> QED
    BY <2>1, <2>2, <2>3, <2>4, CallStep
<1>17. ~StartsWithin /\ ~StartedWithin
  BY DEF StartsWithin, StartedWithin, At, JobsInv, TypesOK, JobRequestOK, Source
<1>18. CASE NextJobs
  BY <1>18, <1>1, <1>2, <1>3, <1>4, <1>5, <1>6, <1>7, <1>8, <1>9, <1>10, <1>11, <1>12,
     <1>13, <1>14, <1>15, <1>17 DEF NextJobs
<1> QED
  BY <1>16, <1>18

\* What the history of a job has is not forgotten.
LEMMA DisturbedStays ==
    ASSUME [NextJobs]_jobsVars
    PROVE  disturbed \subseteq disturbed'
<1>1. ASSUME NEW i, NEW r, NEW d, Moves(i, r, d)
      PROVE  disturbed \subseteq disturbed'
  BY <1>1 DEF Moves
<1>2. ASSUME NEW i, NEW ok, NEW d, Ends(i, ok, d)
      PROVE  disturbed \subseteq disturbed'
  BY <1>2 DEF Ends
<1>3. ASSUME NEW i, NEW r, Proceeds(i, r)
      PROVE  disturbed \subseteq disturbed'
  BY <1>1, <1>3 DEF Proceeds
<1>4. ASSUME NEW i, NEW seen, NEW ch, PutWrites(i, seen, ch)
      PROVE  disturbed \subseteq disturbed'
  BY <1>1, <1>2, <1>3, <1>4 DEF PutWrites
<1>5. ASSUME NEW i, NEW seen, NEW ch, PutTells(i, seen, ch)
      PROVE  disturbed \subseteq disturbed'
  BY <1>3, <1>4, <1>5 DEF PutTells
<1>6. ASSUME NEW i, NEW ch, PutStarts(i, ch)
      PROVE  disturbed \subseteq disturbed'
  BY <1>2, <1>3, <1>5, <1>6 DEF PutStarts
<1>7. ASSUME NEW i, NEW k,
             CreateExtraction(i, k) \/ CreateAnnotation(i, k) \/ CreateCombined(i, k)
      PROVE  disturbed \subseteq disturbed'
  BY <1>3, <1>7 DEF CreateExtraction, CreateAnnotation, CreateCombined, Draft,
                    RunExtraction, RunAnnotation
<1>8. ASSUME NEW i, NEW c, ChangeJob(i, c)
      PROVE  disturbed \subseteq disturbed'
  BY <1>6, <1>8 DEF ChangeJob
<1>9. ASSUME NEW i, Run(i) \/ Delete(i)
      PROVE  disturbed \subseteq disturbed'
  BY <1>3, <1>9 DEF Run, Delete, RunExtraction, RunAnnotation
<1>10. ASSUME NEW i, Executed(i) \/ Posted(i)
       PROVE  disturbed \subseteq disturbed'
  BY <1>2, <1>3, <1>10 DEF Executed, Posted, RunEnds
<1>11. ASSUME NEW i, Unlinked(i) \/ Patched(i) \/ Started(i) \/ Linked(i)
       PROVE  disturbed \subseteq disturbed'
  BY <1>2, <1>4, <1>5, <1>11 DEF Unlinked, Patched, Started, Linked
<1>12. ASSUME NEW i, CallFails(i)
       PROVE  disturbed \subseteq disturbed'
  BY <1>12 DEF CallFails
<1>13. ASSUME NEW i, Accept(i) \/ PostArrives(i) \/ StartArrives(i)
       PROVE  disturbed \subseteq disturbed'
  BY <1>13 DEF Accept, PostArrives, StartArrives
<1>14. CASE ExtractionStarts \/ ExtractionEnds \/ ReportFails \/ ManagerStarts
            \/ ManualFinishes \/ StartedWithin \/ SendCallFails \/ CallEnds
  BY <1>14 DEF ExtractionStarts, ExtractionEnds, Reports, ReportFails, ManagerStarts,
               ManualFinishes, StartedWithin, SendCallFails, CallEnds
<1>15. CASE SendReport \/ SendCall \/ StartsWithin
  BY <1>3, <1>6, <1>15 DEF SendReport, SendCall, StartsWithin, Waits
<1>16. CASE UNCHANGED jobsVars
  BY <1>16 DEF jobsVars
<1> QED
  BY <1>7, <1>8, <1>9, <1>10, <1>11, <1>12, <1>13, <1>14, <1>15, <1>16 DEF NextJobs

\* The manual part of a job was started before its time, or the job is in order.
JobsInOrder == "early" \in disturbed \/ JobsInv

\* What a request, the services and the row are to each other at every moment,
\* as long as users change the type of a job only to convert it, and until a
\* manager starts the manual part of a job in its automatic one: nothing in
\* start_job keeps him from that.
THEOREM JobsAreInOrder ==
    ASSUME UsersConvert
    PROVE  JobsSpec => []JobsInOrder
<1>1. InitJobs => JobsInOrder
  BY JobsInit DEF JobsInOrder
<1>2. JobsInOrder /\ [NextJobs]_jobsVars => JobsInOrder'
  <2>1. SUFFICES ASSUME JobsInOrder, [NextJobs]_jobsVars, "early" \notin disturbed'
                 PROVE  JobsInv'
    BY DEF JobsInOrder
  <2>2. JobsInv
    BY <2>1, DisturbedStays DEF JobsInOrder
  <2> QED
    BY <2>1, <2>2, JobsNext
<1> QED
  BY <1>1, <1>2, PTL DEF JobsSpec

\* Neither the end of the automatic part of a job nor a request that overlaps
\* with it finishes a job that has a manual part (change_job), with the
\* exceptions FinishedMeansAnnotated names, an early start among them.
THEOREM FinishedJobsAreAnnotated ==
    ASSUME UsersConvert
    PROVE  JobsSpec => []FinishedMeansAnnotated
<1>1. JobsInOrder => FinishedMeansAnnotated
  BY DEF JobsInOrder, JobsInv, OrderInv, InOrder, FinishedMeansAnnotated
<1> QED
  BY <1>1, JobsAreInOrder, PTL

\* A job with both parts is in the manual one only after its extraction, for
\* any number of users whose requests overlap, unless it was started early,
\* converted, or extracted twice.
THEOREM ManualFollowsExtraction ==
    ASSUME UsersConvert
    PROVE  JobsSpec => []ManualAfterExtraction
<1>1. JobsInOrder => ManualAfterExtraction
  BY DEF JobsInOrder, JobsInv, OrderInv, ManualWhenDone, ManualAfterExtraction
<1> QED
  BY <1>1, JobsAreInOrder, PTL

\* When nothing is under way the status of a job is that of the last part the
\* services have reported, for any number of users whose requests overlap, as
\* long as nothing of what the history notes has happened.
THEOREM StatusesSettle ==
    ASSUME UsersConvert
    PROVE  JobsSpec => []StatusSettles
<1>1. JobsInOrder => StatusSettles
  <2>1. SUFFICES ASSUME JobsInOrder, Present, JobsQuiet, disturbed = {}
                 PROVE  row.status \in SettledStatus
    BY DEF StatusSettles
  <2>2. /\ ~CreatesExtraction /\ ~RunsExtraction /\ ~CreatesManual /\ ~RunsManual
        /\ report = NoCall
    BY <2>1 DEF JobsQuiet, Source, CreatesExtraction, RunsExtraction, CreatesManual,
                RunsManual, At
  <2>3. /\ JobRowOK(row)
        /\ extraction \in {"none", "accepted", "running", "done", "failed"}
        /\ manual \in {"absent", "extraction", "Pending", "InProgress", "Finished"}
        /\ IF InManualPart THEN ManualStatus ELSE AutomaticStatus
    BY <2>1 DEF JobsInOrder, JobsInv, TypesOK, StatusInv, Present
  <2>4. CASE InManualPart
    <3>1. row.type = "AnnotationJob" \/ extraction = "done"
      BY <2>1, <2>4 DEF JobsInOrder, JobsInv, OrderInv, ManualWhenDone, InManualPart
    <3>2. row.type # "ExtractionJob"
      BY <2>4 DEF InManualPart
    <3>3. row.type = "AnnotationJob" => manual # "extraction"
      BY <2>1 DEF JobsInOrder, JobsInv, PartInv
    <3> QED
      BY <2>2, <2>3, <2>4, <3>1, <3>2, <3>3 DEF ManualStatus, SettledStatus
  <2>5. CASE ~InManualPart
    <3>1. row.status = ExtractionStatus
      BY <2>2, <2>3, <2>5 DEF AutomaticStatus, ExtractionStatus
    <3>2. \/ row.type = "ExtractionJob"
          \/ row.type = "ExtractionWithAnnotationJob" /\ extraction # "done"
      BY <2>2, <2>3, <2>5 DEF AutomaticStatus, InManualPart, JobRowOK, JobTypes
    <3> QED
      BY <3>1, <3>2 DEF SettledStatus
  <2> QED
    BY <2>4, <2>5
<1> QED
  BY <1>1, JobsAreInOrder, PTL
=============================================================================
