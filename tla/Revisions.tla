------------------------------- MODULE Revisions -------------------------------
(***************************************************************************)
(* Revisions of the annotation of one file in one job (annotation/         *)
(* annotations/main.py, resources.py).  A save names the revision it is    *)
(* based on; nothing is locked between the reads of a request, the commit  *)
(* of its row, the upload of its pages and that of the manifest, and the   *)
(* saves of users and pipelines interleave.                                *)
(*                                                                         *)
(* The id of a revision is a hash of its base's id and of its content: it  *)
(* is the sequence of the contents from the first base on.  The hash that  *)
(* names a page is its number and content.                                 *)
(***************************************************************************)
EXTENDS Naturals, FiniteSets, SequencesExt

CONSTANTS
    RevUser,     \* users, each with a task
    RevTask,     \* their tasks: [pages, validation]
    RevPage,     \* pages of the file
    RevSession,  \* concurrent requests
    UserSaves,   \* bodies of each user's saves: [pages, validated, failed, categories]
    PipelineSaves, \* those of pipelines
    MaxSaves,    \* bound on saves
    RevFaults,   \* kinds of faults that may happen: "assets", the call for the
                 \* file's path fails; "s3", an upload fails; "crash"
    MaxRevFaults \* bound on how many do

VARIABLES
    extensive,    \* whether the job is one of extensive coverage
    docs,         \* rows of annotated_docs
    started,      \* users whose task has been in progress
    finished,     \* those whose task is finished
    objects,      \* pages in the object storage
    manifest,     \* the manifest in the object storage
    saveRequest,  \* the request of each session, or NoSave
    clock,        \* transactions begun
    saves,        \* saves asked for
    crossing,     \* history: saves have overlapped
    unstored,     \* history: pages whose upload did not happen
    brought,      \* history: pages that revisions have from one not their base
    snapshots,    \* history: for each view, what it shows after each save
    refused,      \* history: a save was refused at the commit
    revFaults     \* number of faults that happened

revisionsVars == <<extensive, docs, started, finished, objects, manifest, saveRequest, clock,
                   saves, crossing, unstored, brought, snapshots, refused, revFaults>>

NoSave == [at |-> "none"]
NoRevision == <<>>
NoPages == [p \in {} |-> "none"]

-----------------------------------------------------------------------------
(* Reading revisions *)

\* order_by(date)
ByDate(rows) == SetToSortSeq(rows, LAMBDA d, e : d.date < e.date)

Annotates(d, p) == p \in DOMAIN d.pages
Touches(d, p) == Annotates(d, p) \/ p \in d.validated \/ p \in d.failed

LastOf(seq, Test(_)) == seq[Max({i \in DOMAIN seq : Test(seq[i])})]

\* The status a revision gives to a page; of several the last in this order.
StatusIn(d, p) ==
    IF p \in d.failed THEN "failed" ELSE IF p \in d.validated THEN "validated"
    ELSE "annotated"

\* accumulate_pages_info: what the revisions, in order, make of the pages: the
\* last annotation of each, and the last status of each.
Accumulate(seq, only, unique) ==
    LET among == IF only = {} THEN RevPage ELSE only
        touched == {p \in among : \E i \in DOMAIN seq : Touches(seq[i], p)}
        status(p) == StatusIn(LastOf(seq, LAMBDA d : Touches(d, p)), p)
        annotated == {p \in among : \E i \in DOMAIN seq : Annotates(seq[i], p)}
        shown == IF unique THEN {p \in touched : status(p) = "annotated"} ELSE annotated
    IN  [annotated |-> [p \in shown |-> LastOf(seq, LAMBDA d : Annotates(d, p)).pages[p]],
         validated |-> {p \in touched : status(p) = "validated"},
         failed |-> {p \in touched : status(p) = "failed"}]

\* The revisions a user sees: in a job of extensive coverage the condition is
\* user IN (user, NULL), which no row of a pipeline fulfils.
Seen(rows, u) == IF extensive THEN {d \in rows : d.user = u} ELSE rows

\* GET /{job}/{file}/{revision}: up to a revision, or nothing when it is not there.
UpTo(rows, u, id) ==
    LET seq == ByDate(Seen(rows, u))
        stop == {i \in DOMAIN seq : seq[i].id = id}
    IN  IF stop = {} THEN Accumulate(<<>>, {}, FALSE)
        ELSE Accumulate(SubSeq(seq, 1, Min(stop)), {}, FALSE)

\* find_all_revisions_pages: entries [user, page] of page p, one for each
\* annotation and one for each validation without one.
EntryFor(d, p) == [user |-> d.user, page |-> d.pages[p], validated |-> FALSE]
EmptyEntryFor(d) == [user |-> d.user, page |-> "empty", validated |-> TRUE]

AllRevisionsOf(seq, p) ==
    LET mark(entries, d) ==
            LET own == {i \in DOMAIN entries : entries[i].user = d.user}
            IN  IF p \notin d.validated THEN entries
                ELSE IF own = {} THEN Append(entries, EmptyEntryFor(d))
                ELSE [entries EXCEPT ![Max(own)].validated = TRUE]
        add(entries, d) ==
            mark(IF Annotates(d, p) THEN Append(entries, EntryFor(d, p)) ELSE entries, d)
    IN  FoldLeft(add, <<>>, seq)

MarkLatest_Empty(entries, d) ==
    {e \in entries : e.user # d.user} \cup {EmptyEntryFor(d)}

\* mark_latest_revision_validated_pages
MarkLatest(entries, d) ==
    LET own == {e \in entries : e.user = d.user}
    IN  IF own = {} THEN entries \cup {EmptyEntryFor(d)}
        ELSE (entries \ own) \cup {[e EXCEPT !.validated = TRUE] : e \in own}

\* find_latest_revision_pages: at most one entry for each user.
LatestRevisionsOf(seq, p) ==
    LET mark(entries, d) ==
            IF p \in d.validated THEN MarkLatest(entries, d) ELSE entries
        add(entries, d) ==
            mark(IF Annotates(d, p)
                 THEN {e \in entries : e.user # d.user} \cup {EntryFor(d, p)}
                 ELSE entries, d)
    IN  FoldLeft(add, {}, seq)

\* construct_particular_rev_response: the pages of one revision; load_page makes
\* up an empty one for a page that it only validates.
ParticularRevision(d) ==
    [p \in DOMAIN d.pages \cup d.validated |-> IF Annotates(d, p) THEN d.pages[p] ELSE "empty"]

\* get_annotation_for_given_revision, for "latest"; no pages for want of one.
LatestChanges(rows) ==
    IF rows = {} THEN NoPages ELSE ParticularRevision(Last(ByDate(rows)))

\* GET /{job}/{file} and GET /{job}/{file}/latest_by_user; u is "anyone" in the
\* second for all users.
AllRevisions(rows, u, asked) ==
    LET seq == ByDate(Seen(rows, u)) IN [p \in asked |-> AllRevisionsOf(seq, p)]

LatestByUser(rows, u, asked) ==
    LET seq == ByDate({d \in rows : u \in {"anyone", d.user}})
    IN  [p \in asked |-> LatestRevisionsOf(seq, p)]

\* What a load of the pages of a revision asks the object storage for.
PagesOf(pages) == {<<p, pages[p]>> : p \in DOMAIN pages}

-----------------------------------------------------------------------------
(* The revisions of a task *)

\* check_task_pages, and the check that only a validation has marks.
OfTask(u, doc) ==
    /\ \A p \in RevPage : Touches(doc, p) => p \in RevTask[u].pages
    /\ doc.validated \cup doc.failed = {} \/ RevTask[u].validation

Trim(d, kept) ==
    [d EXCEPT !.pages = [p \in DOMAIN @ \cap kept |-> @[p]],
              !.validated = @ \cap kept, !.failed = @ \cap kept]

\* get_task_revisions: those the user has saved for the task, without the pages
\* that a base has brought into them.
TaskRevisions(rows, u) ==
    {t \in {Trim(d, RevTask[u].pages) : d \in {e \in rows : e.user = u}} :
        \E p \in RevPage : Touches(t, p)}

PagesInfo_Unmarked(rows, u) ==
    LET info == Accumulate(ByDate(TaskRevisions(rows, u)), RevTask[u].pages, TRUE)
    IN  [info |-> info, notProcessed |-> RevTask[u].pages \ DOMAIN info.annotated]

\* get_pages_info
PagesInfo(rows, u) ==
    LET info == Accumulate(ByDate(TaskRevisions(rows, u)), RevTask[u].pages, TRUE)
    IN  [info |-> info,
         notProcessed |->
             RevTask[u].pages \ (DOMAIN info.annotated \cup info.validated \cup info.failed)]

\* validate_user_actions, given users for the pages that need them.
MayFinish(u) == RevTask[u].validation => PagesInfo(docs, u).notProcessed = {}

\* finish_task: get_task_revisions assigns the trimmed pages to the rows that
\* the session has loaded, and the commit of the task writes them.
FinishTask(u) ==
    /\ u \in started \ finished /\ MayFinish(u)
    /\ finished' = finished \cup {u}
    /\ docs' = {IF d.user = u THEN Trim(d, RevTask[u].pages) ELSE d : d \in docs}
    /\ UNCHANGED <<extensive, started, objects, manifest, saveRequest, clock, saves,
                   crossing, unstored, brought, snapshots, refused, revFaults>>

-----------------------------------------------------------------------------
(* Saves *)

Latest(rows) == IF rows = {} THEN [id |-> NoRevision] ELSE Last(ByDate(rows))

\* get_pages_sha: what the id is a hash of.
Content(doc) == [pages |-> doc.pages, validated |-> doc.validated, failed |-> doc.failed]
IdOn(base, doc) == Append(base, Content(doc))

\* check_docs_identity: categories are a list on one side and a set on the other.
Identical(latest, new) ==
    /\ latest.id # NoRevision
    /\ Content(latest) = Content(new)
    /\ latest.categories = {} /\ new.categories = {}

Conflicts_Never(latest, doc) == FALSE

\* A save that is not based on the latest revision may not have its pages.
Conflicts(latest, doc) == DOMAIN doc.pages \cap DOMAIN latest.pages # {}

\* construct_annotated_doc up to the commit.
NewDoc(r, latest, isLatest) ==
    [id |-> IdOn(IF isLatest THEN r.base ELSE latest.id, r.doc),
     user |-> r.user, date |-> r.date,
     pages |-> IF isLatest THEN r.doc.pages
               ELSE [p \in DOMAIN r.doc.pages \cup DOMAIN latest.pages |->
                        IF p \in DOMAIN latest.pages THEN latest.pages[p]
                        ELSE r.doc.pages[p]],
     validated |-> r.doc.validated, failed |-> r.doc.failed,
     categories |-> r.doc.categories]

SaveGoes(s, r) ==
    /\ saveRequest' = [saveRequest EXCEPT ![s] = r]
    /\ UNCHANGED <<extensive, finished, saves, crossing, revFaults>>

SaveEnds(s) == SaveGoes(s, NoSave)

SaveBegins(s, r) ==
    /\ saveRequest[s] = NoSave /\ saves < MaxSaves
    /\ saveRequest' = [saveRequest EXCEPT ![s] = r]
    /\ saves' = saves + 1
    /\ crossing' = (crossing \/ \E o \in RevSession : saveRequest[o] # NoSave)
    /\ UNCHANGED <<extensive, docs, finished, objects, manifest, unstored, brought,
                   snapshots, refused, revFaults>>

\* The date of a row is the start of the transaction that inserts it, which for a user
\* is before the call to assets: that of the first read or, where update_task_status
\* has committed, of the read of the task again for its file.
UserSave(s, u, doc, base) ==
    /\ SaveBegins(s, [at |-> "read", user |-> u, doc |-> doc, base |-> base,
                      date |-> clock + 1])
    /\ OfTask(u, doc) /\ u \notin finished
    /\ base \in {d.id : d \in docs} \cup {NoRevision}
    /\ started' = started \cup {u}
    /\ clock' = clock + 1

PipelineSave(s, doc) ==
    /\ SaveBegins(s, [at |-> "read", user |-> "pipeline", doc |-> doc,
                      base |-> NoRevision, date |-> 0])
    /\ UNCHANGED <<started, clock>>

\* The second half of the checks and the construction of the new row.
SaveReads(s) ==
    LET asked == saveRequest[s]
        r == [asked EXCEPT !.date = IF @ = 0 THEN clock + 1 ELSE @]
        rows == IF r.user = "pipeline" THEN docs ELSE Seen(docs, r.user)
        latest == Latest(rows)
        isLatest == r.user = "pipeline" \/ latest.id \in {NoRevision, r.base}
        new == NewDoc(r, latest, isLatest)
    IN  /\ asked.at = "read"
        /\ clock' = clock + 1
        /\ IF \/ ~isLatest /\ Conflicts(latest, r.doc)
              \/ Identical(latest, new)
           THEN SaveEnds(s)
           ELSE SaveGoes(s, [at |-> "commit", new |-> new, doc |-> r.doc])
        /\ UNCHANGED <<docs, started, objects, manifest, unstored, brought, snapshots,
                       refused>>

\* The views are those of the users in a job of extensive coverage, else one.
ViewsOf(u) == IF ~extensive THEN {"all"} ELSE {u} \cap RevUser

\* What a view shows after a save, from what was asked for.
Shown(before, doc) ==
    [annotated |-> [p \in DOMAIN before.annotated \cup DOMAIN doc.pages |->
                        IF Annotates(doc, p) THEN doc.pages[p] ELSE before.annotated[p]],
     validated |-> {p \in before.validated : ~Touches(doc, p)} \cup doc.validated,
     failed |-> {p \in before.failed : ~Touches(doc, p)} \cup doc.failed]

Blank == [annotated |-> NoPages, validated |-> {}, failed |-> {}]
ShownNow(view) == IF snapshots[view] = <<>> THEN Blank ELSE Last(snapshots[view]).shown

\* The key is (revision, file, job): a document with the id of another one is
\* refused with the error for links to what is not there.
SaveCommits(s) ==
    LET r == saveRequest[s]
    IN  /\ r.at = "commit"
        /\ IF \E d \in docs : d.id = r.new.id
           THEN /\ refused' = TRUE
                /\ SaveEnds(s)
                /\ UNCHANGED <<docs, brought, snapshots>>
           ELSE /\ docs' = docs \cup {r.new}
                /\ brought' = brought \cup (DOMAIN r.new.pages \ DOMAIN r.doc.pages)
                /\ SaveGoes(s, [r EXCEPT !.at = "upload"])
                /\ snapshots' = [v \in DOMAIN snapshots |->
                       IF v \in ViewsOf(r.new.user)
                       THEN Append(snapshots[v], [id |-> r.new.id,
                                                  shown |-> Shown(ShownNow(v), r.doc)])
                       ELSE snapshots[v]]
                /\ UNCHANGED refused
        /\ UNCHANGED <<started, objects, manifest, clock, unstored>>

\* upload_pages_to_minio
ToUpload(r) == PagesOf(r.doc.pages)

Upload(s) ==
    LET r == saveRequest[s]
    IN  /\ r.at = "upload"
        /\ objects' = objects \cup ToUpload(r)
        /\ SaveGoes(s, [r EXCEPT !.at = "revisions"])
        /\ UNCHANGED <<docs, started, manifest, clock, unstored, brought, snapshots,
                       refused>>

ManifestOf_New(r) == Accumulate(<<r.new>>, {}, FALSE)

\* create_manifest_json: the rows of the job and the file, and the new one again.
ManifestOf(r) == Accumulate(Append(ByDate(docs), r.new), {}, FALSE)

ReadRevisions(s) ==
    LET r == saveRequest[s]
    IN  /\ r.at = "revisions"
        /\ SaveGoes(s, [at |-> "manifest", manifest |-> ManifestOf(r)])
        /\ UNCHANGED <<docs, started, objects, manifest, clock, unstored, brought,
                       snapshots, refused>>

PutManifest(s) ==
    /\ saveRequest[s].at = "manifest"
    /\ manifest' = saveRequest[s].manifest
    /\ SaveEnds(s)
    /\ UNCHANGED <<docs, started, objects, clock, unstored, brought, snapshots, refused>>

-----------------------------------------------------------------------------
(* Faults *)

MayFail(fault) == fault \in RevFaults /\ revFaults < MaxRevFaults

\* Pages of a committed row that nobody will upload.
Unstored(r) == IF r.at = "upload" THEN PagesOf(r.doc.pages) ELSE {}

\* The request ends with an error where it is; what it has committed stays.
SaveFails(s) ==
    LET r == saveRequest[s]
    IN  /\ \/ r.at = "read" /\ MayFail("assets")
           \/ r.at \in {"upload", "manifest"} /\ MayFail("s3")
        /\ saveRequest' = [saveRequest EXCEPT ![s] = NoSave]
        /\ unstored' = unstored \cup Unstored(r)
        /\ revFaults' = revFaults + 1
        /\ UNCHANGED <<extensive, docs, started, finished, objects, manifest, clock,
                       saves, crossing, brought, snapshots, refused>>

CrashRevisions ==
    /\ MayFail("crash")
    /\ \E s \in RevSession : saveRequest[s] # NoSave
    /\ saveRequest' = [s \in RevSession |-> NoSave]
    /\ unstored' = unstored \cup UNION {Unstored(saveRequest[s]) : s \in RevSession}
    /\ revFaults' = revFaults + 1
    /\ UNCHANGED <<extensive, docs, started, finished, objects, manifest, clock,
                   saves, crossing, brought, snapshots, refused>>

-----------------------------------------------------------------------------
Init ==
    /\ extensive \in BOOLEAN
    /\ docs = {} /\ started = {} /\ finished = {} /\ objects = {} /\ manifest = Blank
    /\ saveRequest = [s \in RevSession |-> NoSave]
    /\ clock = 0 /\ saves = 0 /\ brought = {}
    /\ crossing = FALSE /\ unstored = {} /\ refused = FALSE
    /\ snapshots = [v \in RevUser \cup {"all"} |-> <<>>]
    /\ revFaults = 0

Next ==
    \/ \E s \in RevSession :
           \/ \E u \in RevUser, base \in {d.id : d \in docs} \cup {NoRevision} :
                  \E doc \in UserSaves[u] : UserSave(s, u, doc, base)
           \/ \E doc \in PipelineSaves : PipelineSave(s, doc)
           \/ SaveReads(s) \/ SaveCommits(s) \/ Upload(s) \/ ReadRevisions(s)
           \/ PutManifest(s) \/ SaveFails(s)
    \/ \E u \in RevUser : FinishTask(u)
    \/ CrashRevisions

Spec == Init /\ [][Next]_revisionsVars

-----------------------------------------------------------------------------
(* Properties *)

\* Two accounts of the pages agree; on pages brought in, one may have marks
\* that the other has not.
AgreeOnPages(one, other) ==
    /\ one.annotated = other.annotated
    /\ one.validated \ brought = other.validated \ brought
    /\ one.failed \ brought = other.failed \ brought

\* With saves one after the other, reading up to any revision shows what its
\* save left: no save is lost, undone or mixed up by a base that is not the
\* latest revision, by equal contents, by one of another user or by the end of
\* a task; no mark is made up, and it stays on pages that no revision brings
\* in again (construct_annotated_doc, accumulate_pages_info).
ReadsAreSnapshots ==
    ~crossing =>
        \A v \in DOMAIN snapshots : \A i \in DOMAIN snapshots[v] :
            LET read == UpTo(docs, v, snapshots[v][i].id)
                shown == snapshots[v][i].shown
            IN  /\ AgreeOnPages(read, shown)
                /\ read.validated \subseteq shown.validated
                /\ read.failed \subseteq shown.failed

RevisionsQuiet == \A s \in RevSession : saveRequest[s] = NoSave

\* The manifest shows what the revisions do, when saves do not overlap and
\* none of them ended half way (create_manifest_json).
ManifestIsCurrent ==
    ( RevisionsQuiet /\ ~crossing /\ revFaults = 0 )
        => AgreeOnPages(manifest, Accumulate(ByDate(docs), {}, FALSE))

\* A page of a revision can be loaded unless its upload is under way or
\* failed, also when other saves found their document to be the same.
PagesAreStored ==
    \A d \in docs : PagesOf(d.pages) \subseteq
        objects \cup unstored \cup
            UNION {Unstored(saveRequest[s]) : s \in RevSession}

\* The answers of all readers agree, whatever saves overlap: the annotation of
\* a page is the last one of all revisions, and the one its user made last; a
\* page that counts as validated is marked so in both; the changes of the
\* latest revision are part of what reading up to it shows; the latest of a user
\* is the last of all of his, and a page of his task is processed when it is in
\* one of those.
ReadersAgree ==
    LET seq == ByDate(docs)
        info == Accumulate(seq, {}, FALSE)
        changes == LatestChanges(docs)
    IN  /\ \A p \in DOMAIN changes :
               IF changes[p] = "empty" THEN p \in info.validated
               ELSE changes[p] = info.annotated[p]
        /\ \A p \in DOMAIN info.annotated :
               /\ \E e \in LatestRevisionsOf(seq, p) : e.page = info.annotated[p]
               /\ LET all == SelectSeq(AllRevisionsOf(seq, p), LAMBDA e : e.page # "empty")
                  IN  Last(all).page = info.annotated[p]
        /\ \A p \in info.validated :
               \E e \in ToSet(AllRevisionsOf(seq, p)) : e.validated
        /\ \A u \in RevUser :
               LET all == AllRevisions(docs, u, RevPage)
                   latest == LatestByUser(docs, u, RevPage)
               IN  /\ \A p \in RevPage :
                          LET own == SelectSeq(all[p], LAMBDA e : e.user = u)
                          IN  latest[p] = IF own = <<>> THEN {} ELSE {Last(own)}
                   /\ \A p \in PagesInfo(docs, u).notProcessed : latest[p] = {}

\* What construct_annotated_doc says: a save is answered with the latest
\* revision when it is equal, otherwise with a new one.
SaveReturnsRevision == ~crossing => ~refused

\* A mark stays until its page is saved again (construct_annotated_doc): refuted,
\* since a page that a save takes over from the latest revision counts as
\* annotated anew.
MarksStay ==
    ~crossing =>
        \A v \in DOMAIN snapshots : \A i \in DOMAIN snapshots[v] :
            UpTo(docs, v, snapshots[v][i].id) = snapshots[v][i].shown

\* A revision stays what it was when it was saved (models.AnnotatedDoc): refuted,
\* since finishing a task takes out of its revisions what a base brought in.
RevisionsStay == [][docs \subseteq docs']_revisionsVars

=============================================================================
