----------------------------- MODULE TaskQueries -----------------------------
(***************************************************************************)
(* What the annotation service tells about tasks while they are worked on: *)
(* lists of tasks page by page, the neighbours of a task, the progress of  *)
(* a job, statistics and their export (tasks/resources.py, services.py,    *)
(* jobs/resources.py, services.py).  A request reads with several          *)
(* statements, each of which sees what is committed when it begins; names  *)
(* of jobs are asked from the jobs service once and kept.                  *)
(*                                                                         *)
(* No list is ordered: rows come as they lie in the table, and a row that  *)
(* is changed comes to lie anywhere; bound: at either end.               *)
(***************************************************************************)
EXTENDS Naturals, SequencesExt, FiniteSetsExt

CONSTANTS
    QueryUser,    \* users
    FirstTasks,   \* the tasks there are at first: their statuses, by id
    TaskIds,      \* ids tasks may have, numbers
    OwnerOf,      \* the user of each task
    JobOf,        \* the job of each task
    FilesIn,      \* the files of each job
    PageSize,     \* tasks on a page
    QuerySession, \* concurrent requests
    MaxWrites,    \* bound on changes of tasks
    MaxQueries,   \* bound on requests
    MaxRenames    \* bound on changes of names

VARIABLES
    rows,    \* the tasks [id, status] as they lie in the table
    names,   \* the names of jobs this service has kept, NoName: none
    titles,  \* their names in the jobs service, NoName: no such job
    stats,   \* the statistics of each task, or NoStats
    query,   \* the request of each session, or NoQuery
    writes, queries, renames,
    opened,  \* history: tasks with a successful event "opened"
    told     \* the last answer

queriesVars == <<rows, names, titles, stats, query, writes, queries, renames,
                 opened, told>>

NoQuery == [at |-> "none"]
NoStats == [event |-> "none"]
NoName == 0
NoTask == 0
Never == 0
NoAnswer == [to |-> "nothing"]

Ids == {rows[i].id : i \in DOMAIN rows}
RowOf(id) == rows[CHOOSE i \in DOMAIN rows : rows[i].id = id]
Now == queries

-----------------------------------------------------------------------------
(* Work on tasks, as far as these requests see it: AnnotationTasks *)

Matching(table, user) == SelectSeq(table, LAMBDA t : OwnerOf[t.id] = user)
IdsOf(table) == {table[i].id : i \in DOMAIN table}
FinishedIn(table, job) ==
    Cardinality({i \in DOMAIN table : JobOf[table[i].id] = job /\ table[i].status = "finished"})
TotalIn(table, job) == Cardinality({i \in DOMAIN table : JobOf[table[i].id] = job})
Counts(table, job) == [finished |-> FinishedIn(table, job), total |-> TotalIn(table, job)]
AllFinished(table, job) == FinishedIn(table, job) = TotalIn(table, job)

Lists(q) == q.at \in {"count", "rows", "ask", "store"} /\ q.user # "none"

\* What a request that is under way misses; history.
Witness(q, table, removed) ==
    CASE q.at = "total" -> [q EXCEPT !.done = @ \/ AllFinished(table, q.job),
                                     !.removed = @ \/ removed]
      [] Lists(q) ->
             [q EXCEPT !.still = FALSE, !.kept = @ \cap IdsOf(Matching(table, q.user))]
      [] OTHER -> q

\* Bounds: tasks are followed as long as there may be requests, and one change
\* is in a list.
Followed == queries < MaxQueries \/ \E s \in QuerySession : query[s] # NoQuery

Writes(table, removed) ==
    /\ Followed /\ writes < MaxWrites /\ writes' = writes + 1
    /\ (\E s \in QuerySession : Lists(query[s])) => writes = 0
    /\ rows' = table
    /\ query' = [s \in QuerySession |-> Witness(query[s], table, removed)]
    /\ UNCHANGED <<names, titles, queries, renames, told>>

WithStatus(i, k, status) ==
    InsertAt(RemoveAt(rows, i), k, [rows[i] EXCEPT !.status = status])

\* update_task_status
BeginTask(i, k) ==
    /\ rows[i].status = "ready"
    /\ Writes(WithStatus(i, k, "in_progress"), FALSE)
    /\ UNCHANGED <<stats, opened>>

\* finish_task, alone or with a task for the pages that failed.
FinishTask(i, k) ==
    /\ rows[i].status = "in_progress"
    /\ LET done == WithStatus(i, k, "finished")
           next == {t \in TaskIds : \A u \in Ids : u < t}
       IN  \/ Writes(done, FALSE)
           \/ \E t \in next : /\ \A u \in next : t <= u
                              /\ Writes(Append(done, [id |-> t, status |-> "ready"]), FALSE)
    /\ UNCHANGED <<stats, opened>>

\* delete_task, of any status; its statistics go with it.
RemoveTask(i) ==
    /\ Writes(RemoveAt(rows, i), TRUE)
    /\ stats' = [stats EXCEPT ![rows[i].id] = NoStats]
    /\ UNCHANGED opened

\* The jobs service changes a name, or deletes the job; it tells nobody.  Bound:
\* while names are asked for.
Rename(j, title) ==
    /\ \E s \in QuerySession : query[s].at \in {"ask", "store"}
    /\ renames < MaxRenames /\ renames' = renames + 1
    /\ titles[j] # title /\ titles' = [titles EXCEPT ![j] = title]
    /\ UNCHANGED <<rows, names, stats, query, writes, queries, opened, told>>

-----------------------------------------------------------------------------
(* Requests *)

Asks(s, q) ==
    /\ query[s] = NoQuery /\ queries < MaxQueries /\ queries' = queries + 1
    /\ query' = [query EXCEPT ![s] = q]
    /\ UNCHANGED <<rows, names, titles, stats, writes, renames, opened, told>>

Goes(s, q) ==
    /\ query' = [query EXCEPT ![s] = q]
    /\ UNCHANGED <<rows, titles, writes, queries, renames>>

\* GET /jobs/{job_id}/progress: one count, then the other.
AskProgress(s, j) ==
    Asks(s, [at |-> "total", job |-> j, first |-> Counts(rows, j),
             done |-> AllFinished(rows, j), removed |-> FALSE])

Progress_TotalFirst(first, second) ==
    [finished |-> second.finished, total |-> first.total]

\* What the two counts make, from what was there at each.
Progress(first, second) == [finished |-> first.finished, total |-> second.total]

TellProgress(s) ==
    LET q == query[s]
        p == Progress(q.first, Counts(rows, q.job))
    IN  /\ q.at = "total" /\ Goes(s, NoQuery)
        /\ told' = [to |-> "progress", finished |-> p.finished, total |-> p.total,
                      done |-> q.done, removed |-> q.removed]
        /\ UNCHANGED <<names, stats, opened>>

\* A request for names: the jobs it is about, the names it read and those the
\* jobs service gave it.
\* A list also has the page it is at, what it counted and showed; history: the
\* tasks there were at first, those of them that were there all the time, whether
\* nothing was changed and whether a name is missing.
NamesRequest(at, jobs, matching) ==
    [at |-> at, jobs |-> jobs, read |-> names, found |-> [j \in {} |-> NoName],
     user |-> "none", page |-> 1, total |-> 0, seen |-> <<>>, shown |-> <<>>,
     all |-> matching, kept |-> matching, still |-> TRUE, nameless |-> FALSE]

\* GET /tasks of a user, from the first page on as long as there are more;
\* bound: one list at a time.
AskList(s, u) ==
    /\ ~\E o \in QuerySession : Lists(query[o])
    /\ Asks(s, [NamesRequest("count", {}, IdsOf(Matching(rows, u))) EXCEPT !.user = u])

\* read_annotation_tasks: the count, then one page.
CountTasks(s) ==
    /\ query[s].at = "count"
    /\ Goes(s, [query[s] EXCEPT !.at = "rows", !.total = Len(Matching(rows, query[s].user))])
    /\ UNCHANGED <<names, stats, opened, told>>

\* LIMIT and OFFSET
PageOf(seq, page) ==
    LET end == page * PageSize
    IN  SubSeq(seq, end - PageSize + 1, IF end < Len(seq) THEN end ELSE Len(seq))

\* expand_response: each job with its name, if there is one; history: one lacks
\* the name that the jobs service has for it.
Called(q, kept) ==
    \E j \in q.jobs : kept[j] = NoName /\ (j \in DOMAIN q.found => q.found[j] # NoName)

\* The answer, for a list that of one page; a full page is followed by the next.
Answer(s, asked, kept) ==
    LET q == [asked EXCEPT !.seen = @ \o asked.shown, !.nameless = @ \/ Called(asked, kept)]
    IN  IF q.shown # <<>> /\ q.page * PageSize < q.total
        THEN Goes(s, [q EXCEPT !.at = "count", !.page = @ + 1]) /\ UNCHANGED told
        ELSE /\ Goes(s, NoQuery)
             /\ told' = [to |-> IF q.user = "none" THEN "jobs" ELSE "list",
                           seen |-> q.seen, total |-> q.total, nameless |-> q.nameless,
                           all |-> q.all, kept |-> q.kept, still |-> q.still]

\* collect_job_names: the names that are kept are read; the others are asked for.
Unnamed(q) == {j \in q.jobs : q.read[j] = NoName}

CollectNames(s, q) ==
    IF Unnamed(q) = {} THEN Answer(s, q, q.read)
    ELSE Goes(s, [q EXCEPT !.at = "ask"]) /\ UNCHANGED told

ReadTasks(s) ==
    LET page == PageOf(Matching(rows, query[s].user), query[s].page)
        q == [query[s] EXCEPT !.shown = [i \in DOMAIN page |-> page[i].id],
                              !.jobs = {JobOf[page[i].id] : i \in DOMAIN page},
                              !.read = names]
    IN  /\ query[s].at = "rows"
        /\ CollectNames(s, q)
        /\ UNCHANGED <<names, stats, opened>>

\* GET /jobs, the jobs that files are in: get_jobs_by_files.
AskJobsByFiles(s, files) ==
    Asks(s, NamesRequest("names", {j \in DOMAIN FilesIn : FilesIn[j] \cap files # {}}, {}))

ReadNames(s) ==
    /\ query[s].at = "names"
    /\ CollectNames(s, [query[s] EXCEPT !.read = names])
    /\ UNCHANGED <<names, stats, opened>>

\* get_response: what the jobs service has of some jobs; bound: no more of them
\* than it answers at once.
TitlesOf(jobs) == [j \in jobs |-> titles[j]]

\* get_job_names: what the jobs service answers, if it does.
AskNames(s) ==
    /\ query[s].at = "ask"
    /\ \/ Goes(s, [query[s] EXCEPT !.at = "store",
                                   !.found = TitlesOf(Unnamed(query[s]))])
       \/ Goes(s, NoQuery)
    /\ UNCHANGED <<names, stats, opened, told>>

\* jobs_names.update and update_jobs_names.
Keep(kept, found) ==
    [j \in DOMAIN kept |-> IF j \in DOMAIN found /\ found[j] # NoName THEN found[j]
                           ELSE kept[j]]

\* The commit of update_jobs_names makes the tasks be read anew for the answer;
\* one that is gone by then is an error.
StoreNames(s) ==
    LET q == query[s]
    IN  /\ q.at = "store"
        /\ names' = Keep(names, q.found)
        /\ IF \A i \in DOMAIN q.shown : q.shown[i] \in Ids
           THEN Answer(s, q, Keep(q.read, q.found))
           ELSE Goes(s, NoQuery) /\ UNCHANGED told
        /\ UNCHANGED <<stats, opened>>

\* POST /tasks/{task_id}/stats up to its write: is there a record?
AskStats(s, t, event) ==
    /\ t \in Ids
    /\ Asks(s, [at |-> "stats", task |-> t, event |-> event, found |-> stats[t] # NoStats])

MayBegin_Any(event) == TRUE

\* "Attribute event_type can not start from closed."
MayBegin(event) == event # "closed"

\* add_task_stats_record: a second record for a task, one for a task that is
\* gone and an update of a record that is gone are errors.
WriteStats(s) ==
    LET q == query[s]
        t == q.task
        written == IF q.found THEN stats[t] # NoStats
                   ELSE MayBegin(q.event) /\ stats[t] = NoStats /\ t \in Ids
    IN  /\ q.at = "stats" /\ Goes(s, NoQuery)
        /\ stats' = IF ~written THEN stats
                    ELSE IF q.found
                    THEN [stats EXCEPT ![t].event = q.event, ![t].updated = Now]
                    ELSE [stats EXCEPT ![t] = [event |-> q.event, created |-> Now,
                                               updated |-> Never]]
        /\ opened' = IF written /\ q.event = "opened" THEN opened \cup {t} ELSE opened
        /\ UNCHANGED <<names, told>>

-----------------------------------------------------------------------------
(* Answers of one statement, or of statements about what does not change *)

\* create_export_csv: the statistics of users' tasks within a time; without an
\* end, from its beginning on.  NULL <= date is not true.
Export(users, from, to) ==
    {t \in Ids : /\ OwnerOf[t] \in users /\ stats[t] # NoStats /\ stats[t].created >= from
                 /\ to # Never => stats[t].updated # Never /\ stats[t].updated <= to}

Active(u) == {t \in Ids : OwnerOf[t] = u /\ RowOf(t).status \in {"ready", "in_progress"}}

\* get_next_and_previous_annotation_tasks
NextTask(u, t) ==
    LET after == {a \in Active(u) : a > t} IN IF after = {} THEN NoTask ELSE Min(after)
PreviousTask(u, t) ==
    LET before == {a \in Active(u) : a < t} IN IF before = {} THEN NoTask ELSE Max(before)

-----------------------------------------------------------------------------
Init ==
    /\ rows = [i \in DOMAIN FirstTasks |-> [id |-> i, status |-> FirstTasks[i]]]
    /\ names = [j \in DOMAIN FilesIn |-> NoName]
    /\ titles = [j \in DOMAIN FilesIn |-> 1]
    /\ stats = [t \in TaskIds |-> NoStats]
    /\ query = [s \in QuerySession |-> NoQuery]
    /\ writes = 0 /\ queries = 0 /\ renames = 0
    /\ opened = {} /\ told = NoAnswer

Next ==
    \/ \E i \in DOMAIN rows :
           \/ \E k \in {1, Len(rows)} : BeginTask(i, k) \/ FinishTask(i, k)
           \/ RemoveTask(i)
    \/ \E j \in DOMAIN titles, title \in {NoName, 1, 2} : Rename(j, title)
    \/ \E s \in QuerySession :
           \/ \E j \in DOMAIN FilesIn : AskProgress(s, j)
           \/ \E u \in QueryUser : AskList(s, u)
           \/ \E f \in UNION {FilesIn[j] : j \in DOMAIN FilesIn} : AskJobsByFiles(s, {f})
           \/ \E t \in Ids, event \in {"opened", "closed"} : AskStats(s, t, event)
           \/ TellProgress(s) \/ CountTasks(s) \/ ReadTasks(s) \/ ReadNames(s)
           \/ AskNames(s) \/ StoreNames(s) \/ WriteStats(s)

Spec == Init /\ [][Next]_queriesVars

-----------------------------------------------------------------------------
(* Properties *)

\* A job that is told to be done was done at some moment of the request,
\* whatever tasks are finished and made between its two counts, unless tasks
\* were deleted (get_job_progress counts the finished tasks first).
ProgressIsSound ==
    told.to = "progress" /\ told.finished >= told.total /\ ~told.removed
        => told.done

\* The pages of a list have every task once while no task is changed, and the
\* total is their number, also when the list is read with names that are asked
\* for and kept in between (read_annotation_tasks, collect_job_names).
ListIsComplete ==
    told.to = "list" /\ told.still =>
        /\ ToSet(told.seen) = told.all
        /\ Len(told.seen) = Cardinality(told.all) /\ Len(told.seen) = told.total

\* An answer names every job the jobs service knows of, whoever asked for the
\* name and kept it in between (collect_job_names).
JobsAreNamed == told.to \in {"list", "jobs"} => ~told.nameless

\* Work that is said to be over has been begun before, in whatever order two
\* requests find and write the record of a task; all of it is exported from
\* then on (add_task_stats_record, create_export_csv).
ClosedWasOpened ==
    \A t \in TaskIds :
        stats[t].event = "closed" =>
            /\ t \in opened /\ stats[t].updated # Never
            /\ t \in Export({OwnerOf[t]}, stats[t].created, Now)

\* Going from each task of a user to the next one leads through all his open
\* tasks, and back (get_next_and_previous_annotation_tasks).
NextIsPreviousBack ==
    \A u \in QueryUser : \A a \in Ids :
        /\ NextTask(u, a) # NoTask /\ a \in Active(u) => PreviousTask(u, NextTask(u, a)) = a
        /\ \A b \in Active(u) : b > a => NextTask(u, a) \in a + 1 .. b

\* A task that is there all the time is on one of the pages.
NoTaskIsSkipped == told.to = "list" => told.kept \subseteq ToSet(told.seen)

\* The name that is kept is the one the job has.
NamesAreCurrent == \A j \in DOMAIN names : names[j] \in {NoName, titles[j]}

\* No more tasks are finished than there are.
ProgressIsAShare == told.to = "progress" => told.finished <= told.total

=============================================================================
