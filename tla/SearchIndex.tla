---------------------------- MODULE SearchIndex ----------------------------
(***************************************************************************)
(* The search service (search/): annotation reports over Kafka that the    *)
(* pages of a file have changed; the consumer, or a request for a job,     *)
(* deletes what Elasticsearch has of the file and indexes its manifest    *)
(* (kafka_listener.py, harvester.py); searches and facets read the index   *)
(* (es.py, schemas/pieces.py, schemas/facets.py).                          *)
(* A page has one text piece, of which every change is a new version.      *)
(***************************************************************************)
EXTENDS Naturals, Sequences, FiniteSets, SequencesExt, FiniteSetsExt

CONSTANTS
    Pair,          \* the <<job, file>> pairs of ids, numbers
    Begins,        \* <<n, m>>: the digits of id m begin with those of id n
    MaxChanges,    \* bound on the number of changes of pages
    MaxHarvests,   \* bound on the number of harvests
    MaxCrashes,    \* bound on the number of crashes
    CategoryOf,    \* the category of the piece of each file
    Below,         \* the categories below each category
    Queries        \* searches: [include, exclude] sets of filters

VARIABLES
    written,    \* the version of each <<job, file>> in the storage, 0: none
    unsent,     \* files of which annotation has not sent the message yet
    topic,      \* messages, ever
    position,   \* messages the consumer was given
    committed,  \* messages whose offset is committed, 0: none
    harvest,    \* what each worker is doing
    harvests,   \* number of harvests
    visible,    \* documents that searches find
    fresh,      \* documents since the last refresh
    crashes,
    missed,     \* history: files whose message was lost or whose harvest failed,
                \* until they are harvested again
    blurred     \* history: files indexed in the presence of another harvest,
                \* of unrefreshed documents or of a key with the same beginning,
                \* until they are harvested without

searchVars == <<written, unsent, topic, position, committed, harvest, harvests,
                visible, fresh, crashes, missed, blurred>>

SearchJob == {p[1] : p \in Pair}
Worker == {"consumer", "request"}
NoHarvest == [at |-> "idle"]
WholeJob == 0

Concerns_AnyFile(h, p) == p[1] = h.job

\* What a harvest of a message, or of a request, is about.
Concerns(h, p) == p[1] = h.job /\ (h.file = WholeJob \/ p[2] = h.file)

\* The bucket is filtered by the prefix start_path/job or start_path/job/file,
\* which is no path.
UnderPrefix(h, p) ==
    IF h.file = WholeJob THEN p[1] = h.job \/ <<h.job, p[1]>> \in Begins
    ELSE p[1] = h.job /\ (p[2] = h.file \/ <<h.file, p[2]>> \in Begins)

-----------------------------------------------------------------------------
(* Annotation *)

\* A revision that differs has written its manifest and is committed.
PagesChange(p) ==
    /\ MapThenSumSet(LAMBDA q : written[q], Pair) < MaxChanges /\ p \notin unsent
    /\ written' = [written EXCEPT ![p] = @ + 1]
    /\ unsent' = unsent \cup {p}
    /\ UNCHANGED <<topic, position, committed, harvest, harvests, visible, fresh,
                   crashes, missed, blurred>>

\* check_if_kafka_message_is_needed
SendMessage(p) ==
    /\ p \in unsent /\ unsent' = unsent \ {p}
    /\ topic' = Append(topic, p)
    /\ UNCHANGED <<written, position, committed, harvest, harvests, visible, fresh,
                   crashes, missed, blurred>>

\* There is no producer: the annotation is saved and no message is sent.
SendNothing(p) ==
    /\ p \in unsent /\ unsent' = unsent \ {p}
    /\ missed' = missed \cup {p}
    /\ UNCHANGED <<written, topic, position, committed, harvest, harvests, visible,
                   fresh, crashes, blurred>>

-----------------------------------------------------------------------------
(* Harvests *)

Begin(w, job, file) ==
    /\ harvest[w] = NoHarvest /\ harvests < MaxHarvests
    /\ harvests' = harvests + 1
    /\ harvest' = [harvest EXCEPT ![w] =
           [at |-> "scan", job |-> job, file |-> file, id |-> harvests + 1, docs |-> {}]]

\* consume
Consume ==
    /\ position < Len(topic) /\ position' = position + 1
    /\ LET p == topic[position + 1] IN Begin("consumer", p[1], p[2])
    /\ UNCHANGED <<written, unsent, topic, committed, visible, fresh, crashes,
                   missed, blurred>>

\* POST /indexation/{job_id}
StartIndexing(job) ==
    /\ Begin("request", job, WholeJob)
    /\ UNCHANGED <<written, unsent, topic, position, committed, visible, fresh,
                   crashes, missed, blurred>>

At(w, step) == harvest[w].at = step

HarvestGoes(w, h) ==
    /\ harvest' = [harvest EXCEPT ![w] = h]
    /\ UNCHANGED <<written, unsent, topic, position, committed, harvests, crashes>>

About(w) == {p \in Pair : Concerns(harvest[w], p)}

\* A scan finds what the index had at its last refresh.
ScanOld(w) ==
    LET h == harvest[w]
        old(docs) == {d \in docs : Concerns(h, <<d.job, d.file>>)}
        unclear == old(fresh) # {} \/ \E v \in Worker \ {w} : ~At(v, "idle")
    IN  /\ At(w, "scan")
        /\ HarvestGoes(w, [h EXCEPT !.at = "delete", !.docs = old(visible)])
        /\ blurred' = (blurred \ About(w))
                          \cup {p \in Pair : UnderPrefix(h, p) /\ (unclear \/ ~Concerns(h, p))}
        /\ UNCHANGED <<visible, fresh, missed>>

\* async_bulk: a document that is no longer there is an error, which ends the
\* harvest.
DeleteOld(w) ==
    LET h == harvest[w]
        gone == h.docs \ (visible \cup fresh)
    IN  /\ At(w, "delete")
        /\ visible' = visible \ h.docs /\ fresh' = fresh \ h.docs
        /\ HarvestGoes(w, IF gone = {} THEN [h EXCEPT !.at = "read", !.docs = {}]
                          ELSE NoHarvest)
        /\ missed' = IF gone = {} THEN missed ELSE missed \cup About(w)
        /\ UNCHANGED blurred

\* harvester: the manifests under the prefix, whose pages are looked for at the
\* job that was asked for: those of another job are not there.
ReadManifests(w) ==
    LET h == harvest[w]
        found == {p \in Pair : UnderPrefix(h, p) /\ written[p] > 0}
    IN  /\ At(w, "read")
        /\ IF \A p \in found : p[1] = h.job
           THEN /\ HarvestGoes(w, [h EXCEPT !.at = "insert",
                       !.docs = {[job |-> p[1], file |-> p[2], version |-> written[p],
                                  by |-> h.id] : p \in found}])
                /\ missed' = missed \ About(w)
           ELSE /\ HarvestGoes(w, NoHarvest)
                /\ missed' = missed \cup About(w)
        /\ UNCHANGED <<visible, fresh, blurred>>

InsertNew(w) ==
    /\ At(w, "insert") /\ HarvestGoes(w, NoHarvest)
    /\ fresh' = fresh \cup harvest[w].docs
    /\ UNCHANGED <<visible, missed, blurred>>

\* Elasticsearch or the storage does not answer, or not any more: the consumer
\* logs it and goes on.
HarvestFails(w) ==
    /\ ~At(w, "idle") /\ HarvestGoes(w, NoHarvest)
    /\ \E docs \in IF At(w, "insert") THEN SUBSET harvest[w].docs ELSE {{}} :
           fresh' = fresh \cup docs
    /\ missed' = missed \cup About(w)
    /\ UNCHANGED <<visible, blurred>>

Refresh ==
    /\ fresh # {} /\ visible' = visible \cup fresh /\ fresh' = {}
    /\ UNCHANGED <<written, unsent, topic, position, committed, harvest, harvests,
                   crashes, missed, blurred>>

-----------------------------------------------------------------------------
(* Offsets *)

\* Offsets are committed from time to time, those of messages at work too.
AutoCommit ==
    /\ committed < position /\ committed' = position
    /\ UNCHANGED <<written, unsent, topic, position, harvest, harvests, visible,
                   fresh, crashes, missed, blurred>>

\* The service starts again at what is committed; a group that has committed
\* nothing starts at the end of the topic.
Crash ==
    LET from == IF committed > 0 THEN committed ELSE Len(topic)
    IN  /\ crashes < MaxCrashes /\ crashes' = crashes + 1
        /\ position' = from /\ harvest' = [w \in Worker |-> NoHarvest]
        /\ missed' = missed \cup {topic[n] : n \in position + 1 .. from}
                       \cup UNION {About(w) : w \in {v \in Worker : ~At(v, "idle")}}
        /\ UNCHANGED <<written, unsent, topic, committed, harvests, visible, fresh,
                       blurred>>

-----------------------------------------------------------------------------
Init ==
    /\ written = [p \in Pair |-> 0] /\ unsent = {}
    /\ topic = <<>> /\ position = 0 /\ committed = 0
    /\ harvest = [w \in Worker |-> NoHarvest] /\ harvests = 0
    /\ visible = {} /\ fresh = {} /\ crashes = 0 /\ missed = {} /\ blurred = {}

Next ==
    \/ \E p \in Pair : PagesChange(p) \/ SendMessage(p) \/ SendNothing(p)
    \/ Consume
    \/ \E job \in SearchJob : StartIndexing(job)
    \/ \E w \in Worker :
           \/ ScanOld(w) \/ DeleteOld(w) \/ ReadManifests(w) \/ InsertNew(w)
           \/ HarvestFails(w)
    \/ Refresh \/ AutoCommit \/ Crash

Spec == Init /\ [][Next]_searchVars

-----------------------------------------------------------------------------
(* Searches *)

ValueOf(d, field) == IF field = "category" THEN CategoryOf[d.file] ELSE d.job

Subtree(c) == {c} \cup Below[c]

\* adjust_for_child_categories: to the values come the categories that are below
\* all of them.
FilterValues(f) ==
    IF f.field # "category" THEN f.values
    ELSE f.values \cup {c \in UNION {Subtree(v) : v \in f.values} :
                            \A v \in f.values : c \in Subtree(v)}

\* build_query: an operator is "eq" or "in", or "not_in".
Hits(q) ==
    {d \in visible :
        /\ \A f \in q.include : ValueOf(d, f.field) \in FilterValues(f)
        /\ \A f \in q.exclude : ValueOf(d, f.field) \notin FilterValues(f)}

\* The facet of a field heeds the filters of the other fields, as they are.
FacetDocs(q, field) ==
    {d \in visible :
        /\ \A f \in q.include : f.field = field \/ ValueOf(d, f.field) \in f.values
        /\ \A f \in q.exclude : f.field = field \/ ValueOf(d, f.field) \notin f.values}

Facet(q, field) ==
    LET docs == FacetDocs(q, field)
    IN  [v \in {ValueOf(d, field) : d \in docs} |->
            Cardinality({d \in docs : ValueOf(d, field) = v})]

-----------------------------------------------------------------------------
(* Properties *)

DocsOf(p) == {d \in visible \cup fresh : d.job = p[1] /\ d.file = p[2]}

Rests ==
    unsent = {} /\ position = Len(topic) /\ \A w \in Worker : At(w, "idle")

\* When every message is consumed the newest pages of a file are in the index,
\* whatever else was indexed meanwhile, unless its message was lost or its
\* harvest failed.
NewestIsIndexed ==
    Rests => \A p \in Pair \ missed :
                 written[p] > 0 => \E d \in DocsOf(p) : d.version = written[p]

\* And nothing else of the file is, if no harvest overlapped another, came before
\* a refresh or met a key that begins like its own.
OnlyNewestIsIndexed ==
    Rests => \A p \in Pair \ (missed \cup blurred) :
                 \A d, e \in DocsOf(p) : d = e

\* What a facet counts for a value is what a search with the value and the
\* filters of the other fields finds, when no category has categories below.
FacetsCountHits ==
    \A q \in Queries : \A field \in {"category", "job_id"} :
        LET facet == Facet(q, field)
            others(fs) == {f \in fs : f.field # field}
            flat == \A f \in q.include \cup q.exclude :
                        f.field = "category" => \A c \in f.values : Below[c] = {}
        IN  flat => \A v \in {x \in DOMAIN facet : field = "job_id" \/ Below[x] = {}} :
                \* v is a value of the field
                Cardinality(Hits([include |-> others(q.include)
                                      \cup {[field |-> field, values |-> {v}]},
                                  exclude |-> others(q.exclude)])) = facet[v]

\* Indexing a job again leaves one piece for each of its pages.  Refuted: by a
\* harvest before a refresh, by two at once, by files 1 and 12 of one job.
IndexIsExact == Rests => \A p \in Pair : \A d, e \in DocsOf(p) : d = e

\* A search for categories finds all that is below them.  Refuted: of several
\* categories only what is below all.
SubtreesAreFound ==
    \A q \in Queries :
        {d \in visible : /\ q.exclude = {}
                         /\ \A f \in q.include :
                                \E v \in f.values :
                                    IF f.field = "category"
                                    THEN ValueOf(d, f.field) \in Subtree(v)
                                    ELSE ValueOf(d, f.field) = v} \subseteq Hits(q)

=============================================================================
