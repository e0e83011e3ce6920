----------------------------- MODULE ResultMerging -----------------------------
(***************************************************************************)
(* What the steps of a pipeline task store, and how it is merged into one  *)
(* annotation when the task is finished (pipelines/result_processing.py,   *)
(* schemas.py, execution.py).  A step stores its objects, grouped by page, *)
(* under the path of the task; the task lists, reads and merges them, has  *)
(* them postprocessed and annotated, and removes them, without an await.   *)
(*                                                                         *)
(* A name is a sequence of numbers, one for each character, in their order *)
(* in the listing.  An object of a page is [id, by, keys, children]: by    *)
(* stands for its box, category and text, the step and the id they are of. *)
(***************************************************************************)
EXTENDS Integers, FiniteSets, TLC, Functions, SequencesExt

CONSTANTS
    MergeTask,   \* tasks of one job
    Dirs,        \* what the tasks are for: functions to ids of files, or of batches
                 \* of one file
    StepsOf,     \* the ids of the steps of a task, each the parent of the next
    Shapes,      \* what a step may find: sequences of [num, objs], the objects
                 \* [id, keys, children]
    MergeFaults  \* "read", "postprocess", "post", "remove": what may fail

Dot == -2
Slash == -1

VARIABLES
    dirOf,    \* what each task is for
    results,  \* name: pages of each object stored
    stored,   \* how many steps of each task have stored theirs
    outcome,  \* task: how its merging ended, "none" before
    annotated, \* task: pages posted to the annotation service
    found      \* history: what each step found

mergingVars == <<dirOf, results, stored, outcome, annotated, found>>

-----------------------------------------------------------------------------
(* Names *)

Digits(n) == IF n < 10 THEN <<n>> ELSE <<n \div 10, n % 10>>

\* output_path, which path_validator strips of its last slash
OutputPath(t) == Digits(dirOf[t])

\* append_path
ResultName(t, step) == OutputPath(t) \o <<Slash>> \o Digits(step) \o <<Dot>>

\* get_path
PathOf(name) ==
    SubSeq(name, 1, CHOOSE i \in 0 .. Len(name) : name[i + 1] = Slash)

NameBefore(x, y) ==
    \E n \in 0 .. Len(x) : /\ n < Len(y) /\ SubSeq(x, 1, n) = SubSeq(y, 1, n)
                           /\ n = Len(x) \/ x[n + 1] < y[n + 1]

\* list_object_names: the storage lists by a prefix, in the order of the names.
ListObjectNames(path) ==
    SetToSortSeq({n \in DOMAIN results : IsPrefix(path, n)}, NameBefore)

-----------------------------------------------------------------------------
(* Merging *)

\* The different members of a sequence, in the order they first come in.
Different(seq) ==
    FoldLeft(LAMBDA known, x : IF Contains(known, x) THEN known ELSE Append(known, x),
             <<>>, seq)

\* group_pages_by_page_num, group_objs_by_id
Numbers(pages) == Different([i \in DOMAIN pages |-> pages[i].num])
ObjsOf(pages, num) ==
    FlattenSeq([i \in DOMAIN pages |-> IF pages[i].num = num THEN pages[i].objs ELSE <<>>])
ObjIds(objs) == Different([i \in DOMAIN objs |-> objs[i].id])
WithId(objs, id) == SelectSeq(objs, LAMBDA o : o.id = id)

\* merge: everything of the last of them, but the data of all.
MergeObjs(objs, id) ==
    [id |-> id, by |-> Last(objs).by, children |-> Last(objs).children,
     link |-> Last(objs).link,
     keys |-> UNION {objs[i].keys : i \in DOMAIN objs}]

IndexOf(ids, id) == SelectInSeq(ids, LAMBDA x : x = id) - 1

UpdateId_FromOne(obj, ids) ==
    [obj EXCEPT !.children = [c \in DOMAIN @ |-> IndexOf(ids, @[c]) + 1]]

\* update_id: the children by their new ids; a link leads to its own object.
UpdateId(obj, ids) ==
    [obj EXCEPT !.children = [c \in DOMAIN @ |-> IndexOf(ids, @[c])],
                !.link = IF @ = "none" THEN "none" ELSE obj.id]

\* A child that is no object of the page: KeyError.
ChildMissing(objs) ==
    \E id \in Range(ObjIds(objs)) :
        Range(Last(WithId(objs, id)).children) \ Range(ObjIds(objs)) # {}

\* unite_geometry_objects, with ids from 0 on each page.
Unite(objs, ids) ==
    [k \in DOMAIN ids |-> UpdateId(MergeObjs(WithId(objs, ids[k]), k - 1), ids)]

\* ModelOutput.merge
Merged(pages) ==
    [n \in DOMAIN Numbers(pages) |->
        [num |-> Numbers(pages)[n],
         objs |-> Unite(ObjsOf(pages, Numbers(pages)[n]),
                        ObjIds(ObjsOf(pages, Numbers(pages)[n])))]]

-----------------------------------------------------------------------------
(* The task *)

Init ==
    /\ dirOf \in Dirs
    /\ found = [s \in {} |-> <<>>]
    /\ results = [n \in {} |-> <<>>]
    /\ stored = [t \in MergeTask |-> 0]
    /\ outcome = [t \in MergeTask |-> "none"]
    /\ annotated = [t \in MergeTask |-> <<>>]

By(step, shape) ==
    [i \in DOMAIN shape |->
        [num |-> shape[i].num,
         objs |-> [k \in DOMAIN shape[i].objs |->
                      [id |-> shape[i].objs[k].id, by |-> <<step, shape[i].objs[k].id>>,
                       keys |-> shape[i].objs[k].keys, link |-> shape[i].objs[k].link,
                       children |-> shape[i].objs[k].children]]]]

\* The next step of a task stores what it finds.
StoreResult(t, shape) ==
    /\ stored[t] < Len(StepsOf[t])
    /\ stored' = [stored EXCEPT ![t] = @ + 1]
    /\ LET step == StepsOf[t][stored[t] + 1]
       IN  /\ results' = (ResultName(t, step) :> By(step, shape)) @@ results
           /\ found' = (step :> By(step, shape)) @@ found
    /\ UNCHANGED <<dirOf, outcome, annotated>>

\* The path of a task, from the output path of its first step.
TaskPath(t) == PathOf(ResultName(t, StepsOf[t][1]))

\* get_pipeline_leaves_data
LeavesData(names) == FlattenSeq([i \in DOMAIN names |-> results[names[i]]])

Ends(t, how, remaining, pages) ==
    /\ outcome' = [outcome EXCEPT ![t] = how]
    /\ results' = Restrict(results, remaining)
    /\ annotated' = [annotated EXCEPT ![t] = pages]
    /\ UNCHANGED <<dirOf, stored, found>>

\* delete_objects, one after the other; a failure stops it and is ignored.
Removed(names) ==
    {DOMAIN results \ Range(names)} \cup
        IF "remove" \notin MergeFaults THEN {}
        ELSE {DOMAIN results \ {names[i] : i \in 1 .. n} : n \in 0 .. Len(names) - 1}

\* manage_result_for_annotator, when all steps are done.
ManageResult(t) ==
    /\ stored[t] = Len(StepsOf[t]) /\ outcome[t] = "none"
    /\ \E names \in {ListObjectNames(TaskPath(t))} : \E pages \in {LeavesData(names)} :
           \/ /\ \/ MergeFaults \cap {"read", "postprocess"} # {}
                 \/ pages = <<>>
              /\ Ends(t, "failed", DOMAIN results, <<>>)
           \/ /\ \E n \in Range(Numbers(pages)) : ChildMissing(ObjsOf(pages, n))
              /\ Ends(t, "raised", DOMAIN results, <<>>)
           \/ /\ pages # <<>>
              /\ \A n \in Range(Numbers(pages)) : ~ChildMissing(ObjsOf(pages, n))
              /\ \/ "post" \in MergeFaults
                     /\ Ends(t, "failed", DOMAIN results, Merged(pages))
                 \/ \E remaining \in Removed(names) :
                        Ends(t, "managed", remaining, Merged(pages))

Next ==
    \E t \in MergeTask : ManageResult(t) \/ \E shape \in Shapes : StoreResult(t, shape)

Spec == Init /\ [][Next]_mergingVars

-----------------------------------------------------------------------------
(* Properties *)

\* What a step has found on a page.
Found(step, num) == Range(ObjsOf(found[step], num))

\* Neither the path of the task nor that of another begins with the other, and
\* its steps are listed in their order.
Apart(t) ==
    /\ \A u \in MergeTask \ {t} : /\ ~IsPrefix(OutputPath(t), OutputPath(u))
                                /\ ~IsPrefix(OutputPath(u), OutputPath(t))
    /\ \A i, k \in DOMAIN StepsOf[t] :
           Len(Digits(StepsOf[t][i])) = Len(Digits(StepsOf[t][k]))

\* A page that is annotated has an object once, however many steps name it, and
\* gives it the children that the step gave it whose box it has; and if the
\* tasks do not meet it has all that the steps of its own found, each as the
\* last of them did.
PageIsUnited(t, num, objs) ==
    /\ \A k, j \in DOMAIN objs :
           k # j => objs[k].by[2] # objs[j].by[2] /\ objs[k].id # objs[j].id
    /\ \A k \in DOMAIN objs :
           \E o \in Found(objs[k].by[1], num) :
               /\ o.by = objs[k].by
               /\ o.children = [c \in DOMAIN objs[k].children |->
                                    objs[objs[k].children[c] + 1].by[2]]
    /\ Apart(t) =>
           \A i \in DOMAIN StepsOf[t] : \A o \in Found(StepsOf[t][i], num) :
               \E k \in DOMAIN objs : /\ objs[k].by[2] = o.id
                                      /\ objs[k].by[1] >= o.by[1]
                                      /\ o.keys \subseteq objs[k].keys

ObjectsAreUnited ==
    \A t \in MergeTask : \A n \in DOMAIN annotated[t] :
        PageIsUnited(t, annotated[t][n].num, annotated[t][n].objs)

\* "Path of the step results" (manage_result_for_annotator): a task merges and
\* removes what its own steps have stored.
MergesItsOwn ==
    \A t \in MergeTask : \A n \in DOMAIN annotated[t] :
        \A k \in DOMAIN annotated[t][n].objs :
            annotated[t][n].objs[k].by[1] \in Range(StepsOf[t])

=============================================================================
