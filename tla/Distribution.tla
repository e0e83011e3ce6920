----------------------------- MODULE Distribution -----------------------------
(***************************************************************************)
(* The distribution of the pages of a job's files to its users             *)
(* (annotation/distribution/main.py): how many pages each user gets, which *)
(* files are given as a whole, how the others are split, and which pages   *)
(* already in work are taken off again.  Every user has the same           *)
(* default_load: no code changes it.  The shares, floats in the code, are  *)
(* exact here.                                                             *)
(*                                                                         *)
(* A file is [id, left]: the pages still to be given.  A user is           *)
(* [id, overall, load]: pages he has in all jobs, and those of this one.   *)
(***************************************************************************)
EXTENDS Integers, FiniteSets, SequencesExt

CONSTANT MaxPages \* MAX_PAGES: the most pages of one task

Reordered(seq, Before(_, _)) ==
    LET order == SetToSortSeq(DOMAIN seq, LAMBDA i, j :
                     Before(seq[i], seq[j]) \/ (~Before(seq[j], seq[i]) /\ i < j))
    IN  FoldLeft(LAMBDA sorted, i : Append(sorted, seq[i]), <<>>, order)

ByLoad(users) == Reordered(users, LAMBDA u, w : u.load > w.load)

Count(file) == Cardinality(file.left)
SumOver(seq, Value(_)) == FoldLeft(LAMBDA sum, e : sum + Value(e), 0, seq)
PagesIn(files) == SumOver(files, Count)

Ascending(pages) == SetToSortSeq(pages, <)
FirstOf(pages, n) == LET seq == Ascending(pages) IN {seq[i] : i \in 1 .. n}

\* Pages in tasks of at most MaxPages, in their order.
Chunks(pages) ==
    LET seq == Ascending(pages)
        n == Len(seq)
        full == (n + MaxPages - 1) \div MaxPages
        last(k) == IF k * MaxPages < n THEN k * MaxPages ELSE n
    IN  [k \in 1 .. full |-> {seq[i] : i \in (k - 1) * MaxPages + 1 .. last(k)}]

Task(file, user, validation, pages) ==
    [file |-> file.id, user |-> user.id, validation |-> validation, pages |-> pages]

TasksOf(file, user, validation, pages) ==
    LET chunks == Chunks(pages)
    IN  [k \in DOMAIN chunks |-> Task(file, user, validation, chunks[k])]

-----------------------------------------------------------------------------
(* How many pages each user gets *)

\* round: to the nearest integer, of two to the even one.
Round(a, b) ==
    LET q == a \div b
        r == 2 * (a % b)
    IN  IF r > b \/ (r = b /\ q % 2 = 1) THEN q + 1 ELSE q

\* find_users_share_loads: the share of a user without its denominator; who
\* has less work than the average gets more.
Share(user, users) ==
    LET all == SumOver(users, LAMBDA u : u.overall)
        n == Len(users)
    IN  IF all = 0 THEN 1 ELSE all * (n + 1) - user.overall * n

AtMost(n, most) == IF n < most THEN n ELSE most
AtLeast(n, least) == IF n > least THEN n ELSE least

More(acc, i, n) ==
    [users |-> [acc.users EXCEPT ![i].load = @ + n], left |-> acc.left - n]

\* Passes over the users that may take more, at least a page each.
RECURSIVE FillUp(_, _, _, _), FillFrom(_, _, _, _)
FillUp(users, left, pages, total) ==
    IF left <= 0 THEN users
    ELSE FillFrom([users |-> users, left |-> left], 1, pages, total)

FillFrom(acc, i, pages, total) ==
    IF i > Len(acc.users) THEN FillUp(acc.users, acc.left, pages, total)
    ELSE IF acc.left = 0 \/ acc.users[i].load >= pages
    THEN FillFrom(acc, i + 1, pages, total)
    ELSE FillFrom(More(acc, i, AtMost(AtLeast(Round(acc.left * acc.users[i].share, total), 1),
                                      pages - acc.users[i].load)),
                  i + 1, pages, total)

SumOfLoads(users) == SumOver(users, LAMBDA u : u.load)

\* The first loads: the rounded shares, each at most all the pages.
FirstLoads(users, shares, total, pages, wanted) ==
    ByLoad([i \in DOMAIN users |->
               [id |-> users[i].id, overall |-> users[i].overall, share |-> shares[i],
                load |-> AtMost(Round(wanted * shares[i], total), pages)]])

\* What rounding gave too many is taken off the user with the most.
Settled(users, wanted) ==
    [users EXCEPT ![1].load = @ + wanted - SumOfLoads(users)]

Filled(loaded, total, pages, wanted) ==
    Settled(FillUp(loaded, wanted - SumOfLoads(loaded), pages, total), wanted)

LoadsFor(users, shares, total, pages, wanted) ==
    Filled(FirstLoads(users, shares, total, pages, wanted), total, pages, wanted)

SharesFor(users, shares, pages, coverage) ==
    LoadsFor(users, shares, SumOver(shares, LAMBDA x : x), pages, pages * coverage)

\* calculate_users_load: the rounded shares, filled up to all the pages.
UsersLoad(files, users, coverage) ==
    SharesFor(users, [i \in DOMAIN users |-> Share(users[i], users)], PagesIn(files),
              coverage)

-----------------------------------------------------------------------------
(* Whole files *)

Annotates(t, user, file) == t.user = user.id /\ t.file = file.id

\* The file is given to the user: create_tasks.
GiveWhole(acc, i, k, validation) ==
    LET file == acc.files[k]
        user == acc.users[i]
    IN  [files |-> [acc.files EXCEPT ![k].left = {}],
         users |-> [acc.users EXCEPT ![i].load = @ - Count(file)],
         tasks |-> acc.tasks \o TasksOf(file, user, validation, file.left)]

LexBefore(s, t) ==
    \E n \in 0 .. Len(s) :
        /\ n < Len(t) /\ SubSeq(s, 1, n) = SubSeq(t, 1, n)
        /\ n = Len(s) \/ s[n + 1] < t[n + 1]

\* find_equal_files: the first combination of files with as many pages as the
\* user is to get, in the order find_pages_combination tries them.
EqualFiles(files, among, load) ==
    LET fits == {S \in SUBSET {k \in among : Count(files[k]) > 0} :
                     SumOver(SetToSeq(S), LAMBDA k : Count(files[k])) = load}
        orders == {Ascending(S) : S \in fits}
    IN  IF orders = {} THEN <<>>
        ELSE CHOOSE s \in orders : \A t \in orders \ {s} : LexBefore(s, t)

\* find_small_files: those that fit, one after the other.
SmallFiles(files, among, load) ==
    LET one(acc, k) ==
            IF Count(files[k]) <= acc.load
            THEN [load |-> acc.load - Count(files[k]), chosen |-> Append(acc.chosen, k)]
            ELSE acc
    IN  FoldLeft(one, [load |-> load, chosen |-> <<>>],
                 Ascending({k \in among : Count(files[k]) > 0})).chosen

GiveAll(acc, i, ks, validation) ==
    FoldLeft(LAMBDA x, k : GiveWhole(x, i, k, validation), acc, ks)

GiveEqual(acc, i, among, validation) ==
    GiveAll(acc, i, EqualFiles(acc.files, among, acc.users[i].load), validation)
GiveSmall(acc, i, among, validation) ==
    GiveAll(acc, i, SmallFiles(acc.files, among, acc.users[i].load), validation)

\* Files of which the user annotates no page.
Unannotated(user, files, annotated) ==
    {k \in DOMAIN files : ~\E t \in annotated : Annotates(t, user, files[k])}

GiveBoth(acc, i, among, validation) ==
    GiveSmall(GiveEqual(acc, i, among, validation), i, among, validation)

\* distribute_whole_files, to one user after the other
RECURSIVE WholeFilesFrom(_, _, _, _)
WholeFilesFrom(acc, i, validation, annotated) ==
    IF i > Len(acc.users) THEN acc
    ELSE WholeFilesFrom(
             GiveBoth(acc, i, Unannotated(acc.users[i], acc.files, annotated), validation),
             i + 1, validation, annotated)

WholeFiles(files, users, validation, annotated) ==
    WholeFilesFrom([files |-> files, users |-> users, tasks |-> <<>>], 1, validation,
                   annotated)

-----------------------------------------------------------------------------
(* Parts of files *)

\* A task of the pages gathered for the first user.
EndPart(acc, file) ==
    [acc EXCEPT !.tasks = @ \o TasksOf(file, acc.users[1], FALSE, acc.pages),
                !.pages = {}]

NextUser(acc) ==
    IF acc.users[1].load = 0 THEN [acc EXCEPT !.users = Tail(@)] ELSE acc

TakePage(acc, file, p) ==
    LET full == acc.users[1].load = 0 \/ Cardinality(acc.pages) >= MaxPages
        before == IF full THEN EndPart(acc, file) ELSE acc
        taken == NextUser([before EXCEPT !.pages = @ \cup {p}])
    IN  [taken EXCEPT !.users = <<[@[1] EXCEPT !.load = @ - 1]>> \o Tail(@)]

\* distribute_annotation_partial_files: the pages one by one to the first user
\* that has some left; a task ends with the user, the file or at MaxPages.
RECURSIVE PartOfFile(_, _, _)
PartOfFile(acc, file, pages) ==
    IF pages = <<>> THEN EndPart(acc, file)
    ELSE PartOfFile(TakePage(acc, file, Head(pages)), file, Tail(pages))

PartsForAnnotation(files, users) ==
    FoldLeft(LAMBDA acc, f : PartOfFile(NextUser(acc), f, Ascending(f.left)),
             [users |-> SelectSeq(users, LAMBDA u : u.load # 0),
              pages |-> {}, tasks |-> <<>>],
             SelectSeq(files, LAMBDA f : Count(f) > 0)).tasks

OwnPages(annotated, user, file) ==
    UNION {t.pages : t \in {x \in annotated : Annotates(x, user, file)}}

\* filter_validation_files_pages: the pages a validator does not annotate.
MayValidate(user, file, annotated) == file.left \ OwnPages(annotated, user, file)

\* Of these pages, as many as the validator's load; all of them in the second
\* round; one for a load below zero, which the first page makes zero.
Allotted(may, load, counted) ==
    IF ~counted THEN may
    ELSE FirstOf(may, AtMost(IF load < 0 THEN 1 ELSE load, Cardinality(may)))

GivePages(x, i, k, pages) ==
    [files |-> [x.files EXCEPT ![k].left = @ \ pages],
     users |-> [x.users EXCEPT ![i].load =
                   IF pages = {} THEN @ ELSE AtLeast(@ - Cardinality(pages), 0)],
     tasks |-> x.tasks \o TasksOf(x.files[k], x.users[i], TRUE, pages)]

\* One round: the pages of each file to one validator after the other.
RECURSIVE ForValidators(_, _, _, _, _)
ForValidators(x, i, k, annotated, counted) ==
    IF i > Len(x.users) THEN x
    ELSE IF k > Len(x.files) THEN ForValidators(x, i + 1, 1, annotated, counted)
    ELSE ForValidators(
             GivePages(x, i, k, Allotted(MayValidate(x.users[i], x.files[k], annotated),
                                         x.users[i].load, counted)),
             i, k + 1, annotated, counted)

FirstRound(files, users, annotated) ==
    ForValidators([files |-> files, users |-> users, tasks |-> <<>>], 1, 1, annotated, TRUE)

SecondRound(first, annotated) ==
    IF PagesIn(first.files) = 0 THEN first.tasks
    ELSE ForValidators(first, 1, 1, annotated, FALSE).tasks

PartsForValidation_Counted(files, users, annotated) ==
    FirstRound(files, users, annotated).tasks

\* distribute_validation_partial_files
PartsForValidation(files, users, annotated) ==
    SecondRound(FirstRound(files, users, annotated), annotated)

\* The tasks of the whole files, then those of the parts that are left.
WithParts(whole, validation, annotated) ==
    whole.tasks \o
        IF validation THEN PartsForValidation(whole.files, whole.users, annotated)
        ELSE PartsForAnnotation(whole.files, whole.users)

\* distribute_tasks
DistributeTasks(files, users, validation, annotated) ==
    WithParts(WholeFiles(files, UsersLoad(files, users, 1), validation, annotated),
              validation, annotated)

-----------------------------------------------------------------------------
(* Several annotators for each page *)

\* The pages a user of the round has not seen, as many as he may take.
Takes(acc, unseen, pages, user) ==
    FirstOf(unseen, AtMost(AtMost(user.load, MaxPages),
                           AtMost(Cardinality(pages), Cardinality(unseen))))

Seen(tasks, user, file) ==
    UNION {t.pages : t \in {x \in ToSet(tasks) : Annotates(x, user, file)}}

Taken(acc, file, taken) ==
    [acc EXCEPT !.users[Head(acc.first)].load = @ - Cardinality(taken),
                !.tasks = Append(@, Task(file, acc.users[Head(acc.first)], FALSE, taken)),
                !.first = IF acc.users[Head(@)].load = Cardinality(taken) THEN Tail(@)
                          ELSE @]

\* One round over a file: the first user takes what he has not seen, and is
\* out for this file when there is nothing or his pages are used up.
RECURSIVE OneCoverage(_, _, _), TakeUnseen(_, _, _, _)
OneCoverage(acc, file, pages) ==
    IF pages = {} \/ acc.failed THEN acc
    ELSE IF acc.first = <<>> THEN [acc EXCEPT !.failed = TRUE]
    ELSE TakeUnseen(acc, file, pages, pages \ Seen(acc.tasks, acc.users[Head(acc.first)], file))

TakeUnseen(acc, file, pages, unseen) ==
    IF unseen = {} THEN OneCoverage([acc EXCEPT !.first = Tail(@)], file, pages)
    ELSE OneCoverage(Taken(acc, file, Takes(acc, unseen, pages, acc.users[Head(acc.first)])),
                     file,
                     pages \ Takes(acc, unseen, pages, acc.users[Head(acc.first)]))

\* The users with pages left, those with the most first.
InTurn(users) ==
    SelectSeq(Reordered([i \in DOMAIN users |-> i],
                        LAMBDA x, y : users[x].load > users[y].load),
              LAMBDA i : users[i].load > 0)

\* Each file, the shortest first, as often as the coverage says.
RECURSIVE Coverages(_, _, _)
Coverages(acc, files, coverage) ==
    IF files = <<>> THEN acc
    ELSE Coverages(FoldLeft(LAMBDA x, c : OneCoverage(x, Head(files), Head(files).left),
                            [acc EXCEPT !.first = InTurn(acc.users)],
                            [c \in 1 .. coverage |-> c]),
                   Tail(files), coverage)

\* distribute_tasks_extensively; failed when it runs out of users.
DistributeExtensively(files, users, coverage) ==
    Coverages([users |-> UsersLoad(files, users, coverage), first |-> <<>>,
               tasks |-> <<>>, failed |-> FALSE],
              Reordered(files, LAMBDA f, g : Count(f) < Count(g)), coverage)

-----------------------------------------------------------------------------
(* Pages that are in work already *)

PagesBefore(x, y) == LexBefore(Ascending(x.pages), Ascending(y.pages))

\* One started task against the new ones: a task that becomes empty is popped
\* from the list it is found in, and the next one is passed over.
RECURSIVE Strip(_, _, _, _), StripOne(_, _, _, _, _)
Strip(tasks, i, file, pages) ==
    IF i > Len(tasks) THEN tasks
    ELSE StripOne(tasks, i, file, pages,
                  IF tasks[i].file = file THEN tasks[i].pages \cap pages ELSE {})

Without(tasks, i, same) ==
    IF tasks[i].pages = same THEN RemoveAt(tasks, i)
    ELSE [tasks EXCEPT ![i].pages = @ \ same]

StripOne(tasks, i, file, pages, same) ==
    IF same = {} THEN Strip(tasks, i + 1, file, pages)
    ELSE IF pages \subseteq same THEN Without(tasks, i, same)
    ELSE Strip(Without(tasks, i, same), i + 1, file, pages \ same)

\* remove_pages_in_work
RemovePagesInWork(tasks, working) ==
    IF working = <<>> THEN tasks
    ELSE FoldLeft(LAMBDA ts, w : Strip(ts, 1, w.file, w.pages),
                  Reordered(tasks, PagesBefore), Reordered(working, PagesBefore))

\* calculate_users_load leaves the users sorted by their first loads.
Sorted(files, users) ==
    IF users = <<>> THEN <<>> ELSE UsersLoad(files, users, 1)

\* choose_validators_users
ValidatorsFor(type, files, annotators, validators) ==
    IF type = "cross" THEN Sorted(files, annotators) ELSE validators

\* create_tasks adds the pages of new tasks to the loads of their users
\* (update_user_overall_load).
WithLoads(users, tasks) ==
    [i \in DOMAIN users |->
        [users[i] EXCEPT !.overall =
            @ + SumOver(SelectSeq(tasks, LAMBDA t : t.user = users[i].id),
                        LAMBDA t : Cardinality(t.pages))]]

\* The validation, in a cross job by who does not annotate the same pages.
Validation(annotated, files, checkers, working) ==
    IF checkers = <<>> THEN <<>>
    ELSE RemovePagesInWork(DistributeTasks(files, checkers, TRUE, annotated),
                           SelectSeq(working, LAMBDA w : w.validation))

WithValidation(annotation, files, checkers, type, working) ==
    IF annotation.failed THEN annotation
    ELSE [annotation EXCEPT !.tasks = @ \o
              Validation(IF type = "cross" THEN ToSet(@) ELSE {}, files, checkers, working)]

NotInWork(spread, working) ==
    IF spread.failed THEN [failed |-> TRUE, tasks |-> <<>>]
    ELSE [failed |-> FALSE,
          tasks |-> RemovePagesInWork(spread.tasks,
                                      SelectSeq(working, LAMBDA w : ~w.validation))]

\* The annotation; failed when the extensive distribution runs out of users.
Annotation(files, annotators, type, coverage, working) ==
    IF annotators = <<>> THEN [failed |-> FALSE, tasks |-> <<>>]
    ELSE NotInWork(IF type = "extensive_coverage" /\ coverage > 1
                   THEN DistributeExtensively(files, annotators, coverage)
                   ELSE [failed |-> FALSE,
                         tasks |-> DistributeTasks(files, annotators, FALSE, {})],
                   working)

\* distribute: annotation first, validation of what is left for it afterwards, by
\* users who have the work of the annotation by then.
Distribute(files, validationFiles, annotators, validators, type, coverage, working) ==
    LET annotation == Annotation(files, annotators, type, coverage, working)
        checkers == ValidatorsFor(type, files, annotators, validators)
    IN  WithValidation(annotation, validationFiles, WithLoads(checkers, annotation.tasks),
                       type, working)

=============================================================================
