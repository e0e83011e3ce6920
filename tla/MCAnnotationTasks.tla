------------------------- MODULE MCAnnotationTasks -------------------------
(***************************************************************************)
(* Small instances of AnnotationTasks for TLC.  Users a and b annotate and *)
(* v validates.  Task ids bound the tasks ever created; the worker threads *)
(* are interchangeable.                                                    *)
(***************************************************************************)
EXTENDS AnnotationTasks, TLC

CONSTANTS a, b, v, w1, w2

Threads == Permutations(Worker)

=============================================================================
