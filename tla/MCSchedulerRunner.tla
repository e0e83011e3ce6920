------------------------- MODULE MCSchedulerRunner -------------------------
(***************************************************************************)
(* Small instances of SchedulerRunner for TLC: one partition, whose        *)
(* messages name the units of the instance.  Where every runner may crash  *)
(* the runners are interchangeable.                                        *)
(***************************************************************************)
EXTENDS SchedulerRunner, TLC

CONSTANTS r1, r2, r3, u1, u2, p1

TwoUnits == [p \in {p1} |-> <<Malformed, u1, u2>>]

Resent == [p \in {p1} |-> <<u1, Malformed, u1>>]

OneUnit == [p \in {p1} |-> <<u1>>]

Processes == Permutations(Runner)

=============================================================================
