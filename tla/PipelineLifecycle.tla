------------------------- MODULE PipelineLifecycle -------------------------
(***************************************************************************)
(* What the pipelines service promises about the tasks of a pipeline, and  *)
(* nothing of how: a step begins when the step before it has been done, a  *)
(* task ends once, and it is finished only with all of its steps done.     *)
(* The promise is void for a task one of whose steps was answered twice,   *)
(* and what was never begun cannot be done.                                *)
(***************************************************************************)
CONSTANT Task

VARIABLES
    parent,  \* the step before each step, or the step itself at the top
    stage,   \* of a task: "open" (not ended), "finished", "failed" or "deleted"
    begun,   \* <<task, step>> pairs that were handed to a model or skipped
    done,    \* pairs whose step is done
    void     \* tasks with a step that was answered twice

lifecycleVars == <<parent, stage, begun, done, void>>

Init ==
    /\ stage = [t \in Task |-> "open"]
    /\ begun = {} /\ done = {} /\ void = {}

Begin(t, s) ==
    /\ parent[s] = s \/ <<t, parent[s]>> \in done
    /\ begun' = begun \cup {<<t, s>>}
    /\ UNCHANGED <<parent, stage, done, void>>

Complete(t, s) ==
    /\ <<t, s>> \in begun
    /\ done' = done \cup {<<t, s>>}
    /\ UNCHANGED <<parent, stage, begun, void>>

\* The last step of a task may be done and the task finished in one step.
Finish(t) ==
    /\ stage[t] = "open"
    /\ done' \in {done} \cup {done \cup {p} : p \in begun}
    /\ {t} \X DOMAIN parent \subseteq done'
    /\ stage' = [stage EXCEPT ![t] = "finished"]
    /\ UNCHANGED <<parent, begun, void>>

Fail(t) ==
    /\ stage[t] = "open"
    /\ done' \in {done} \cup {done \cup {p} : p \in begun}
    /\ stage' = [stage EXCEPT ![t] = "failed"]
    /\ UNCHANGED <<parent, begun, void>>

\* It is deleted at any time.
Delete(t) ==
    /\ stage' = [stage EXCEPT ![t] = "deleted"]
    /\ UNCHANGED <<parent, begun, done, void>>

\* A task is void from the moment one of its steps is answered again.
Repeat(t) ==
    /\ void' = void \cup {t}
    /\ UNCHANGED <<parent, stage, begun, done>>

Other(u, x) == {p \in x : p[1] # u}

\* What a void task does is not restricted; the others are left alone.
Anything(t) ==
    /\ t \in void
    /\ \A u \in Task \ {t} :
           /\ stage'[u] = stage[u]
           /\ Other(t, begun') = Other(t, begun)
           /\ Other(t, done') = Other(t, done)
    /\ UNCHANGED <<parent, void>>

Next == \E t \in Task :
    \/ \E s \in DOMAIN parent : Begin(t, s) \/ Complete(t, s)
    \/ Finish(t) \/ Fail(t) \/ Delete(t) \/ Repeat(t) \/ Anything(t)

Spec == Init /\ [][Next]_lifecycleVars

=============================================================================
