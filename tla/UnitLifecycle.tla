--------------------------- MODULE UnitLifecycle ---------------------------
(***************************************************************************)
(* What the scheduler promises about a unit of work: it is accepted once,  *)
(* run by one runner at a time, run again only if that runner is dead,     *)
(* finished only by the runner that has it, and answered at most once,     *)
(* after it is finished.  Nothing is said of how runners notice.           *)
(***************************************************************************)
CONSTANTS Unit, Runner, None

VARIABLES
    stage,     \* where each unit is
    who,       \* the runner that has it, while it runs
    dead,      \* runners that are gone
    answered   \* units whose response was sent

Stages == {"new", "waiting", "running", "finished"}

Init ==
    /\ stage = [u \in Unit |-> "new"]
    /\ who = [u \in Unit |-> None]
    /\ dead = {}
    /\ answered = {}

Accept(u) ==
    /\ stage[u] = "new"
    /\ stage' = [stage EXCEPT ![u] = "waiting"]
    /\ UNCHANGED <<who, dead, answered>>

Run(u, r) ==
    /\ stage[u] = "waiting" /\ r \notin dead
    /\ stage' = [stage EXCEPT ![u] = "running"]
    /\ who' = [who EXCEPT ![u] = r]
    /\ UNCHANGED <<dead, answered>>

Finish(u) ==
    /\ stage[u] = "running" /\ who[u] \notin dead
    /\ stage' = [stage EXCEPT ![u] = "finished"]
    /\ who' = [who EXCEPT ![u] = None]
    /\ UNCHANGED <<dead, answered>>

Answer(u) ==
    /\ stage[u] = "finished" /\ u \notin answered
    /\ answered' = answered \cup {u}
    /\ UNCHANGED <<stage, who, dead>>

Die(r) ==
    /\ dead' = dead \cup {r}
    /\ UNCHANGED <<stage, who, answered>>

\* Units of dead runners wait to be run again.
Recover(us) ==
    /\ \A u \in us : stage[u] = "running" /\ who[u] \in dead
    /\ stage' = [u \in Unit |-> IF u \in us THEN "waiting" ELSE stage[u]]
    /\ who' = [u \in Unit |-> IF u \in us THEN None ELSE who[u]]
    /\ UNCHANGED <<dead, answered>>

Next ==
    \/ \E u \in Unit : Accept(u) \/ Finish(u) \/ Answer(u)
    \/ \E u \in Unit, r \in Runner : Run(u, r)
    \/ \E r \in Runner : Die(r)
    \/ \E us \in SUBSET Unit : Recover(us)

Spec == Init /\ [][Next]_<<stage, who, dead, answered>>

=============================================================================
