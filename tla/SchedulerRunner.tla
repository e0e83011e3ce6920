-------------------------- MODULE SchedulerRunner --------------------------
(***************************************************************************)
(* The runners of the scheduler service (scheduler/scheduler).  A runner   *)
(* is one process, with a uuid of its own: a restart is another runner.    *)
(* On its event loop a consumer stores the units it reads from Kafka, a    *)
(* coroutine per unit posts it to a model and sends the response, and a    *)
(* heartbeat takes over the units of runners whose heartbeat has expired.  *)
(* Each action runs from one await, commit or end of a transaction to the  *)
(* next.  A definition D_Something is D with a mistake in it, kept to show *)
(* that a property would notice.                                           *)
(***************************************************************************)
EXTENDS Naturals, Sequences

CONSTANTS
    Runner,     \* processes that may ever be started
    Mortal,     \* those of them that may crash
    Unit,       \* ids of units
    Partition,  \* partitions of the consumed topics
    Log,        \* the messages in each partition: unit ids or Malformed
    Malformed,  \* a message without url, body or tenant
    None,       \* no runner_id, no owner, no unit
    Faults      \* kinds of failures of the instance

Finished == {"done", "failed"}

FaultKinds ==
    {"crash",      \* a mortal runner's process ends
     "error",      \* an exception in a consumer or a coroutine
     "heartbeat",  \* an exception in a heartbeat
     "stall"}      \* a process is held up longer than the threshold

ASSUME SchedulerAssumption ==
    /\ Mortal \subseteq Runner /\ Faults \subseteq FaultKinds
    /\ None \notin Runner \cup Unit /\ Malformed \notin Unit
    /\ Log \in [Partition -> Seq(Unit \cup {Malformed})]

VARIABLES
    row,         \* the units table: status and runner_id
    heartbeat,   \* the heartbeat table
    life,        \* is the process new, up or down?
    beating,     \* runners whose heartbeat coroutine has raised nothing
    consumer,    \* where run_scheduler is in each runner, and with what unit
    coroutines,  \* fetch_and_send coroutines that have not ended
    owner,       \* the runner a partition is assigned to
    position,    \* how many messages of it that runner has read
    committed,   \* the group's committed offset
    responses    \* what was sent to the response topic, and by what coroutine

vars == <<row, heartbeat, life, beating, consumer, coroutines, owner,
          position, committed, responses>>

-----------------------------------------------------------------------------
Unfinished_Received == {"received"}

Unfinished_All == {"received", "in_progress"} \cup Finished

\* The statuses get_not_finished_units looks for.
Unfinished == {"received", "in_progress"}

Row == [status : {"absent", "null"} \cup Unfinished \cup Finished,
        runner : Runner \cup {None}]

\* A consumer has stored its unit, set it to RECEIVED, committed.
Busy == {"stored", "received", "committed"}

Consumer == [pc : {"off", "poll", "stopped"} \cup Busy, unit : Unit \cup {None}]

\* from: the dead runner it was taken over from, None if it came by Kafka.
\* Once the model has answered, pc is the result that is to be sent.
Coroutine == [runner : Runner, unit : Unit, from : Runner \cup {None},
              pc : {"created", "posting"} \cup Finished]

Response == [runner : Runner, unit : Unit, from : Runner \cup {None},
             status : Finished]

\* Nothing else runs in a process while it stores a unit and updates it.
LoopFree(r) == life[r] = "up" /\ consumer[r].pc # "stored"

Init ==
    /\ row = [u \in Unit |-> [status |-> "absent", runner |-> None]]
    /\ heartbeat = [r \in Runner |-> "absent"]
    /\ life = [r \in Runner |-> "new"]
    /\ beating = {}
    /\ consumer = [r \in Runner |-> [pc |-> "off", unit |-> None]]
    /\ coroutines = {}
    /\ owner = [p \in Partition |-> None]
    /\ position = [p \in Partition |-> 0]
    /\ committed = [p \in Partition |-> 0]
    /\ responses = {}

-----------------------------------------------------------------------------
(* Processes *)

\* startup_event: the heartbeat coroutine is the first to run.
Start(r) ==
    /\ life[r] = "new"
    /\ life' = [life EXCEPT ![r] = "up"]
    /\ heartbeat' = [heartbeat EXCEPT ![r] = "fresh"]
    /\ beating' = beating \cup {r}
    /\ consumer' = [consumer EXCEPT ![r].pc = "poll"]
    /\ UNCHANGED <<row, coroutines, owner, position, committed, responses>>

Crash(r) ==
    /\ "crash" \in Faults /\ r \in Mortal /\ life[r] = "up"
    /\ life' = [life EXCEPT ![r] = "down"]
    /\ consumer' = [consumer EXCEPT ![r] = [pc |-> "off", unit |-> None]]
    /\ coroutines' = {c \in coroutines : c.runner # r}
    /\ UNCHANGED <<row, heartbeat, beating, owner, position, committed, responses>>

-----------------------------------------------------------------------------
(* The consumer *)

Consuming(r) == consumer[r].pc \in {"poll"} \cup Busy

Unattended(p) == owner[p] \notin {r \in Runner : Consuming(r)}

\* The group's coordinator assigns a partition; reading resumes from the
\* committed offset.
Assign(p, r) ==
    /\ Consuming(r) /\ owner[p] # r
    /\ owner' = [owner EXCEPT ![p] = r]
    /\ position' = [position EXCEPT ![p] = committed[p]]
    /\ UNCHANGED <<row, heartbeat, life, beating, consumer, coroutines,
                   committed, responses>>

Stored_Fresh == [status |-> "fresh", runner |-> None]

\* into_db leaves status and runner_id null.
Stored == [status |-> "null", runner |-> None]

(***************************************************************************)
(* The next message.  A malformed one and one whose unit is stored already *)
(* are skipped, and not committed.                                         *)
(***************************************************************************)
Receive(r, p) ==
    LET m == Log[p][position[p] + 1]
    IN  /\ consumer[r].pc = "poll" /\ owner[p] = r
        /\ position[p] < Len(Log[p])
        /\ position' = [position EXCEPT ![p] = @ + 1]
        /\ IF m = Malformed \/ row[m].status # "absent"
           THEN UNCHANGED <<row, consumer>>
           ELSE /\ row' = [row EXCEPT ![m] = Stored]
                /\ consumer' = [consumer EXCEPT ![r] = [pc |-> "stored", unit |-> m]]
        /\ UNCHANGED <<heartbeat, life, beating, coroutines, owner, committed,
                       responses>>

MarkReceived(r) ==
    /\ consumer[r].pc = "stored"
    /\ row' = [row EXCEPT ![consumer[r].unit].status = "received"]
    /\ consumer' = [consumer EXCEPT ![r].pc = "received"]
    /\ UNCHANGED <<heartbeat, life, beating, coroutines, owner, position,
                   committed, responses>>

Offsets_Next(r) ==
    [p \in Partition |-> IF owner[p] = r /\ position[p] < Len(Log[p])
                         THEN position[p] + 1 ELSE committed[p]]

\* What consumer.commit() commits: all it has read of its partitions.
Offsets(r) ==
    [p \in Partition |-> IF owner[p] = r THEN position[p] ELSE committed[p]]

Commit(r) ==
    /\ consumer[r].pc = "received"
    /\ committed' = Offsets(r)
    /\ consumer' = [consumer EXCEPT ![r].pc = "committed"]
    /\ UNCHANGED <<row, heartbeat, life, beating, coroutines, owner, position,
                   responses>>

Created(r, u, x) ==
    [runner |-> r, unit |-> u, from |-> x, pc |-> "created"]

Spawn(r) ==
    /\ consumer[r].pc = "committed"
    /\ coroutines' = coroutines \cup {Created(r, consumer[r].unit, None)}
    /\ consumer' = [consumer EXCEPT ![r] = [pc |-> "poll", unit |-> None]]
    /\ UNCHANGED <<row, heartbeat, life, beating, owner, position, committed,
                   responses>>

\* start_runner logs any exception, stops the consumer, and that is all.
ConsumerStops(r) ==
    /\ "error" \in Faults /\ Consuming(r)
    /\ consumer' = [consumer EXCEPT ![r] = [pc |-> "stopped", unit |-> None]]
    /\ owner' = [p \in Partition |-> IF owner[p] = r THEN None ELSE owner[p]]
    /\ UNCHANGED <<row, heartbeat, life, beating, coroutines, position,
                   committed, responses>>

-----------------------------------------------------------------------------
(* fetch_and_send *)

Step(c, d) == coroutines' = (coroutines \ {c}) \cup {d}

StartUnit(c) ==
    /\ c.pc = "created" /\ LoopFree(c.runner)
    /\ row' = [row EXCEPT ![c.unit] = [status |-> "in_progress", runner |-> c.runner]]
    /\ Step(c, [c EXCEPT !.pc = "posting"])
    /\ UNCHANGED <<heartbeat, life, beating, consumer, owner, position,
                   committed, responses>>

\* The model answered, refused, or did not answer within REQUEST_TIMEOUT.
FinishUnit(c, status) ==
    /\ c.pc = "posting" /\ LoopFree(c.runner)
    /\ row' = [row EXCEPT ![c.unit].status = status]
    /\ Step(c, [c EXCEPT !.pc = status])
    /\ UNCHANGED <<heartbeat, life, beating, consumer, owner, position,
                   committed, responses>>

Respond(c) ==
    /\ c.pc \in Finished /\ LoopFree(c.runner)
    /\ responses' = responses \cup
           {[runner |-> c.runner, unit |-> c.unit, from |-> c.from,
             status |-> c.pc]}
    /\ coroutines' = coroutines \ {c}
    /\ UNCHANGED <<row, heartbeat, life, beating, consumer, owner, position,
                   committed>>

\* "Other tasks continue to run."
CoroutineFails(c) ==
    /\ "error" \in Faults /\ LoopFree(c.runner)
    /\ coroutines' = coroutines \ {c}
    /\ UNCHANGED <<row, heartbeat, life, beating, consumer, owner, position,
                   committed, responses>>

-----------------------------------------------------------------------------
(* Heartbeats *)

\* Nobody has renewed r's row for HEARTBEAT_TIMEOUT * THRESHOLD_MUL seconds.
Expire(r) ==
    /\ heartbeat[r] = "fresh"
    /\ life[r] = "down" \/ r \notin beating \/ "stall" \in Faults
    /\ heartbeat' = [heartbeat EXCEPT ![r] = "expired"]
    /\ UNCHANGED <<row, life, beating, consumer, coroutines, owner, position,
                   committed, responses>>

\* get_expired_heartbeats, in a transaction that has renewed r's own row.
Expired(r) == {x \in Runner \ {r} : heartbeat[x] = "expired"}

NotFinished(x) == {u \in Unit : row[u].status \in Unfinished /\ row[u].runner = x}

TakenOver(r) == UNION {{Created(r, u, x) : u \in NotFinished(x)} : x \in Expired(r)}

Renewed_Kept(r) ==
    [x \in Runner |-> IF x = r /\ heartbeat[r] = "expired"
                      THEN "fresh" ELSE heartbeat[x]]

\* update_heartbeat_timestamp finds no row if r's was deleted.
Renewed(r) ==
    [x \in Runner |-> IF x \in Expired(r) THEN "absent"
                      ELSE IF x = r /\ heartbeat[r] = "expired"
                      THEN "fresh" ELSE heartbeat[x]]

\* One turn of the loop: renew, take over, delete the expired heartbeats.
Beat(r) ==
    /\ r \in beating /\ LoopFree(r)
    /\ LET taken == {c.unit : c \in TakenOver(r)}
       IN  row' = [u \in Unit |-> IF u \in taken
                                  THEN [status |-> "received", runner |-> None]
                                  ELSE row[u]]
    /\ heartbeat' = Renewed(r)
    /\ coroutines' = coroutines \cup TakenOver(r)
    /\ UNCHANGED <<life, beating, consumer, owner, position, committed, responses>>

\* Its transaction is rolled back; what it has passed to create_task runs.
BeatFails(r) ==
    /\ "heartbeat" \in Faults
    /\ r \in beating /\ LoopFree(r)
    /\ beating' = beating \ {r}
    /\ \E some \in SUBSET TakenOver(r) : coroutines' = coroutines \cup some
    /\ UNCHANGED <<row, heartbeat, life, consumer, owner, position, committed,
                   responses>>

-----------------------------------------------------------------------------
StepUnit(c) ==
    StartUnit(c) \/ (\E s \in Finished : FinishUnit(c, s)) \/ Respond(c)

Next ==
    \/ \E r \in Runner :
           \/ Start(r)
           \/ Crash(r)
           \/ \E p \in Partition : Assign(p, r) \/ Receive(r, p)
           \/ MarkReceived(r)
           \/ Commit(r)
           \/ Spawn(r)
           \/ ConsumerStops(r)
           \/ Expire(r)
           \/ Beat(r)
           \/ BeatFails(r)
    \/ \E c \in coroutines : StepUnit(c) \/ CoroutineFails(c)

Spec == Init /\ [][Next]_vars

\* A process that is up goes on running its coroutines; the request to the
\* model ends within REQUEST_TIMEOUT; time passes; the coordinator finds a
\* runner for a partition.
Fairness ==
    /\ \A r \in Runner :
           /\ WF_vars(Start(r))
           /\ WF_vars(\E p \in Partition : Receive(r, p))
           /\ WF_vars(MarkReceived(r))
           /\ WF_vars(Commit(r))
           /\ WF_vars(Spawn(r))
           /\ WF_vars(Expire(r))
           /\ WF_vars(Beat(r))
           /\ \A u \in Unit :
                  WF_vars(\E c \in coroutines :
                              c.runner = r /\ c.unit = u /\ StepUnit(c))
    /\ \A p \in Partition :
           WF_vars(Unattended(p) /\ \E r \in Runner : Assign(p, r))

FairSpec == Spec /\ Fairness

-----------------------------------------------------------------------------
(* Properties *)

ConsumersOK ==
    /\ consumer \in [Runner -> Consumer]
    /\ \A r \in Runner : /\ consumer[r].unit # None <=> consumer[r].pc \in Busy
                         /\ consumer[r].pc = "off" <=> life[r] # "up"

CoroutinesOK ==
    /\ coroutines \subseteq Coroutine
    /\ \A c \in coroutines : life[c.runner] = "up"

PartitionsOK ==
    /\ owner \in [Partition -> Runner \cup {None}]
    /\ position \in [Partition -> Nat] /\ committed \in [Partition -> Nat]
    /\ \A p \in Partition : position[p] <= Len(Log[p]) /\ committed[p] <= Len(Log[p])

(***************************************************************************)
(* The tables, offsets, coroutines and responses hold values of their      *)
(* types, and a consumer that is busy has a unit (run_scheduler).          *)
(***************************************************************************)
TypeOK ==
    /\ row \in [Unit -> Row]
    /\ heartbeat \in [Runner -> {"absent", "fresh", "expired"}]
    /\ life \in [Runner -> {"new", "up", "down"}]
    /\ beating \subseteq {r \in Runner : life[r] # "new"}
    /\ ConsumersOK
    /\ CoroutinesOK
    /\ PartitionsOK
    /\ responses \subseteq Response

(***************************************************************************)
(* Kafka never forgets a unit the database does not know: the offset       *)
(* passes a message only once its unit is stored (into_db before commit),  *)
(* whatever crashes, rebalances and repeated messages come between.        *)
(***************************************************************************)
CommittedUnitsAreStored ==
    \A p \in Partition : \A i \in 1..committed[p] :
        Log[p][i] # Malformed => row[Log[p][i]].status # "absent"

\* How UnitLifecycle sees a row.
StageOf(x) ==
    CASE x.status = "absent" -> "new"
      [] x.status \in {"null", "received"} -> "waiting"
      [] x.status = "in_progress" -> "running"
      [] x.status \in Finished -> "finished"

WhoOf(x) == IF x.status = "in_progress" THEN x.runner ELSE None

Stage == [u \in Unit |-> StageOf(row[u])]

Who == [u \in Unit |-> WhoOf(row[u])]

Dead == {r \in Runner : life[r] = "down"}

Answered == {a.unit : a \in responses}

Lifecycle ==
    INSTANCE UnitLifecycle
        WITH stage <- Stage, who <- Who, dead <- Dead, answered <- Answered

(***************************************************************************)
(* The scheduler runs a unit once at a time and answers it once, as long   *)
(* as only runners that are dead miss their heartbeats: the takeover, the  *)
(* statuses fetch_and_send writes and the responses implement              *)
(* UnitLifecycle.                                                          *)
(***************************************************************************)
RunsOneAtATime == Lifecycle!Spec

(***************************************************************************)
(* Whatever else fails, as long as no heartbeat's transaction does: two    *)
(* coroutines have the same unit only if the heartbeat of one of their     *)
(* runners was deleted, which happens to a runner that is alive when it is *)
(* held up too long (manage_expired_runners).                              *)
(***************************************************************************)
OneRunUnlessHeartbeatLost ==
    (\A r \in Runner : life[r] # "new" => r \in beating) =>
        \A c, d \in coroutines :
            c.unit = d.unit /\ c # d =>
                \E r \in {c.runner, d.runner} : heartbeat[r] = "absent"

(***************************************************************************)
(* A unit that was in progress when its runner died is finished in another *)
(* one (manage_expired_runners).                                           *)
(***************************************************************************)
InProgressUnitsFinish ==
    \A u \in Unit :
        row[u].status = "in_progress" ~> row[u].status \in Finished

(***************************************************************************)
(* "Statuses of related not finished units are changed to 'RECEIVED' ...   *)
(* These units will then restart" (heartbeat), where not finished units    *)
(* are those "with statuses 'RECEIVED' and 'IN_PROGRESS'"                  *)
(* (get_not_finished_units).                                               *)
(***************************************************************************)
UnfinishedUnitsFinish ==
    \A u \in Unit :
        row[u].status \in Unfinished ~> row[u].status \in Finished

=============================================================================
