----------------------- MODULE SchedulerRunnerProofs -----------------------
(***************************************************************************)
(* Theorems about SchedulerRunner, for any runners, units, partitions and  *)
(* messages.                                                               *)
(***************************************************************************)
EXTENDS SchedulerRunner, TLAPS

-----------------------------------------------------------------------------
(* Types *)

\* A coroutine that create_task has just been given is one.
LEMMA CreatedType ==
    ASSUME NEW r \in Runner, NEW u \in Unit, NEW x \in Runner \cup {None}
    PROVE  /\ Created(r, u, x) \in Coroutine
           /\ Created(r, u, x).runner = r /\ Created(r, u, x).unit = u
           /\ Created(r, u, x).from = x
           /\ Created(r, u, x).pc = "created"
BY DEF Created, Coroutine

\* What a takeover creates: coroutines of r, for units of expired runners.
LEMMA TakenOverType ==
    ASSUME NEW r \in Runner, NEW c \in TakenOver(r)
    PROVE  /\ c \in Coroutine /\ c.runner = r
           /\ c.pc = "created"
           /\ \E x \in Expired(r) : c.unit \in NotFinished(x) /\ c.from = x
<1>1. PICK x \in Expired(r) : \E u \in NotFinished(x) : c = Created(r, u, x)
  BY DEF TakenOver
<1>2. PICK u \in NotFinished(x) : c = Created(r, u, x)
  BY <1>1
<1>3. x \in Runner /\ u \in Unit
  BY <1>1, <1>2 DEF Expired, NotFinished
<1>4. /\ c \in Coroutine /\ c.runner = r /\ c.unit = u /\ c.from = x
      /\ c.pc = "created"
  BY <1>2, <1>3, CreatedType
<1> QED
  BY <1>1, <1>2, <1>4

\* A row whose status is set keeps its runner.
LEMMA RowStatus ==
    ASSUME NEW x \in Row, NEW s \in {"null"} \cup Unfinished \cup Finished
    PROVE  /\ [x EXCEPT !.status = s] \in Row
           /\ [x EXCEPT !.status = s].status = s
           /\ [x EXCEPT !.status = s].runner = x.runner
BY DEF Row

\* A consumer that moves on keeps its unit.
LEMMA ConsumerMoves ==
    ASSUME NEW x \in Consumer, NEW pc \in {"poll"} \cup Busy
    PROVE  /\ [x EXCEPT !.pc = pc] \in Consumer
           /\ [x EXCEPT !.pc = pc].pc = pc
           /\ [x EXCEPT !.pc = pc].unit = x.unit
BY DEF Consumer

\* A coroutine that moves on keeps its unit, runner and origin.
LEMMA CoroutineMoves ==
    ASSUME NEW c \in Coroutine, NEW pc \in {"posting"} \cup Finished
    PROVE  /\ [c EXCEPT !.pc = pc] \in Coroutine
           /\ [c EXCEPT !.pc = pc].pc = pc
           /\ [c EXCEPT !.pc = pc].unit = c.unit
           /\ [c EXCEPT !.pc = pc].runner = c.runner
           /\ [c EXCEPT !.pc = pc].from = c.from
BY DEF Coroutine

\* A consumer that is not busy has no unit.
LEMMA Resting ==
    ASSUME SchedulerAssumption, ConsumersOK, NEW r \in Runner
    PROVE  consumer[r].pc \notin Busy => consumer[r].unit = None
BY DEF ConsumersOK

\* A step that replaces the consumer of one runner that is up.
LEMMA ConsumerStep ==
    ASSUME SchedulerAssumption, ConsumersOK, NEW r \in Runner, life[r] = "up",
           UNCHANGED life, NEW x \in Consumer, x.unit # None <=> x.pc \in Busy,
           x.pc # "off", consumer' = [consumer EXCEPT ![r] = x]
    PROVE  ConsumersOK'
<1>1. consumer' \in [Runner -> Consumer]
  BY DEF ConsumersOK
<1>2. ASSUME NEW s \in Runner
      PROVE  /\ consumer'[s].unit # None <=> consumer'[s].pc \in Busy
             /\ consumer'[s].pc = "off" <=> life'[s] # "up"
  <2>1. CASE s = r
    BY <2>1 DEF ConsumersOK
  <2>2. CASE s # r
    BY <2>2 DEF ConsumersOK
  <2> QED
    BY <2>1, <2>2
<1> QED
  BY <1>1, <1>2 DEF ConsumersOK

\* Init has the right types.
LEMMA TypeInit == Init => TypeOK
<1> SUFFICES ASSUME Init PROVE TypeOK
  OBVIOUS
<1>1. row \in [Unit -> Row]
  BY DEF Init, Row
<1>2. ConsumersOK
  BY SchedulerAssumption DEF Init, ConsumersOK, Consumer, Busy
<1>3. PartitionsOK
  BY SchedulerAssumption DEF Init, PartitionsOK
<1> QED
  BY <1>1, <1>2, <1>3 DEF Init, TypeOK, CoroutinesOK

\* Starting, and crashing, keep them.
LEMMA TypeProcess ==
    ASSUME SchedulerAssumption, TypeOK, NEW r \in Runner, Start(r) \/ Crash(r)
    PROVE  TypeOK'
<1>1. CASE Start(r)
  <2>1. ConsumersOK'
    <3> DEFINE x == [consumer[r] EXCEPT !.pc = "poll"]
    <3>1. /\ consumer' = [consumer EXCEPT ![r] = x]
          /\ life' = [life EXCEPT ![r] = "up"] /\ life[r] = "new"
      BY <1>1 DEF Start
    <3>a. consumer[r] \in Consumer
      BY DEF TypeOK, ConsumersOK
    <3>2. x \in Consumer /\ x.pc = "poll" /\ x.unit = consumer[r].unit
      BY <3>a, ConsumerMoves
    <3>3. x.unit = None
      BY <3>1, <3>2, Resting DEF TypeOK, ConsumersOK, Busy
    <3> HIDE DEF x
    <3> QED
      BY <3>1, <3>2, <3>3 DEF TypeOK, ConsumersOK, Busy
  <2>2. CoroutinesOK'
    BY <1>1 DEF Start, TypeOK, CoroutinesOK, Coroutine
  <2> QED
    BY <1>1, <2>1, <2>2 DEF Start, TypeOK, PartitionsOK
<1>2. CASE Crash(r)
  <2>1. ConsumersOK'
    BY <1>2 DEF Crash, TypeOK, ConsumersOK, Consumer, Busy
  <2>2. CoroutinesOK'
    BY <1>2 DEF Crash, TypeOK, CoroutinesOK, Coroutine
  <2> QED
    BY <1>2, <2>1, <2>2 DEF Crash, TypeOK, PartitionsOK
<1> QED
  BY <1>1, <1>2

\* So do the assignment of a partition and the reading of a message.
LEMMA TypeReceive ==
    ASSUME SchedulerAssumption, TypeOK, NEW r \in Runner, NEW p \in Partition,
           Assign(p, r) \/ Receive(r, p)
    PROVE  TypeOK'
<1>1. CASE Assign(p, r)
  <2>1. PartitionsOK'
    BY <1>1 DEF Assign, TypeOK, PartitionsOK
  <2> QED
    BY <1>1, <2>1 DEF Assign, TypeOK, ConsumersOK, CoroutinesOK
<1>2. CASE Receive(r, p)
  <2> DEFINE m == Log[p][position[p] + 1]
  <2>1. PartitionsOK'
    <3>1. position[p] \in Nat /\ Len(Log[p]) \in Nat /\ position[p] < Len(Log[p])
      BY <1>2, SchedulerAssumption DEF Receive, TypeOK, PartitionsOK
    <3> QED
      BY <1>2, <3>1 DEF Receive, TypeOK, PartitionsOK
  <2>2. m \in Unit \cup {Malformed}
    BY <1>2, SchedulerAssumption DEF Receive, TypeOK, PartitionsOK
  <2> HIDE DEF m
  <2>3. row' \in [Unit -> Row] /\ ConsumersOK'
    <3>1. CASE UNCHANGED <<row, consumer>>
      BY <1>2, <3>1 DEF Receive, TypeOK, ConsumersOK
    <3>2. CASE /\ m \in Unit
               /\ row' = [row EXCEPT ![m] = Stored]
               /\ consumer' = [consumer EXCEPT ![r] = [pc |-> "stored", unit |-> m]]
      <4>1. Stored \in Row
        BY DEF Stored, Row
      <4>2. life[r] = "up" /\ UNCHANGED life
        BY <1>2 DEF Receive, TypeOK, ConsumersOK
      <4>3. [pc |-> "stored", unit |-> m] \in Consumer /\ m # None
        BY <3>2 DEF Consumer, Busy, SchedulerAssumption
      <4>4. ConsumersOK'
        BY <3>2, <4>2, <4>3, ConsumerStep DEF TypeOK, Busy
      <4> QED
        BY <3>2, <4>1, <4>4 DEF TypeOK
    <3> QED
      BY <1>2, <2>2, <3>1, <3>2 DEF Receive, m
  <2> QED
    BY <1>2, <2>1, <2>3 DEF Receive, TypeOK, CoroutinesOK
<1> QED
  BY <1>1, <1>2

\* So do the other steps of a consumer.
LEMMA TypeConsumer ==
    ASSUME SchedulerAssumption, TypeOK, NEW r \in Runner,
           MarkReceived(r) \/ Commit(r) \/ Spawn(r) \/ ConsumerStops(r)
    PROVE  TypeOK'
<1>1. life[r] = "up" /\ UNCHANGED life
  BY DEF MarkReceived, Commit, Spawn, ConsumerStops, Consuming, Busy, TypeOK, ConsumersOK
<1>2. consumer[r] \in Consumer
  BY DEF TypeOK, ConsumersOK
<1>3. consumer[r].pc \in Busy => consumer[r].unit \in Unit
  BY DEF TypeOK, ConsumersOK, Consumer
<1>4. /\ [pc |-> "poll", unit |-> None] \in Consumer
      /\ [pc |-> "stopped", unit |-> None] \in Consumer
  BY DEF Consumer
<1>5. CASE MarkReceived(r)
  <2> DEFINE u == consumer[r].unit
             x == [consumer[r] EXCEPT !.pc = "received"]
             y == [row[u] EXCEPT !.status = "received"]
  <2>1. /\ consumer' = [consumer EXCEPT ![r] = x]
        /\ row' = [row EXCEPT ![u] = y]
        /\ consumer[r].pc \in Busy
    BY <1>5 DEF MarkReceived, Busy
  <2>2. x \in Consumer /\ x.pc = "received" /\ x.unit = u
    BY <1>2, ConsumerMoves DEF Busy
  <2>3. u \in Unit /\ u # None
    BY <1>3, <2>1 DEF SchedulerAssumption
  <2>4. y \in Row
    BY <2>3, RowStatus DEF TypeOK, Unfinished
  <2> HIDE DEF x, y, u
  <2>5. ConsumersOK'
    BY <1>1, <2>1, <2>2, <2>3, ConsumerStep DEF TypeOK, Busy
  <2>6. row' \in [Unit -> Row]
    BY <2>1, <2>4 DEF TypeOK
  <2> QED
    BY <1>5, <2>5, <2>6 DEF MarkReceived, TypeOK, CoroutinesOK, PartitionsOK
<1>6. CASE Commit(r)
  <2> DEFINE x == [consumer[r] EXCEPT !.pc = "committed"]
  <2>1. consumer' = [consumer EXCEPT ![r] = x] /\ consumer[r].pc \in Busy
    BY <1>6 DEF Commit, Busy
  <2>2. x \in Consumer /\ x.pc = "committed" /\ x.unit = consumer[r].unit
    BY <1>2, ConsumerMoves DEF Busy
  <2>3. consumer[r].unit # None
    BY <1>3, <2>1 DEF SchedulerAssumption
  <2> HIDE DEF x
  <2>4. ConsumersOK'
    BY <1>1, <2>1, <2>2, <2>3, ConsumerStep DEF TypeOK, Busy
  <2>5. PartitionsOK'
    BY <1>6 DEF Commit, Offsets, TypeOK, PartitionsOK
  <2> QED
    BY <1>6, <2>4, <2>5 DEF Commit, TypeOK, CoroutinesOK
<1>7. CASE Spawn(r)
  <2>1. ConsumersOK'
    BY <1>1, <1>4, <1>7, ConsumerStep DEF Spawn, TypeOK, Busy
  <2>2. CoroutinesOK'
    BY <1>1, <1>3, <1>7, CreatedType DEF Spawn, TypeOK, CoroutinesOK, Busy
  <2> QED
    BY <1>7, <2>1, <2>2 DEF Spawn, TypeOK, PartitionsOK
<1>8. CASE ConsumerStops(r)
  <2>1. ConsumersOK'
    BY <1>1, <1>4, <1>8, ConsumerStep DEF ConsumerStops, TypeOK, Busy
  <2>2. PartitionsOK'
    BY <1>8 DEF ConsumerStops, TypeOK, PartitionsOK
  <2> QED
    BY <1>8, <2>1, <2>2 DEF ConsumerStops, TypeOK, CoroutinesOK
<1> QED
  BY <1>5, <1>6, <1>7, <1>8

\* So does the passing of time, and a heartbeat.
LEMMA TypeHeartbeat ==
    ASSUME SchedulerAssumption, TypeOK, NEW r \in Runner,
           Expire(r) \/ Beat(r) \/ BeatFails(r)
    PROVE  TypeOK'
<1>1. CASE Expire(r)
  BY <1>1 DEF Expire, TypeOK, ConsumersOK, CoroutinesOK, PartitionsOK
<1>2. (CoroutinesOK' /\ UNCHANGED life) \/ Expire(r)
  <2>1. CASE Beat(r)
    BY <2>1, TakenOverType DEF Beat, LoopFree, TypeOK, CoroutinesOK
  <2>2. CASE BeatFails(r)
    BY <2>2, TakenOverType DEF BeatFails, LoopFree, TypeOK, CoroutinesOK
  <2> QED
    BY <2>1, <2>2
<1>3. CASE Beat(r)
  <2>1. row' \in [Unit -> Row]
    BY <1>3 DEF Beat, TypeOK, Row, Unfinished
  <2>2. heartbeat' \in [Runner -> {"absent", "fresh", "expired"}]
    BY <1>3 DEF Beat, Renewed, TypeOK
  <2>3. CoroutinesOK'
    BY <1>2, <1>3, TakenOverType DEF Beat, LoopFree, TypeOK, CoroutinesOK
  <2> QED
    BY <1>3, <2>1, <2>2, <2>3 DEF Beat, TypeOK, ConsumersOK, PartitionsOK
<1>4. CASE BeatFails(r)
  <2>1. CoroutinesOK'
    BY <1>4, TakenOverType DEF BeatFails, LoopFree, TypeOK, CoroutinesOK
  <2> QED
    BY <1>4, <2>1 DEF BeatFails, TypeOK, ConsumersOK, PartitionsOK
<1> QED
  BY <1>1, <1>3, <1>4

\* So does a coroutine.
LEMMA TypeCoroutine ==
    ASSUME SchedulerAssumption, TypeOK, NEW c \in coroutines,
           StepUnit(c) \/ CoroutineFails(c)
    PROVE  TypeOK'
<1>1. /\ c \in Coroutine /\ c.unit \in Unit /\ c.runner \in Runner
      /\ c.from \in Runner \cup {None}
      /\ life[c.runner] = "up"
  BY DEF TypeOK, CoroutinesOK, Coroutine
<1>2. CASE StartUnit(c)
  <2> DEFINE d == [c EXCEPT !.pc = "posting"]
  <2>1. coroutines' = (coroutines \ {c}) \cup {d} /\ UNCHANGED life
    BY <1>2 DEF StartUnit, Step
  <2>2. d \in Coroutine /\ d.runner = c.runner
    BY <1>1, CoroutineMoves
  <2> HIDE DEF d
  <2>3. CoroutinesOK'
    BY <1>1, <2>1, <2>2 DEF TypeOK, CoroutinesOK
  <2>4. [status |-> "in_progress", runner |-> c.runner] \in Row
    BY <1>1 DEF Row, Unfinished
  <2>5. row' \in [Unit -> Row]
    BY <1>1, <1>2, <2>4 DEF StartUnit, TypeOK
  <2> QED
    BY <1>2, <2>3, <2>5 DEF StartUnit, TypeOK, ConsumersOK, PartitionsOK
<1>3. ASSUME NEW s \in Finished, FinishUnit(c, s) PROVE TypeOK'
  <2> DEFINE d == [c EXCEPT !.pc = s]
             y == [row[c.unit] EXCEPT !.status = s]
  <2>1. /\ coroutines' = (coroutines \ {c}) \cup {d} /\ UNCHANGED life
        /\ row' = [row EXCEPT ![c.unit] = y]
    BY <1>3 DEF FinishUnit, Step
  <2>2. d \in Coroutine /\ d.runner = c.runner
    BY <1>1, CoroutineMoves
  <2>3. y \in Row
    BY <1>1, RowStatus DEF TypeOK
  <2> HIDE DEF d, y
  <2>4. CoroutinesOK'
    BY <1>1, <2>1, <2>2 DEF TypeOK, CoroutinesOK
  <2>5. row' \in [Unit -> Row]
    BY <1>1, <2>1, <2>3 DEF TypeOK
  <2> QED
    BY <1>3, <2>4, <2>5 DEF FinishUnit, TypeOK, ConsumersOK, PartitionsOK
<1>4. CASE Respond(c)
  <2>1. [runner |-> c.runner, unit |-> c.unit, from |-> c.from, status |-> c.pc]
            \in Response
    BY <1>1, <1>4 DEF Respond, Response, Coroutine
  <2> QED
    BY <1>4, <2>1 DEF Respond, TypeOK, ConsumersOK, CoroutinesOK, PartitionsOK
<1>5. CASE CoroutineFails(c)
  BY <1>5 DEF CoroutineFails, TypeOK, ConsumersOK, CoroutinesOK, PartitionsOK
<1> QED
  BY <1>2, <1>3, <1>4, <1>5 DEF StepUnit

\* Every action keeps the types.
LEMMA TypeStep == TypeOK /\ [Next]_vars => TypeOK'
<1> SUFFICES ASSUME TypeOK, [Next]_vars PROVE TypeOK'
  OBVIOUS
<1>1. CASE UNCHANGED vars
  BY <1>1 DEF vars, TypeOK, ConsumersOK, CoroutinesOK, PartitionsOK
<1> QED
  BY <1>1, SchedulerAssumption, TypeProcess, TypeReceive, TypeConsumer,
     TypeHeartbeat, TypeCoroutine DEF Next

(***************************************************************************)
(* The scheduler's tables, consumers, coroutines and responses keep their  *)
(* types, whatever fails (TypeOK).                                         *)
(***************************************************************************)
THEOREM TypeCorrect == Spec => []TypeOK
<1> QED
  BY TypeInit, TypeStep, PTL DEF Spec

-----------------------------------------------------------------------------
(* Offsets *)

(***************************************************************************)
(* Every message the group has read, or committed, is stored: stronger     *)
(* than CommittedUnitsAreStored, since a commit takes what was read.       *)
(***************************************************************************)
StoredUpTo(offset) ==
    \A p \in Partition : \A i \in 1..offset[p] :
        Log[p][i] # Malformed => row[Log[p][i]].status # "absent"

ReadUnitsAreStored == StoredUpTo(position) /\ StoredUpTo(committed)

\* No action makes a unit absent again.
LEMMA UnitsStay ==
    ASSUME TypeOK, Next, NEW u \in Unit, row[u].status # "absent"
    PROVE  row'[u].status # "absent"
<1>1. row[u] \in Row
  BY DEF TypeOK
<1>2. UNCHANGED row => row'[u].status # "absent"
  OBVIOUS
<1>3. ASSUME NEW r \in Runner, NEW p \in Partition, Receive(r, p)
      PROVE  row'[u].status # "absent"
  BY <1>3 DEF Receive, Stored, TypeOK
<1>4. ASSUME NEW r \in Runner, MarkReceived(r) PROVE row'[u].status # "absent"
  <2>1. row' = [row EXCEPT ![consumer[r].unit] =
                    [row[consumer[r].unit] EXCEPT !.status = "received"]]
    BY <1>4 DEF MarkReceived
  <2>2. row'[u] = row[u] \/ row'[u] = [row[u] EXCEPT !.status = "received"]
    BY <2>1 DEF TypeOK
  <2>3. "received" \in {"null"} \cup Unfinished \cup Finished
    BY DEF Unfinished
  <2>4. [row[u] EXCEPT !.status = "received"].status = "received"
    BY <1>1, <2>3, RowStatus
  <2> QED
    BY <2>2, <2>4
<1>5. ASSUME NEW r \in Runner, Beat(r) PROVE row'[u].status # "absent"
  BY <1>5 DEF Beat
<1>6. ASSUME NEW c \in coroutines, StartUnit(c) PROVE row'[u].status # "absent"
  BY <1>6 DEF StartUnit, TypeOK
<1>7. ASSUME NEW c \in coroutines, NEW s \in Finished, FinishUnit(c, s)
      PROVE  row'[u].status # "absent"
  <2>1. row' = [row EXCEPT ![c.unit] = [row[c.unit] EXCEPT !.status = s]]
    BY <1>7 DEF FinishUnit
  <2>2. row'[u] = row[u] \/ row'[u] = [row[u] EXCEPT !.status = s]
    BY <2>1 DEF TypeOK
  <2> QED
    BY <1>1, <2>2, RowStatus DEF Finished
<1> QED
  BY <1>2, <1>3, <1>4, <1>5, <1>6, <1>7
     DEF Next, Start, Crash, Assign, Commit, Spawn, ConsumerStops, Expire,
         BeatFails, StepUnit, Respond, CoroutineFails

\* Units that stay keep what is below an offset stored.
LEMMA StoredStays ==
    ASSUME SchedulerAssumption, TypeOK, Next, NEW offset \in [Partition -> Nat],
           \A p \in Partition : offset[p] <= Len(Log[p]), StoredUpTo(offset)
    PROVE  \A p \in Partition : \A i \in 1..offset[p] :
               Log[p][i] # Malformed => row'[Log[p][i]].status # "absent"
<1> SUFFICES ASSUME NEW p \in Partition, NEW i \in 1..offset[p],
                    Log[p][i] # Malformed
             PROVE  row'[Log[p][i]].status # "absent"
  OBVIOUS
<1>1. Log[p][i] \in Unit
  BY DEF SchedulerAssumption
<1>2. row[Log[p][i]].status # "absent"
  BY DEF StoredUpTo
<1> QED
  BY <1>1, <1>2, UnitsStay

\* Every action keeps what is read and what is committed stored.
LEMMA OffsetsStep ==
    TypeOK /\ TypeOK' /\ ReadUnitsAreStored /\ [Next]_vars => ReadUnitsAreStored'
<1> SUFFICES ASSUME TypeOK, TypeOK', ReadUnitsAreStored, [Next]_vars
             PROVE  ReadUnitsAreStored'
  OBVIOUS
<1> USE SchedulerAssumption
<1>1. CASE UNCHANGED vars
  BY <1>1 DEF vars, ReadUnitsAreStored, StoredUpTo
<1>2. CASE Next
  <2> DEFINE kept(offset) ==
        \A p \in Partition : \A i \in 1..offset[p] :
            Log[p][i] # Malformed => row'[Log[p][i]].status # "absent"
  <2>1. kept(position) /\ kept(committed)
    BY <1>2, StoredStays DEF TypeOK, PartitionsOK, ReadUnitsAreStored
  <2>2. CASE UNCHANGED <<position, committed>>
    BY <2>1, <2>2 DEF ReadUnitsAreStored, StoredUpTo
  <2>3. ASSUME NEW r \in Runner, NEW p \in Partition, Assign(p, r)
        PROVE  ReadUnitsAreStored'
    BY <2>1, <2>3 DEF Assign, ReadUnitsAreStored, StoredUpTo, TypeOK, PartitionsOK
  <2>4. ASSUME NEW r \in Runner, NEW p \in Partition, Receive(r, p)
        PROVE  ReadUnitsAreStored'
    <3> DEFINE n == position[p] + 1
               m == Log[p][n]
    <3>1. /\ position' = [position EXCEPT ![p] = n]
          /\ UNCHANGED committed
          /\ n \in 1..Len(Log[p]) /\ position[p] \in Nat
      BY <2>4 DEF Receive, TypeOK, PartitionsOK
    <3>2. m \in Unit \cup {Malformed}
      BY <3>1 DEF SchedulerAssumption
    <3>3. m # Malformed => row'[m].status # "absent"
      BY <2>4, <3>2 DEF Receive, Stored, TypeOK
    <3>4. ASSUME NEW q \in Partition, NEW i \in 1..position'[q],
                 Log[q][i] # Malformed
          PROVE  row'[Log[q][i]].status # "absent"
      <4>1. CASE q = p /\ i = n
        BY <3>3, <3>4, <4>1
      <4>2. CASE ~(q = p /\ i = n)
        <5>1. i \in 1..position[q]
          BY <3>1, <4>2 DEF TypeOK, PartitionsOK
        <5> QED
          BY <2>1, <3>4, <5>1
      <4> QED
        BY <4>1, <4>2
    <3> QED
      BY <2>1, <3>1, <3>4 DEF ReadUnitsAreStored, StoredUpTo
  <2>5. ASSUME NEW r \in Runner, Commit(r) PROVE ReadUnitsAreStored'
    BY <2>1, <2>5 DEF Commit, Offsets, ReadUnitsAreStored, StoredUpTo
  <2> QED
    BY <1>2, <2>2, <2>3, <2>4, <2>5
       DEF Next, Start, Crash, MarkReceived, Spawn, ConsumerStops, Expire, Beat,
           BeatFails, StepUnit, StartUnit, FinishUnit, Respond, CoroutineFails
<1> QED
  BY <1>1, <1>2

(***************************************************************************)
(* The committed offset never passes a unit that is not stored, whatever   *)
(* fails and however partitions move (into_db before consumer.commit).     *)
(***************************************************************************)
THEOREM CommittedAreStored == Spec => []CommittedUnitsAreStored
<1>1. Init => ReadUnitsAreStored
  BY DEF Init, ReadUnitsAreStored, StoredUpTo
<1>2. ReadUnitsAreStored => CommittedUnitsAreStored
  BY DEF ReadUnitsAreStored, StoredUpTo, CommittedUnitsAreStored
<1> QED
  BY <1>1, <1>2, TypeCorrect, OffsetsStep, PTL DEF Spec

-----------------------------------------------------------------------------
(* One run at a time *)

\* Consumer r has unit u, between into_db and create_task.
Holds(r, u) == consumer[r].pc \in Busy /\ consumer[r].unit = u

\* A unit is in one consumer or one coroutine at most.
OneHolder ==
    /\ \A c, d \in coroutines : c.unit = d.unit => c = d
    /\ \A r \in Runner, c \in coroutines : ~Holds(r, c.unit)
    /\ \A r, s \in Runner, u \in Unit : Holds(r, u) /\ Holds(s, u) => r = s

\* The unit's row says how far the coroutine or the consumer is with it.
CoroutineRow(c) ==
    /\ c.pc = "created" => row[c.unit].status = "received"
    /\ c.pc = "posting" => /\ row[c.unit].status = "in_progress"
                           /\ row[c.unit].runner = c.runner
    /\ c.pc \in Finished => /\ row[c.unit].status = c.pc
                            /\ \A a \in responses : a.unit # c.unit

ConsumerRow(r) ==
    \A u \in Unit :
        Holds(r, u) =>
            row[u].status = IF consumer[r].pc = "stored" THEN "null" ELSE "received"

RowsTell ==
    /\ \A c \in coroutines : CoroutineRow(c)
    /\ \A r \in Runner : ConsumerRow(r)
    /\ \A u \in Unit : row[u].status \in {"absent", "null", "received"} =>
                           row[u].runner = None
    /\ \A a \in responses : row[a.unit].status \in Finished

\* Only dead runners miss their heartbeats.
OnlyDeadExpire ==
    \A r \in Runner :
        /\ heartbeat[r] = "expired" => life[r] = "down"
        /\ heartbeat[r] = "fresh" => life[r] # "new"
        /\ life[r] = "up" => r \in beating

RunInv == OneHolder /\ RowsTell /\ OnlyDeadExpire

Reliable == "heartbeat" \notin Faults /\ "stall" \notin Faults

\* Processes start and end, time passes: heartbeats expire of the dead only.
LEMMA ExpiryStep ==
    ASSUME Reliable, TypeOK, OnlyDeadExpire, [Next]_vars
    PROVE  OnlyDeadExpire'
<1>1. CASE UNCHANGED vars
  BY <1>1 DEF vars, OnlyDeadExpire
<1>2. ASSUME NEW r \in Runner, Start(r) PROVE OnlyDeadExpire'
  BY <1>2 DEF Start, OnlyDeadExpire, TypeOK
<1>3. ASSUME NEW r \in Runner, Crash(r) PROVE OnlyDeadExpire'
  BY <1>3 DEF Crash, OnlyDeadExpire, TypeOK
<1>4. ASSUME NEW r \in Runner, Expire(r) PROVE OnlyDeadExpire'
  BY <1>4 DEF Expire, OnlyDeadExpire, TypeOK, Reliable
<1>5. ASSUME NEW r \in Runner, Beat(r) PROVE OnlyDeadExpire'
  BY <1>5 DEF Beat, Renewed, LoopFree, OnlyDeadExpire, TypeOK
<1>6. CASE UNCHANGED <<heartbeat, life, beating>>
  BY <1>6 DEF OnlyDeadExpire
<1> QED
  BY <1>1, <1>2, <1>3, <1>4, <1>5, <1>6
     DEF Next, Assign, Receive, MarkReceived, Commit, Spawn, ConsumerStops,
         BeatFails, Reliable, StepUnit, StartUnit, FinishUnit, Respond,
         CoroutineFails

\* Nothing is taken up: the steps that leave rows and responses alone, end
\* coroutines or let go of units.
LEMMA NothingTakenUp ==
    ASSUME OneHolder, RowsTell, UNCHANGED <<row, responses>>,
           coroutines' \subseteq coroutines,
           \A r \in Runner, u \in Unit :
               Holds(r, u)' => /\ Holds(r, u)
                               /\ (consumer[r].pc = "stored" <=> consumer'[r].pc = "stored"),
           coroutines \subseteq Coroutine
    PROVE  OneHolder' /\ RowsTell'
<1>1. OneHolder'
  BY DEF OneHolder, Coroutine
<1>2. \A r \in Runner : ConsumerRow(r)'
  BY DEF RowsTell, ConsumerRow
<1>3. \A c \in coroutines : CoroutineRow(c)'
  BY DEF RowsTell, CoroutineRow
<1> QED
  BY <1>1, <1>2, <1>3 DEF RowsTell

\* A consumer stores a unit that was absent, so that nobody had it.
LEMMA ReceiveStep ==
    ASSUME SchedulerAssumption, TypeOK, OneHolder, RowsTell,
           NEW r \in Runner, NEW p \in Partition, Receive(r, p)
    PROVE  OneHolder' /\ RowsTell'
<1> DEFINE m == Log[p][position[p] + 1]
<1>1. m \in Unit \cup {Malformed}
  BY DEF Receive, TypeOK, PartitionsOK, SchedulerAssumption
<1>2. UNCHANGED <<coroutines, responses>>
  BY DEF Receive
<1>3. coroutines \subseteq Coroutine /\ responses \subseteq Response
  BY DEF TypeOK, CoroutinesOK
<1> HIDE DEF m
<1>4. CASE UNCHANGED <<row, consumer>>
  BY <1>2, <1>3, <1>4, NothingTakenUp DEF Holds
<1>5. CASE /\ m \in Unit /\ row[m].status = "absent"
           /\ row' = [row EXCEPT ![m] = Stored]
           /\ consumer' = [consumer EXCEPT ![r] = [pc |-> "stored", unit |-> m]]
  <2>1. /\ \A u \in Unit : row'[u] = IF u = m THEN Stored ELSE row[u]
        /\ \A s \in Runner : consumer'[s] = IF s = r THEN [pc |-> "stored", unit |-> m]
                                            ELSE consumer[s]
    BY <1>5 DEF TypeOK, ConsumersOK
  <2>2. \A c \in coroutines : c.unit \in Unit /\ c.unit # m
    BY <1>3, <1>5 DEF RowsTell, CoroutineRow, Coroutine, Finished
  <2>3. \A s \in Runner : ~Holds(s, m)
    BY <1>5 DEF RowsTell, ConsumerRow
  <2>4. \A s \in Runner, u \in Unit :
            Holds(s, u)' => IF s = r THEN u = m /\ consumer'[s].pc = "stored"
                            ELSE Holds(s, u) /\ consumer'[s] = consumer[s]
    BY <2>1 DEF Holds
  <2>5. OneHolder'
    BY <1>2, <2>2, <2>3, <2>4 DEF OneHolder
  <2>6. \A s \in Runner : ConsumerRow(s)'
    BY <2>1, <2>3, <2>4 DEF RowsTell, ConsumerRow, Stored
  <2>7. \A c \in coroutines' : CoroutineRow(c)'
    BY <1>2, <2>1, <2>2 DEF RowsTell, CoroutineRow
  <2>8. \A a \in responses : a.unit # m /\ a.unit \in Unit
    BY <1>3, <1>5 DEF RowsTell, Finished, Response
  <2>9. \A u \in Unit : row'[u].status \in {"absent", "null", "received"} =>
                             row'[u].runner = None
    BY <2>1 DEF RowsTell, Stored
  <2>10. \A a \in responses' : row'[a.unit].status \in Finished
    BY <1>2, <2>1, <2>8 DEF RowsTell
  <2> QED
    BY <2>5, <2>6, <2>7, <2>9, <2>10 DEF RowsTell
<1> QED
  BY <1>1, <1>4, <1>5 DEF Receive, m

\* Then it says that the unit is received.
LEMMA MarkStep ==
    ASSUME SchedulerAssumption, TypeOK, OneHolder, RowsTell,
           NEW r \in Runner, MarkReceived(r)
    PROVE  OneHolder' /\ RowsTell'
<1> DEFINE m == consumer[r].unit
<1>1. m \in Unit /\ Holds(r, m) /\ consumer[r] \in Consumer
  BY DEF MarkReceived, Holds, Busy, TypeOK, ConsumersOK, Consumer, SchedulerAssumption
<1>2. UNCHANGED <<coroutines, responses>>
  BY DEF MarkReceived
<1>3. coroutines \subseteq Coroutine /\ responses \subseteq Response
  BY DEF TypeOK, CoroutinesOK
<1>4. row[m] \in Row /\ "received" \in {"null"} \cup Unfinished \cup Finished
  BY <1>1 DEF TypeOK, Unfinished
<1>5. row[m].status = "null" /\ row[m].runner = None
  BY <1>1 DEF RowsTell, ConsumerRow, MarkReceived
<1>6. \A u \in Unit : IF u = m THEN row'[u].status = "received" /\ row'[u].runner = None
                      ELSE row'[u] = row[u]
  BY <1>1, <1>4, <1>5, RowStatus DEF MarkReceived, TypeOK
<1>7. \A s \in Runner : IF s = r THEN consumer'[s].pc = "received" /\ consumer'[s].unit = m
                        ELSE consumer'[s] = consumer[s]
  BY <1>1, ConsumerMoves DEF MarkReceived, TypeOK, ConsumersOK, Busy
<1> HIDE DEF m
<1>8. \A s \in Runner, u \in Unit :
          Holds(s, u)' => /\ Holds(s, u)
                          /\ IF s = r THEN u = m /\ consumer'[s].pc = "received"
                             ELSE consumer'[s] = consumer[s]
  BY <1>1, <1>7 DEF Holds
<1>9. \A c \in coroutines : c.unit \in Unit /\ c.unit # m
  BY <1>1, <1>3 DEF OneHolder, Coroutine
<1>10. \A s \in Runner : Holds(s, m) => s = r
  BY <1>1 DEF OneHolder
<1>11. OneHolder'
  BY <1>2, <1>8, <1>9 DEF OneHolder
<1>12. \A s \in Runner : ConsumerRow(s)'
  BY <1>6, <1>8, <1>10 DEF RowsTell, ConsumerRow
<1>13. \A c \in coroutines' : CoroutineRow(c)'
  BY <1>2, <1>6, <1>9 DEF RowsTell, CoroutineRow
<1>14. \A a \in responses : a.unit # m /\ a.unit \in Unit
  BY <1>3, <1>5 DEF RowsTell, Finished, Response
<1> QED
  BY <1>2, <1>6, <1>11, <1>12, <1>13, <1>14 DEF RowsTell

\* Last it passes the unit to a coroutine.
LEMMA SpawnStep ==
    ASSUME SchedulerAssumption, TypeOK, OneHolder, RowsTell,
           NEW r \in Runner, Spawn(r)
    PROVE  OneHolder' /\ RowsTell'
<1> DEFINE m == consumer[r].unit
           n == Created(r, m, None)
<1>1. m \in Unit /\ Holds(r, m) /\ consumer[r].pc = "committed"
  BY DEF Spawn, Holds, Busy, TypeOK, ConsumersOK, Consumer, SchedulerAssumption
<1>2. coroutines' = coroutines \cup {n} /\ UNCHANGED <<row, responses>>
  BY DEF Spawn
<1>3. coroutines \subseteq Coroutine /\ responses \subseteq Response
  BY DEF TypeOK, CoroutinesOK
<1>4. n.unit = m /\ n.pc = "created"
  BY <1>1, CreatedType
<1>5. row[m].status = "received"
  BY <1>1 DEF RowsTell, ConsumerRow
<1> HIDE DEF n, m
<1>6. \A s \in Runner, u \in Unit :
          Holds(s, u)' => Holds(s, u) /\ s # r /\ consumer'[s] = consumer[s]
  BY DEF Spawn, Holds, TypeOK, ConsumersOK, Busy
<1>7. \A c \in coroutines : c.unit \in Unit /\ c.unit # m
  BY <1>1, <1>3 DEF OneHolder, Coroutine
<1>8. \A s \in Runner : Holds(s, m) => s = r
  BY <1>1 DEF OneHolder
<1>9. \A c \in coroutines' : c.unit \in Unit
  BY <1>1, <1>2, <1>4, <1>7
<1>10. OneHolder'
  BY <1>2, <1>4, <1>6, <1>7, <1>8, <1>9 DEF OneHolder
<1>11. \A s \in Runner : ConsumerRow(s)'
  BY <1>2, <1>6 DEF RowsTell, ConsumerRow
<1>12. \A c \in coroutines' : CoroutineRow(c)'
  BY <1>2, <1>4, <1>5 DEF RowsTell, CoroutineRow, Finished
<1> QED
  BY <1>2, <1>10, <1>11, <1>12 DEF RowsTell

\* The coroutine posts its unit: it runs in the coroutine's runner.
LEMMA StartStep ==
    ASSUME SchedulerAssumption, TypeOK, OneHolder, RowsTell,
           NEW c \in coroutines, StartUnit(c)
    PROVE  OneHolder' /\ RowsTell'
<1> DEFINE n == [c EXCEPT !.pc = "posting"]
           v == [status |-> "in_progress", runner |-> c.runner]
<1>1. coroutines \subseteq Coroutine /\ responses \subseteq Response /\ c \in Coroutine
  BY DEF TypeOK, CoroutinesOK
<1>2. coroutines' = (coroutines \ {c}) \cup {n} /\ UNCHANGED <<consumer, responses>>
  BY DEF StartUnit, Step
<1>3. n.unit = c.unit /\ n.runner = c.runner /\ n.pc = "posting" /\ c.unit \in Unit
  BY <1>1 DEF Coroutine
<1>4. \A u \in Unit : row'[u] = IF u = c.unit THEN v ELSE row[u]
  BY <1>3 DEF StartUnit, TypeOK
<1>5. row[c.unit].status = "received"
  BY DEF RowsTell, CoroutineRow, StartUnit
<1>6. \A d \in coroutines : d.unit \in Unit /\ (d # c => d.unit # c.unit)
  BY <1>1 DEF OneHolder, Coroutine
<1> HIDE DEF n
<1>7. OneHolder'
  BY <1>2, <1>3, <1>6 DEF OneHolder, Holds
<1>8. \A s \in Runner : ConsumerRow(s)'
  BY <1>2, <1>4 DEF RowsTell, ConsumerRow, OneHolder, Holds
<1>9. \A d \in coroutines' : CoroutineRow(d)'
  BY <1>2, <1>3, <1>4, <1>6 DEF RowsTell, CoroutineRow, Finished
<1>10. \A a \in responses' : row'[a.unit].status \in Finished
  BY <1>1, <1>2, <1>4, <1>5 DEF RowsTell, Response, Finished
<1>11. \A u \in Unit : row'[u].status \in {"absent", "null", "received"} =>
                            row'[u].runner = None
  BY <1>4 DEF RowsTell
<1> QED
  BY <1>7, <1>8, <1>9, <1>10, <1>11 DEF RowsTell

\* The model has answered: the status is the result, not yet sent.
LEMMA FinishStep ==
    ASSUME SchedulerAssumption, TypeOK, OneHolder, RowsTell,
           NEW c \in coroutines, NEW result \in Finished, FinishUnit(c, result)
    PROVE  OneHolder' /\ RowsTell'
<1> DEFINE n == [c EXCEPT !.pc = result]
<1>1. coroutines \subseteq Coroutine /\ responses \subseteq Response /\ c \in Coroutine
  BY DEF TypeOK, CoroutinesOK
<1>2. coroutines' = (coroutines \ {c}) \cup {n} /\ UNCHANGED <<consumer, responses>>
  BY DEF FinishUnit, Step
<1>3. n.unit = c.unit /\ n.runner = c.runner /\ n.pc = result /\ c.unit \in Unit
  BY <1>1 DEF Coroutine
<1>4. row[c.unit].status = "in_progress"
  BY DEF RowsTell, CoroutineRow, FinishUnit
<1>5. \A u \in Unit : IF u = c.unit THEN row'[u].status = result ELSE row'[u] = row[u]
  BY <1>3, RowStatus DEF FinishUnit, TypeOK
<1>6. \A d \in coroutines : d.unit \in Unit /\ (d # c => d.unit # c.unit)
  BY <1>1 DEF OneHolder, Coroutine
<1>7. \A a \in responses : a.unit \in Unit /\ a.unit # c.unit
  BY <1>1, <1>4 DEF RowsTell, Response, Finished
<1> HIDE DEF n
<1>8. OneHolder'
  BY <1>2, <1>3, <1>6 DEF OneHolder, Holds
<1>9. \A s \in Runner : ConsumerRow(s)'
  BY <1>2, <1>5 DEF RowsTell, ConsumerRow, OneHolder, Holds
<1>10. \A d \in coroutines' : CoroutineRow(d)'
  BY <1>2, <1>3, <1>5, <1>6, <1>7 DEF RowsTell, CoroutineRow, Finished
<1>11. \A a \in responses' : row'[a.unit].status \in Finished
  BY <1>2, <1>5, <1>7 DEF RowsTell
<1>12. \A u \in Unit : row'[u].status \in {"absent", "null", "received"} =>
                            row'[u].runner = None
  BY <1>5 DEF RowsTell, Finished
<1> QED
  BY <1>8, <1>9, <1>10, <1>11, <1>12 DEF RowsTell

\* The response is sent and the coroutine ends.
LEMMA RespondStep ==
    ASSUME SchedulerAssumption, TypeOK, OneHolder, RowsTell,
           NEW c \in coroutines, Respond(c)
    PROVE  /\ OneHolder' /\ RowsTell'
           /\ Answered' = Answered \cup {c.unit}
<1> DEFINE n == [runner |-> c.runner, unit |-> c.unit, from |-> c.from,
                 status |-> c.pc]
<1>1. coroutines \subseteq Coroutine
  BY DEF TypeOK, CoroutinesOK
<1>2. /\ coroutines' = coroutines \ {c} /\ responses' = responses \cup {n}
      /\ n.unit = c.unit /\ UNCHANGED <<row, consumer>>
  BY DEF Respond
<1>3. row[c.unit].status \in Finished
  BY DEF RowsTell, CoroutineRow, Respond
<1> HIDE DEF n
<1>4. OneHolder'
  BY <1>2 DEF OneHolder, Holds
<1>5. \A d \in coroutines' : CoroutineRow(d)'
  <2>1. \A d \in coroutines' : d \in coroutines /\ d.unit # c.unit
    BY <1>2 DEF OneHolder
  <2> QED
    BY <1>2, <2>1 DEF RowsTell, CoroutineRow
<1>6. (\A s \in Runner : ConsumerRow(s)') /\ \A a \in responses' : row'[a.unit].status \in Finished
  BY <1>2, <1>3 DEF RowsTell, ConsumerRow, Holds
<1>7. Answered' = Answered \cup {c.unit}
  BY <1>2 DEF Answered
<1> QED
  BY <1>2, <1>4, <1>5, <1>6, <1>7 DEF RowsTell

\* What a heartbeat takes over was running in a runner that is dead, so that
\* nobody has it.
LEMMA TakenWereRunning ==
    ASSUME SchedulerAssumption, TypeOK, RunInv, NEW r \in Runner,
           NEW n \in TakenOver(r)
    PROVE  /\ n.unit \in Unit /\ n.pc = "created"
           /\ \E x \in Runner : /\ n = Created(r, n.unit, x)
                               /\ life[x] = "down" /\ row[n.unit].runner = x
           /\ row[n.unit].status = "in_progress"
           /\ \A c \in coroutines : c.unit # n.unit
           /\ \A s \in Runner : ~Holds(s, n.unit)
<1>1. PICK x \in Runner, u \in Unit : /\ x \in Expired(r) /\ u \in NotFinished(x)
                                      /\ n = Created(r, u, x)
  BY DEF TakenOver, Expired, NotFinished
<1>2. x \in Runner /\ u \in Unit /\ x # None /\ life[x] = "down"
  BY <1>1 DEF Expired, NotFinished, SchedulerAssumption, RunInv, OnlyDeadExpire
<1>3. n.unit = u /\ n.pc = "created"
  BY <1>1 DEF Created
<1>4. row[u].status = "in_progress" /\ row[u].runner = x
  BY <1>1, <1>2 DEF NotFinished, Unfinished, RunInv, RowsTell
<1>5. \A c \in coroutines : c.unit # u
  BY <1>2, <1>4 DEF RunInv, RowsTell, CoroutineRow, TypeOK, CoroutinesOK, Coroutine,
                    Finished
<1>6. \A s \in Runner : ~Holds(s, u)
  BY <1>2, <1>4 DEF RunInv, RowsTell, ConsumerRow
<1> QED
  BY <1>1, <1>2, <1>3, <1>4, <1>5, <1>6

\* Units that are taken over wait in one new coroutine each.
LEMMA BeatStep ==
    ASSUME SchedulerAssumption, TypeOK, RunInv, NEW r \in Runner, Beat(r)
    PROVE  OneHolder' /\ RowsTell'
<1> DEFINE taken == {c.unit : c \in TakenOver(r)}
           v == [status |-> "received", runner |-> None]
<1>1. /\ \A n \in TakenOver(r) :
             n.unit \in taken /\ n.unit \in Unit /\ n.pc = "created"
      /\ \A u \in taken :
             /\ row[u].status = "in_progress"
             /\ \A c \in coroutines : c.unit # u
             /\ \A s \in Runner : ~Holds(s, u)
  BY TakenWereRunning
<1>2. \A m, n \in TakenOver(r) : m.unit = n.unit => m = n
  <2> SUFFICES ASSUME NEW m \in TakenOver(r), NEW n \in TakenOver(r), m.unit = n.unit
               PROVE  m = n
    OBVIOUS
  <2>1. PICK x \in Runner : m = Created(r, m.unit, x) /\ row[m.unit].runner = x
    BY TakenWereRunning
  <2>2. PICK y \in Runner : n = Created(r, n.unit, y) /\ row[n.unit].runner = y
    BY TakenWereRunning
  <2> QED
    BY <2>1, <2>2
<1>3. /\ coroutines' = coroutines \cup TakenOver(r)
      /\ UNCHANGED <<consumer, responses>>
      /\ \A u \in Unit : row'[u] = IF u \in taken THEN v ELSE row[u]
  BY DEF Beat
<1>4. coroutines \subseteq Coroutine /\ responses \subseteq Response
  BY DEF TypeOK, CoroutinesOK
<1>5. \A c \in coroutines : c.unit \in Unit /\ c.unit \notin taken
  BY <1>1, <1>4 DEF Coroutine
<1>6. \A a \in responses : a.unit \in Unit /\ a.unit \notin taken
  BY <1>1, <1>4 DEF Response, RunInv, RowsTell, Finished
<1> HIDE DEF taken
<1>7. OneHolder'
  BY <1>1, <1>2, <1>3, <1>5 DEF RunInv, OneHolder, Holds
<1>8. \A s \in Runner : ConsumerRow(s)'
  BY <1>1, <1>3 DEF RunInv, RowsTell, ConsumerRow, Holds
<1>9. \A c \in coroutines' : CoroutineRow(c)'
  BY <1>1, <1>3, <1>5 DEF RunInv, RowsTell, CoroutineRow, Finished
<1>10. \A a \in responses' : row'[a.unit].status \in Finished
  BY <1>3, <1>6 DEF RunInv, RowsTell
<1>11. \A u \in Unit : row'[u].status \in {"absent", "null", "received"} =>
                            row'[u].runner = None
  BY <1>3 DEF RunInv, RowsTell
<1> QED
  BY <1>7, <1>8, <1>9, <1>10, <1>11 DEF RowsTell

\* At the start nobody has a unit.
LEMMA RunInit == Init => RunInv
  BY SchedulerAssumption
     DEF Init, RunInv, OneHolder, RowsTell, ConsumerRow, CoroutineRow, Holds, Busy,
         OnlyDeadExpire

\* Every action keeps a unit in one place, and its row true.
LEMMA RunStep ==
    ASSUME SchedulerAssumption, Reliable, TypeOK, RunInv, [Next]_vars
    PROVE  RunInv'
<1>1. OneHolder /\ RowsTell /\ OnlyDeadExpire /\ OnlyDeadExpire'
  BY ExpiryStep DEF RunInv
<1>2. coroutines \subseteq Coroutine /\ consumer \in [Runner -> Consumer]
  BY DEF TypeOK, CoroutinesOK, ConsumersOK
<1>3. CASE UNCHANGED <<row, responses, consumer>> /\ coroutines' \subseteq coroutines
  BY <1>1, <1>2, <1>3, NothingTakenUp DEF RunInv, Holds
<1>4. ASSUME NEW r \in Runner,
             Start(r) \/ Crash(r) \/ Commit(r) \/ ConsumerStops(r)
      PROVE  RunInv'
  <2>1. UNCHANGED <<row, responses>> /\ coroutines' \subseteq coroutines
    BY <1>4 DEF Start, Crash, Commit, ConsumerStops
  <2>2. \A s \in Runner \ {r} : consumer'[s] = consumer[s]
    BY <1>2, <1>4 DEF Start, Crash, Commit, ConsumerStops
  <2>3. \/ consumer'[r].pc \notin Busy
        \/ /\ consumer[r].pc = "received" /\ consumer'[r].pc = "committed"
           /\ consumer'[r].unit = consumer[r].unit
    <3>1. CASE Start(r)
      <4>1. consumer' = [consumer EXCEPT ![r].pc = "poll"]
        BY <3>1 DEF Start
      <4> QED
        BY <1>2, <4>1, ConsumerMoves DEF Busy
    <3>2. CASE Crash(r) \/ ConsumerStops(r)
      BY <1>2, <3>2 DEF Crash, ConsumerStops, Busy
    <3>3. CASE Commit(r)
      <4>1. consumer' = [consumer EXCEPT ![r].pc = "committed"] /\ consumer[r].pc = "received"
        BY <3>3 DEF Commit
      <4> QED
        BY <1>2, <4>1, ConsumerMoves DEF Busy
    <3> QED
      BY <1>4, <3>1, <3>2, <3>3
  <2>4. \A s \in Runner, u \in Unit :
            Holds(s, u)' => /\ Holds(s, u)
                            /\ (consumer[s].pc = "stored" <=> consumer'[s].pc = "stored")
    BY <2>2, <2>3 DEF Holds, Busy
  <2> QED
    BY <1>1, <1>2, <2>1, <2>4, NothingTakenUp DEF RunInv
<1>5. ASSUME NEW r \in Runner,
             (\E p \in Partition : Receive(r, p)) \/ MarkReceived(r) \/ Spawn(r) \/ Beat(r)
      PROVE  RunInv'
  BY <1>1, <1>5, ReceiveStep, MarkStep, SpawnStep, BeatStep DEF RunInv
<1>6. ASSUME NEW c \in coroutines, StepUnit(c) PROVE RunInv'
  BY <1>1, <1>6, StartStep, FinishStep, RespondStep DEF RunInv, StepUnit
<1> QED
  <2>1. CASE UNCHANGED vars
    BY <1>3, <2>1 DEF vars
  <2>2. ASSUME NEW r \in Runner,
               (\E p \in Partition : Assign(p, r)) \/ Expire(r) \/ BeatFails(r)
        PROVE  RunInv'
    BY <1>3, <2>2 DEF Assign, Expire, BeatFails, Reliable
  <2>3. ASSUME NEW c \in coroutines, CoroutineFails(c) PROVE RunInv'
    BY <1>3, <2>3 DEF CoroutineFails
  <2> QED
    BY <1>4, <1>5, <1>6, <2>1, <2>2, <2>3 DEF Next

-----------------------------------------------------------------------------
(* The steps of UnitLifecycle *)

Seen == <<Stage, Who, Dead, Answered>>

\* The stage of a unit, status by status.
LEMMA RowSeen ==
    ASSUME NEW x \in Row
    PROVE  /\ x.status = "absent" => StageOf(x) = "new" /\ WhoOf(x) = None
           /\ x.status \in {"null", "received"} =>
                  StageOf(x) = "waiting" /\ WhoOf(x) = None
           /\ x.status = "in_progress" =>
                  StageOf(x) = "running" /\ WhoOf(x) = x.runner
           /\ x.status \in Finished => StageOf(x) = "finished" /\ WhoOf(x) = None
<1>1. CASE x.status = "absent"
  BY <1>1 DEF StageOf, WhoOf, Finished
<1>2. CASE x.status \in {"null", "received"}
  BY <1>2 DEF StageOf, WhoOf, Finished
<1>3. CASE x.status = "in_progress"
  BY <1>3 DEF StageOf, WhoOf, Finished
<1>4. CASE x.status \in Finished
  BY <1>4 DEF StageOf, WhoOf, Finished
<1> QED
  BY <1>1, <1>2, <1>3, <1>4 DEF Finished

\* The initial states map to an initial state.
LEMMA SeenInit == Init => Lifecycle!Init
<1> SUFFICES ASSUME Init PROVE Lifecycle!Init
  OBVIOUS
<1>1. \A u \in Unit : row[u] \in Row /\ row[u].status = "absent"
  BY DEF Init, Row
<1>2. \A u \in Unit : StageOf(row[u]) = "new" /\ WhoOf(row[u]) = None
  BY <1>1, RowSeen
<1> QED
  BY <1>2 DEF Init, Lifecycle!Init, Stage, Who, Dead, Answered

\* A step that changes one unit's row.
LEMMA SeenOne ==
    ASSUME TypeOK, TypeOK', NEW u \in Unit, UNCHANGED <<life, responses>>,
           \A v \in Unit \ {u} : row'[v] = row[v]
    PROVE  /\ Stage' = [Stage EXCEPT ![u] = StageOf(row'[u])]
           /\ Who' = [Who EXCEPT ![u] = WhoOf(row'[u])]
           /\ Stage[u] = StageOf(row[u]) /\ Who[u] = WhoOf(row[u])
           /\ Dead' = Dead /\ Answered' = Answered
           /\ row[u] \in Row /\ row'[u] \in Row
<1>1. \A v \in {u} : StageOf(row'[v]) = StageOf(row'[u]) /\ WhoOf(row'[v]) = WhoOf(row'[u])
  OBVIOUS
<1>2. /\ Stage' = [v \in Unit |-> IF v \in {u} THEN StageOf(row'[u]) ELSE Stage[v]]
      /\ Who' = [v \in Unit |-> IF v \in {u} THEN WhoOf(row'[u]) ELSE Who[v]]
  <2> DEFINE us == {u}
             s == StageOf(row'[u])
             w == WhoOf(row'[u])
  <2>1. us \in SUBSET Unit /\ \A v \in Unit \ us : row'[v] = row[v]
    OBVIOUS
  <2>2. \A v \in us : StageOf(row'[v]) = s /\ WhoOf(row'[v]) = w
    OBVIOUS
  <2> HIDE DEF us, s, w
  <2>3. /\ Stage' = [v \in Unit |-> IF v \in us THEN s ELSE Stage[v]]
        /\ Who' = [v \in Unit |-> IF v \in us THEN w ELSE Who[v]]
    BY <2>1, <2>2 DEF Stage, Who
  <2> QED
    BY <2>3 DEF us, s, w
<1>3. Stage = [v \in Unit |-> Stage[v]] /\ Who = [v \in Unit |-> Who[v]]
  BY DEF Stage, Who
<1> QED
  BY <1>2, <1>3 DEF Stage, Who, Dead, Answered, TypeOK

\* Receive stores a unit that was new, or nothing.
LEMMA ReceiveSeen ==
    ASSUME SchedulerAssumption, TypeOK, TypeOK',
           NEW r \in Runner, NEW p \in Partition, Receive(r, p)
    PROVE  (\E u \in Unit : Lifecycle!Accept(u)) \/ UNCHANGED Seen
<1> DEFINE m == Log[p][position[p] + 1]
<1>1. m \in Unit \cup {Malformed}
  BY DEF Receive, TypeOK, PartitionsOK, SchedulerAssumption
<1>2. UNCHANGED <<life, responses>>
  BY DEF Receive
<1> HIDE DEF m
<1>3. CASE row' = row
  BY <1>2, <1>3 DEF Seen, Stage, Who, Dead, Answered
<1>4. CASE m \in Unit /\ row[m].status = "absent" /\ row' = [row EXCEPT ![m] = Stored]
  <2>1. row'[m].status = "null" /\ \A v \in Unit \ {m} : row'[v] = row[v]
    BY <1>4 DEF TypeOK, Stored
  <2>2. /\ Stage' = [Stage EXCEPT ![m] = "waiting"] /\ Who' = [Who EXCEPT ![m] = None]
        /\ Stage[m] = "new" /\ Who[m] = None
        /\ Dead' = Dead /\ Answered' = Answered
    BY <1>2, <1>4, <2>1, SeenOne, RowSeen
  <2>3. Who' = Who
    BY <2>2 DEF Who
  <2> QED
    BY <1>4, <2>2, <2>3 DEF Lifecycle!Accept
<1> QED
  BY <1>1, <1>3, <1>4 DEF Receive, m

\* A unit that is received waits as it did.
LEMMA MarkSeen ==
    ASSUME SchedulerAssumption, TypeOK, TypeOK', RunInv,
           NEW r \in Runner, MarkReceived(r)
    PROVE  UNCHANGED Seen
<1> DEFINE m == consumer[r].unit
<1>1. m \in Unit /\ Holds(r, m)
  BY DEF MarkReceived, Holds, Busy, TypeOK, ConsumersOK, Consumer, SchedulerAssumption
<1>2. row[m].status = "null" /\ row[m] \in Row
  BY <1>1 DEF RunInv, RowsTell, ConsumerRow, MarkReceived, TypeOK
<1>3. row'[m].status = "received" /\ \A v \in Unit \ {m} : row'[v] = row[v]
  BY <1>1, <1>2, RowStatus DEF MarkReceived, TypeOK, Unfinished
<1>4. UNCHANGED <<life, responses>>
  BY DEF MarkReceived
<1> HIDE DEF m
<1>5. /\ Stage' = [Stage EXCEPT ![m] = Stage[m]] /\ Who' = [Who EXCEPT ![m] = Who[m]]
      /\ Dead' = Dead /\ Answered' = Answered
  BY <1>1, <1>2, <1>3, <1>4, SeenOne, RowSeen
<1> QED
  BY <1>5 DEF Seen, Stage, Who

\* A coroutine starts a unit that waits, in a runner that is not dead.
LEMMA StartSeen ==
    ASSUME SchedulerAssumption, TypeOK, TypeOK', RunInv,
           NEW c \in coroutines, StartUnit(c)
    PROVE  \E u \in Unit, r \in Runner : Lifecycle!Run(u, r)
<1>1. c \in Coroutine
  BY DEF TypeOK, CoroutinesOK
<1> DEFINE u == c.unit
           r == c.runner
<1>2. u \in Unit /\ r \in Runner /\ row[u].status = "received" /\ r \notin Dead
  BY <1>1 DEF Coroutine, RunInv, RowsTell, CoroutineRow, StartUnit, LoopFree, Dead
<1>3. /\ row'[u].status = "in_progress" /\ row'[u].runner = r
      /\ \A v \in Unit \ {u} : row'[v] = row[v]
      /\ UNCHANGED <<life, responses>>
  BY <1>2 DEF StartUnit, TypeOK
<1> HIDE DEF u, r
<1>4. /\ Stage' = [Stage EXCEPT ![u] = "running"] /\ Who' = [Who EXCEPT ![u] = r]
      /\ Stage[u] = "waiting" /\ Dead' = Dead /\ Answered' = Answered
  BY <1>2, <1>3, SeenOne, RowSeen
<1> QED
  BY <1>2, <1>4 DEF Lifecycle!Run

\* It finishes a unit that runs in its own runner, which is not dead.
LEMMA FinishSeen ==
    ASSUME SchedulerAssumption, TypeOK, TypeOK', RunInv,
           NEW c \in coroutines, NEW result \in Finished, FinishUnit(c, result)
    PROVE  \E u \in Unit : Lifecycle!Finish(u)
<1>1. c \in Coroutine
  BY DEF TypeOK, CoroutinesOK
<1> DEFINE u == c.unit
           r == c.runner
<1>2. /\ u \in Unit /\ row[u] \in Row /\ r \notin Dead
      /\ row[u].status = "in_progress" /\ row[u].runner = r
  BY <1>1 DEF Coroutine, RunInv, RowsTell, CoroutineRow, FinishUnit, LoopFree, Dead,
              TypeOK
<1>3. /\ row'[u].status = result /\ \A v \in Unit \ {u} : row'[v] = row[v]
      /\ UNCHANGED <<life, responses>>
  BY <1>2, RowStatus DEF FinishUnit, TypeOK
<1> HIDE DEF u, r
<1>4. /\ Stage' = [Stage EXCEPT ![u] = "finished"] /\ Who' = [Who EXCEPT ![u] = None]
      /\ Stage[u] = "running" /\ Who[u] = r /\ Dead' = Dead /\ Answered' = Answered
  BY <1>2, <1>3, SeenOne, RowSeen
<1> QED
  BY <1>2, <1>4 DEF Lifecycle!Finish

\* The response of a unit is the first.
LEMMA RespondSeen ==
    ASSUME SchedulerAssumption, TypeOK, RunInv, NEW c \in coroutines, Respond(c)
    PROVE  \E u \in Unit : Lifecycle!Answer(u)
<1>1. c.unit \in Unit /\ row[c.unit] \in Row
  BY DEF TypeOK, CoroutinesOK, Coroutine
<1>2. /\ row[c.unit].status \in Finished
      /\ \A a \in responses : a.unit # c.unit
  BY DEF RunInv, RowsTell, CoroutineRow, Respond
<1>3. Stage[c.unit] = "finished" /\ c.unit \notin Answered
  BY <1>1, <1>2, RowSeen DEF Stage, Answered
<1>4. Answered' = Answered \cup {c.unit}
  BY RespondStep DEF RunInv
<1>5. UNCHANGED <<Stage, Who, Dead>>
  BY DEF Respond, Stage, Who, Dead
<1> QED
  BY <1>1, <1>3, <1>4, <1>5 DEF Lifecycle!Answer

\* A heartbeat lets units of dead runners wait again.
LEMMA BeatSeen ==
    ASSUME SchedulerAssumption, TypeOK, TypeOK', RunInv, NEW r \in Runner, Beat(r)
    PROVE  \E us \in SUBSET Unit : Lifecycle!Recover(us)
<1> DEFINE us == {n.unit : n \in TakenOver(r)}
<1>1. \A u \in us : /\ u \in Unit /\ row[u].status = "in_progress"
                    /\ row[u].runner \in Dead
  BY TakenWereRunning DEF Dead
<1>2. /\ \A u \in us : row'[u].status = "received" /\ row'[u] \in Row /\ row[u] \in Row
      /\ \A u \in Unit \ us : row'[u] = row[u]
      /\ UNCHANGED <<life, responses>>
  BY <1>1 DEF Beat, TypeOK
<1> HIDE DEF us
<1>3. \A u \in us : /\ StageOf(row'[u]) = "waiting" /\ WhoOf(row'[u]) = None
                    /\ StageOf(row[u]) = "running" /\ WhoOf(row[u]) \in Dead
  BY <1>1, <1>2, RowSeen
<1>4. us \in SUBSET Unit
  BY <1>1
<1>5. /\ Stage' = [u \in Unit |-> IF u \in us THEN "waiting" ELSE Stage[u]]
      /\ Who' = [u \in Unit |-> IF u \in us THEN None ELSE Who[u]]
  BY <1>2, <1>3, <1>4 DEF Stage, Who
<1>6. \A u \in us : Stage[u] = "running" /\ Who[u] \in Dead
  BY <1>3, <1>4 DEF Stage, Who
<1>7. UNCHANGED <<Dead, Answered>>
  BY <1>2 DEF Dead, Answered
<1> QED
  BY <1>4, <1>5, <1>6, <1>7 DEF Lifecycle!Recover

\* Every step of the scheduler is a step of UnitLifecycle or none.
LEMMA SeenStep ==
    ASSUME SchedulerAssumption, Reliable, TypeOK, TypeOK', RunInv, [Next]_vars
    PROVE  [Lifecycle!Next]_Seen
<1>1. CASE UNCHANGED <<row, life, responses>>
  BY <1>1 DEF Seen, Stage, Who, Dead, Answered
<1>2. ASSUME NEW r \in Runner, Start(r) PROVE UNCHANGED Seen
  BY <1>2 DEF Start, Seen, Stage, Who, Dead, Answered, TypeOK
<1>3. ASSUME NEW r \in Runner, Crash(r) PROVE Lifecycle!Die(r)
  <2>1. life' = [life EXCEPT ![r] = "down"] /\ UNCHANGED <<row, responses>>
    BY <1>3 DEF Crash
  <2>2. Dead' = Dead \cup {r}
    BY <2>1 DEF Dead, TypeOK
  <2> QED
    BY <2>1, <2>2 DEF Lifecycle!Die, Stage, Who, Answered
<1>4. ASSUME NEW r \in Runner, (\E p \in Partition : Receive(r, p)) \/ MarkReceived(r)
      PROVE  (\E u \in Unit : Lifecycle!Accept(u)) \/ UNCHANGED Seen
  BY <1>4, ReceiveSeen, MarkSeen
<1>5. ASSUME NEW r \in Runner, Beat(r)
      PROVE  \E us \in SUBSET Unit : Lifecycle!Recover(us)
  BY <1>5, BeatSeen
<1>6. ASSUME NEW c \in coroutines, StepUnit(c)
      PROVE  \/ \E u \in Unit, r \in Runner : Lifecycle!Run(u, r)
             \/ \E u \in Unit : Lifecycle!Finish(u) \/ Lifecycle!Answer(u)
  BY <1>6, StartSeen, FinishSeen, RespondSeen DEF StepUnit
<1>7. CASE UNCHANGED vars
  BY <1>1, <1>7 DEF vars
<1>8. ASSUME NEW r \in Runner,
             \/ \E p \in Partition : Assign(p, r)
             \/ Commit(r) \/ Spawn(r) \/ ConsumerStops(r) \/ Expire(r) \/ BeatFails(r)
      PROVE  UNCHANGED <<row, life, responses>>
  BY <1>8 DEF Assign, Commit, Spawn, ConsumerStops, Expire, BeatFails
<1>9. ASSUME NEW c \in coroutines, CoroutineFails(c)
      PROVE  UNCHANGED <<row, life, responses>>
  BY <1>9 DEF CoroutineFails
<1> QED
  BY <1>1, <1>2, <1>3, <1>4, <1>5, <1>6, <1>7, <1>8, <1>9 DEF Next, Lifecycle!Next

(***************************************************************************)
(* Without stalls and failing heartbeats the scheduler implements          *)
(* UnitLifecycle, for any runners, crashes, exceptions, units, partitions  *)
(* and repeated messages: a unit is never in two runners and is answered   *)
(* once (fetch_and_send and manage_expired_runners).                       *)
(***************************************************************************)
THEOREM RunsOneAtATimeHolds ==
    ASSUME Reliable
    PROVE  Spec => RunsOneAtATime
<1>1. SchedulerAssumption
  BY SchedulerAssumption
<1>2. RunInv /\ TypeOK /\ [Next]_vars => RunInv'
  BY <1>1, RunStep
<1>3. RunInv /\ TypeOK /\ TypeOK' /\ [Next]_vars => [Lifecycle!Next]_<<Stage, Who, Dead, Answered>>
  BY <1>1, SeenStep DEF Seen
<1> QED
  BY <1>2, <1>3, RunInit, SeenInit, TypeCorrect, PTL
     DEF Spec, RunsOneAtATime, Lifecycle!Spec

-----------------------------------------------------------------------------
(* Whatever is held up *)

\* The heartbeat of the coroutine's runner has not been deleted.
Kept(c) == heartbeat[c.runner] # "absent"

\* No heartbeat's transaction has failed.
Beating == \A r \in Runner : life[r] # "new" => r \in beating

\* A unit is in one coroutine at most whose runner nobody took over.
OneKept ==
    \A c, d \in coroutines : Kept(c) /\ Kept(d) /\ c.unit = d.unit => c = d

\* A unit that a consumer has is in no other consumer and in no coroutine.
Alone ==
    /\ \A c \in coroutines : row[c.unit].status \notin {"absent", "null"}
    /\ \A r \in Runner, c \in coroutines : ~Holds(r, c.unit)
    /\ \A r, s \in Runner, u \in Unit : Holds(r, u) /\ Holds(s, u) => r = s
    /\ \A r \in Runner : ConsumerRow(r)

(***************************************************************************)
(* A takeover goes by the row's runner: unless it was taken over itself,   *)
(* no coroutine of another such runner has the unit.                       *)
(***************************************************************************)
RowOwned(u) ==
    /\ row[u].status \in {"absent", "null", "received"} => row[u].runner = None
    /\ row[u].status = "in_progress" =>
           /\ row[u].runner \in Runner /\ life[row[u].runner] # "new"
           /\ heartbeat[row[u].runner] # "absent" =>
                  \A c \in coroutines :
                      c.unit = u /\ Kept(c) => c.runner = row[u].runner

KeptInv == OneKept /\ Alone /\ \A u \in Unit : RowOwned(u)

\* A heartbeat that has failed never goes on, a process starts once, and a
\* heartbeat that was deleted does not come back.
LEMMA LostForGood ==
    ASSUME SchedulerAssumption, TypeOK, [Next]_vars
    PROVE  /\ Beating' => Beating
           /\ \A r \in Runner : BeatFails(r) => ~Beating'
           /\ \A x \in Runner :
                  life[x] # "new" =>
                      /\ life'[x] # "new"
                      /\ heartbeat'[x] # "absent" => heartbeat[x] # "absent"
<1>1. CASE UNCHANGED <<life, beating, heartbeat>>
  BY <1>1 DEF Beating, BeatFails
<1>2. ASSUME NEW r \in Runner, Start(r)
      PROVE  /\ life[r] = "new" /\ life' = [life EXCEPT ![r] = "up"]
             /\ heartbeat' = [heartbeat EXCEPT ![r] = "fresh"]
             /\ beating' = beating \cup {r}
  BY <1>2 DEF Start
<1>3. ASSUME NEW r \in Runner, Crash(r)
      PROVE  /\ life' = [life EXCEPT ![r] = "down"] /\ life[r] = "up"
             /\ UNCHANGED <<heartbeat, beating>>
  BY <1>3 DEF Crash
<1>4. ASSUME NEW r \in Runner, Expire(r)
      PROVE  /\ heartbeat' = [heartbeat EXCEPT ![r] = "expired"]
             /\ heartbeat[r] = "fresh" /\ UNCHANGED <<life, beating>>
  BY <1>4 DEF Expire
<1>5. ASSUME NEW r \in Runner, Beat(r)
      PROVE  /\ UNCHANGED <<life, beating>>
             /\ \A x \in Runner : heartbeat[x] = "absent" => heartbeat'[x] = "absent"
  BY <1>5 DEF Beat, Renewed, TypeOK
<1>6. ASSUME NEW r \in Runner, BeatFails(r)
      PROVE  /\ beating' = beating \ {r} /\ life[r] # "new"
             /\ UNCHANGED <<life, heartbeat>>
  BY <1>6 DEF BeatFails, LoopFree
<1>7. UNCHANGED <<life, beating, heartbeat>>
      \/ \E r \in Runner : Start(r) \/ Crash(r) \/ Expire(r) \/ Beat(r) \/ BeatFails(r)
  BY DEF Next, vars, Assign, Receive, MarkReceived, Commit, Spawn, ConsumerStops,
         StepUnit, StartUnit, FinishUnit, Respond, CoroutineFails
<1>8. /\ life \in [Runner -> {"new", "up", "down"}]
      /\ heartbeat \in [Runner -> {"absent", "fresh", "expired"}]
      /\ beating \subseteq {r \in Runner : life[r] # "new"}
  BY DEF TypeOK
<1>9. Beating' => Beating
  BY <1>1, <1>2, <1>3, <1>4, <1>5, <1>6, <1>7, <1>8 DEF Beating
<1>10. \A r \in Runner : BeatFails(r) => ~Beating'
  BY <1>6 DEF Beating
<1>11. ASSUME NEW x \in Runner, life[x] # "new"
       PROVE  /\ life'[x] # "new"
              /\ heartbeat'[x] # "absent" => heartbeat[x] # "absent"
  BY <1>1, <1>2, <1>3, <1>4, <1>5, <1>6, <1>7, <1>8, <1>11
<1> QED
  BY <1>9, <1>10, <1>11

\* The steps that leave rows alone, end coroutines or let go of units.
LEMMA NothingTaken ==
    ASSUME SchedulerAssumption, TypeOK, KeptInv, [Next]_vars, UNCHANGED row,
           coroutines' \subseteq coroutines,
           \A r \in Runner, u \in Unit :
               Holds(r, u)' => /\ Holds(r, u)
                               /\ (consumer[r].pc = "stored" <=> consumer'[r].pc = "stored")
    PROVE  KeptInv'
<1>1. \A c \in coroutines : c.runner \in Runner /\ c.unit \in Unit /\ life[c.runner] # "new"
  BY DEF TypeOK, CoroutinesOK, Coroutine
<1>2. \A c \in coroutines' : c \in coroutines /\ (Kept(c)' => Kept(c))
  BY <1>1, LostForGood DEF Kept
<1>3. OneKept'
  BY <1>2 DEF OneKept, KeptInv
<1>4. Alone'
  BY <1>1 DEF Alone, KeptInv, ConsumerRow
<1>5. ASSUME NEW u \in Unit PROVE RowOwned(u)'
  BY <1>2, LostForGood DEF RowOwned, KeptInv
<1> QED
  BY <1>3, <1>4, <1>5 DEF KeptInv

\* A consumer stores a unit that was absent: nobody had it.
LEMMA ReceiveKept ==
    ASSUME SchedulerAssumption, TypeOK, KeptInv, [Next]_vars,
           NEW r \in Runner, NEW p \in Partition, Receive(r, p)
    PROVE  KeptInv'
<1> DEFINE m == Log[p][position[p] + 1]
<1>1. m \in Unit \cup {Malformed}
  BY DEF Receive, TypeOK, PartitionsOK, SchedulerAssumption
<1>2. UNCHANGED <<coroutines, heartbeat, life>>
  BY DEF Receive
<1>3. \A c \in coroutines : c.unit \in Unit
  BY DEF TypeOK, CoroutinesOK, Coroutine
<1> HIDE DEF m
<1>4. CASE UNCHANGED <<row, consumer>>
  BY <1>2, <1>4, NothingTaken DEF Holds
<1>5. CASE /\ m \in Unit /\ row[m].status = "absent"
           /\ row' = [row EXCEPT ![m] = Stored]
           /\ consumer' = [consumer EXCEPT ![r] = [pc |-> "stored", unit |-> m]]
  <2>1. /\ \A u \in Unit : row'[u] = IF u = m THEN Stored ELSE row[u]
        /\ \A s \in Runner : consumer'[s] = IF s = r THEN [pc |-> "stored", unit |-> m]
                                            ELSE consumer[s]
    BY <1>5 DEF TypeOK, ConsumersOK
  <2>2. \A c \in coroutines : c.unit \in Unit /\ c.unit # m
    BY <1>3, <1>5 DEF KeptInv, Alone
  <2>3. \A s \in Runner : ~Holds(s, m)
    BY <1>5 DEF KeptInv, Alone, ConsumerRow
  <2>4. \A s \in Runner, u \in Unit :
            Holds(s, u)' => IF s = r THEN u = m /\ consumer'[s].pc = "stored"
                            ELSE Holds(s, u) /\ consumer'[s] = consumer[s]
    BY <2>1 DEF Holds
  <2>5. OneKept'
    BY <1>2 DEF KeptInv, OneKept, Kept
  <2>6. \A s \in Runner : ConsumerRow(s)'
    BY <2>1, <2>3, <2>4 DEF KeptInv, Alone, ConsumerRow, Stored
  <2>7. Alone'
    BY <1>2, <2>1, <2>2, <2>3, <2>4, <2>6 DEF KeptInv, Alone
  <2>8. ASSUME NEW u \in Unit PROVE RowOwned(u)'
    BY <1>2, <2>1 DEF KeptInv, RowOwned, Kept, Stored
  <2> QED
    BY <2>5, <2>7, <2>8 DEF KeptInv
<1> QED
  BY <1>1, <1>4, <1>5 DEF Receive, m

\* It says that its unit is received, and the row has no runner yet.
LEMMA MarkKept ==
    ASSUME SchedulerAssumption, TypeOK, KeptInv, [Next]_vars,
           NEW r \in Runner, MarkReceived(r)
    PROVE  KeptInv'
<1> DEFINE m == consumer[r].unit
<1>1. m \in Unit /\ Holds(r, m) /\ consumer[r] \in Consumer
  BY DEF MarkReceived, Holds, Busy, TypeOK, ConsumersOK, Consumer, SchedulerAssumption
<1>2. UNCHANGED <<coroutines, heartbeat, life>>
  BY DEF MarkReceived
<1>3. row[m] \in Row /\ "received" \in {"null"} \cup Unfinished \cup Finished
  BY <1>1 DEF TypeOK, Unfinished
<1>4. row[m].status = "null" /\ row[m].runner = None
  BY <1>1 DEF KeptInv, Alone, RowOwned, ConsumerRow, MarkReceived
<1>5. \A u \in Unit : IF u = m THEN row'[u].status = "received" /\ row'[u].runner = None
                      ELSE row'[u] = row[u]
  BY <1>1, <1>3, <1>4, RowStatus DEF MarkReceived, TypeOK
<1>6. \A s \in Runner : IF s = r THEN consumer'[s].pc = "received" /\ consumer'[s].unit = m
                        ELSE consumer'[s] = consumer[s]
  BY <1>1, ConsumerMoves DEF MarkReceived, TypeOK, ConsumersOK, Busy
<1> HIDE DEF m
<1>7. \A s \in Runner, u \in Unit :
          Holds(s, u)' => /\ Holds(s, u)
                          /\ IF s = r THEN u = m /\ consumer'[s].pc = "received"
                             ELSE consumer'[s] = consumer[s]
  BY <1>1, <1>6 DEF Holds
<1>8. \A c \in coroutines : c.unit \in Unit /\ c.unit # m
  BY <1>1 DEF KeptInv, Alone, TypeOK, CoroutinesOK, Coroutine
<1>9. \A s \in Runner : Holds(s, m) => s = r
  BY <1>1 DEF KeptInv, Alone
<1>10. OneKept'
  BY <1>2 DEF KeptInv, OneKept, Kept
<1>11. \A s \in Runner : ConsumerRow(s)'
  BY <1>5, <1>7, <1>9 DEF KeptInv, Alone, ConsumerRow
<1>12. Alone'
  BY <1>2, <1>5, <1>7, <1>8, <1>11 DEF KeptInv, Alone
<1>13. ASSUME NEW u \in Unit PROVE RowOwned(u)'
  BY <1>2, <1>5 DEF KeptInv, RowOwned, Kept
<1> QED
  BY <1>10, <1>12, <1>13 DEF KeptInv

\* It passes the unit, which nobody else has, to a coroutine.
LEMMA SpawnKept ==
    ASSUME SchedulerAssumption, TypeOK, KeptInv, [Next]_vars,
           NEW r \in Runner, Spawn(r)
    PROVE  KeptInv'
<1> DEFINE m == consumer[r].unit
           n == Created(r, m, None)
<1>1. m \in Unit /\ Holds(r, m) /\ consumer[r].pc = "committed"
  BY DEF Spawn, Holds, Busy, TypeOK, ConsumersOK, Consumer, SchedulerAssumption
<1>2. coroutines' = coroutines \cup {n} /\ UNCHANGED <<row, heartbeat, life>>
  BY DEF Spawn
<1>3. n.unit = m
  BY <1>1, CreatedType
<1>4. row[m].status = "received"
  BY <1>1 DEF KeptInv, Alone, ConsumerRow
<1> HIDE DEF n, m
<1>5. \A s \in Runner, u \in Unit :
          Holds(s, u)' => Holds(s, u) /\ s # r /\ consumer'[s] = consumer[s]
  BY DEF Spawn, Holds, TypeOK, ConsumersOK, Busy
<1>6. \A c \in coroutines : c.unit \in Unit /\ c.unit # m
  BY <1>1 DEF KeptInv, Alone, TypeOK, CoroutinesOK, Coroutine
<1>7. \A s \in Runner : Holds(s, m) => s = r
  BY <1>1 DEF KeptInv, Alone
<1>8. OneKept'
  BY <1>2, <1>3, <1>6 DEF KeptInv, OneKept, Kept
<1>9. Alone'
  BY <1>1, <1>2, <1>3, <1>4, <1>5, <1>6, <1>7 DEF KeptInv, Alone, ConsumerRow
<1>10. ASSUME NEW u \in Unit PROVE RowOwned(u)'
  BY <1>2, <1>3, <1>4 DEF KeptInv, RowOwned, Kept
<1> QED
  BY <1>8, <1>9, <1>10 DEF KeptInv

\* The coroutine's runner is now the row's.
LEMMA StartKept ==
    ASSUME SchedulerAssumption, TypeOK, KeptInv, [Next]_vars,
           NEW c \in coroutines, StartUnit(c)
    PROVE  KeptInv'
<1> DEFINE n == [c EXCEPT !.pc = "posting"]
           v == [status |-> "in_progress", runner |-> c.runner]
<1>1. \A d \in coroutines : d.runner \in Runner /\ d.unit \in Unit /\ life[d.runner] # "new"
  BY DEF TypeOK, CoroutinesOK, Coroutine
<1>2. /\ coroutines' = (coroutines \ {c}) \cup {n}
      /\ UNCHANGED <<consumer, heartbeat, life>>
  BY DEF StartUnit, Step
<1>3. n.unit = c.unit /\ n.runner = c.runner
  BY CoroutineMoves DEF TypeOK, CoroutinesOK
<1>4. \A u \in Unit : row'[u] = IF u = c.unit THEN v ELSE row[u]
  BY <1>1 DEF StartUnit, TypeOK
<1> HIDE DEF n
<1>5. \A d \in coroutines : (Kept(d)' <=> Kept(d)) /\ (Kept(n)' <=> Kept(c))
  BY <1>2, <1>3 DEF Kept
<1>6. OneKept'
  BY <1>2, <1>3, <1>5 DEF KeptInv, OneKept
<1>7. \A s \in Runner : ~Holds(s, c.unit) /\ ConsumerRow(s)'
  BY <1>1, <1>2, <1>4 DEF KeptInv, Alone, ConsumerRow, Holds
<1>8. Alone'
  BY <1>1, <1>2, <1>3, <1>4, <1>7 DEF KeptInv, Alone, Holds
<1>9. ASSUME NEW u \in Unit PROVE RowOwned(u)'
  <2>1. CASE u = c.unit
    <3>1. heartbeat[c.runner] # "absent" =>
              \A d \in coroutines : d.unit = u /\ Kept(d) => d = c
      BY <2>1 DEF KeptInv, OneKept, Kept
    <3>2. row'[u] = v /\ v.status = "in_progress" /\ v.runner = c.runner
      BY <1>4, <2>1
    <3>3. heartbeat[c.runner] # "absent" =>
              \A d \in coroutines' : d.unit = u /\ Kept(d)' => d.runner = c.runner
      BY <1>2, <1>3, <1>5, <3>1
    <3> QED
      BY <1>1, <1>2, <3>2, <3>3 DEF RowOwned
  <2>2. CASE u # c.unit
    BY <1>2, <1>3, <1>4, <1>5, <2>2 DEF KeptInv, RowOwned
  <2> QED
    BY <2>1, <2>2
<1> QED
  BY <1>6, <1>8, <1>9 DEF KeptInv

\* The row of a unit that is finished cannot be taken over.
LEMMA FinishKept ==
    ASSUME SchedulerAssumption, TypeOK, KeptInv, [Next]_vars,
           NEW c \in coroutines, NEW result \in Finished, FinishUnit(c, result)
    PROVE  KeptInv'
<1> DEFINE n == [c EXCEPT !.pc = result]
<1>1. \A d \in coroutines : d.runner \in Runner /\ d.unit \in Unit
  BY DEF TypeOK, CoroutinesOK, Coroutine
<1>2. /\ coroutines' = (coroutines \ {c}) \cup {n}
      /\ UNCHANGED <<consumer, heartbeat, life>>
  BY DEF FinishUnit, Step
<1>3. n.unit = c.unit /\ n.runner = c.runner
  BY CoroutineMoves DEF TypeOK, CoroutinesOK
<1>4. \A u \in Unit : IF u = c.unit THEN row'[u].status \in Finished ELSE row'[u] = row[u]
  BY <1>1, RowStatus DEF FinishUnit, TypeOK
<1> HIDE DEF n
<1>5. \A d \in coroutines : (Kept(d)' <=> Kept(d)) /\ (Kept(n)' <=> Kept(c))
  BY <1>2, <1>3 DEF Kept
<1>6. OneKept'
  BY <1>2, <1>3, <1>5 DEF KeptInv, OneKept
<1>7. \A s \in Runner : ~Holds(s, c.unit) /\ ConsumerRow(s)'
  BY <1>1, <1>2, <1>4 DEF KeptInv, Alone, ConsumerRow, Holds
<1>8. Alone'
  BY <1>1, <1>2, <1>3, <1>4, <1>7 DEF KeptInv, Alone, Holds, Finished
<1>9. ASSUME NEW u \in Unit PROVE RowOwned(u)'
  BY <1>2, <1>3, <1>4, <1>5 DEF KeptInv, RowOwned, Finished
<1> QED
  BY <1>6, <1>8, <1>9 DEF KeptInv

\* What is taken over was in progress in the runner whose heartbeat goes: a
\* unit that waits has no runner.
LEMMA TakenFrom ==
    ASSUME SchedulerAssumption, TypeOK, KeptInv, NEW r \in Runner,
           NEW n \in TakenOver(r)
    PROVE  /\ n.unit \in Unit /\ n.runner = r
           /\ row[n.unit].status = "in_progress"
           /\ row[n.unit].runner \in Expired(r)
           /\ n = Created(r, n.unit, row[n.unit].runner)
<1>1. PICK x \in Runner, u \in Unit : /\ x \in Expired(r) /\ u \in NotFinished(x)
                                      /\ n = Created(r, u, x)
  BY DEF TakenOver, Expired, NotFinished
<1>2. n.unit = u /\ n.runner = r
  BY <1>1, CreatedType
<1>3. x # None /\ row[u].runner = x /\ row[u].status \in Unfinished
  BY <1>1 DEF NotFinished, SchedulerAssumption
<1>4. row[u].status = "in_progress"
  BY <1>3 DEF KeptInv, RowOwned, Unfinished
<1> QED
  BY <1>1, <1>2, <1>3, <1>4

\* The coroutines a takeover leaves behind are of runners without heartbeat.
LEMMA BeatKept ==
    ASSUME SchedulerAssumption, TypeOK, KeptInv, [Next]_vars,
           NEW r \in Runner, Beat(r)
    PROVE  KeptInv'
<1> DEFINE taken == {c.unit : c \in TakenOver(r)}
           v == [status |-> "received", runner |-> None]
<1>1. /\ \A n \in TakenOver(r) : n.unit \in taken /\ n.unit \in Unit /\ n.runner = r
      /\ \A u \in taken : u \in Unit /\ row[u].status = "in_progress"
                          /\ row[u].runner \in Expired(r)
  BY TakenFrom
<1>2. \A m, n \in TakenOver(r) : m.unit = n.unit => m = n
  BY TakenFrom
<1>3. /\ coroutines' = coroutines \cup TakenOver(r)
      /\ UNCHANGED <<consumer, life>>
      /\ \A u \in Unit : row'[u] = IF u \in taken THEN v ELSE row[u]
      /\ heartbeat' = Renewed(r)
  BY DEF Beat
<1>4. \A c \in coroutines : c.runner \in Runner /\ c.unit \in Unit /\ life[c.runner] # "new"
  BY DEF TypeOK, CoroutinesOK, Coroutine
<1>5. \A x \in Expired(r) : /\ x \in Runner /\ x # r
                            /\ heartbeat[x] # "absent" /\ heartbeat'[x] = "absent"
  BY <1>3 DEF Expired, Renewed
<1>6. \A c \in coroutines : Kept(c)' => Kept(c)
  BY <1>4, LostForGood DEF Kept
<1> HIDE DEF taken
<1>7. \A c \in coroutines : c.unit \in taken => ~Kept(c)'
  <2> SUFFICES ASSUME NEW c \in coroutines, c.unit \in taken, Kept(c)'
               PROVE  FALSE
    OBVIOUS
  <2>1. c.runner = row[c.unit].runner
    BY <1>1, <1>4, <1>5, <1>6 DEF KeptInv, RowOwned
  <2> QED
    BY <1>1, <1>5, <2>1 DEF Kept
<1>8. OneKept'
  BY <1>1, <1>2, <1>3, <1>6, <1>7 DEF KeptInv, OneKept
<1>9. \A s \in Runner : ConsumerRow(s)'
  BY <1>1, <1>3 DEF KeptInv, Alone, ConsumerRow, Holds
<1>10. \A s \in Runner, u \in taken : ~Holds(s, u)
  BY <1>1 DEF KeptInv, Alone, ConsumerRow
<1>11. Alone'
  BY <1>1, <1>3, <1>4, <1>9, <1>10 DEF KeptInv, Alone, Holds
<1>12. ASSUME NEW u \in Unit PROVE RowOwned(u)'
  <2>1. CASE u \in taken
    BY <1>3, <2>1 DEF RowOwned
  <2>2. CASE u \notin taken
    <3>1. row'[u] = row[u] /\ \A c \in coroutines' : c.unit = u => c \in coroutines
      BY <1>1, <1>3, <2>2
    <3>2. row[u].status = "in_progress" =>
              (heartbeat'[row[u].runner] # "absent" => heartbeat[row[u].runner] # "absent")
      BY LostForGood DEF KeptInv, RowOwned
    <3> QED
      BY <1>3, <1>6, <3>1, <3>2 DEF KeptInv, RowOwned
  <2> QED
    BY <2>1, <2>2
<1> QED
  BY <1>8, <1>11, <1>12 DEF KeptInv

\* Every action keeps them, as long as no heartbeat's transaction fails.
LEMMA KeptStep ==
    ASSUME SchedulerAssumption, TypeOK, Beating => KeptInv, [Next]_vars, Beating'
    PROVE  KeptInv'
<1>1. KeptInv /\ \A r \in Runner : ~BeatFails(r)
  BY LostForGood
<1>2. consumer \in [Runner -> Consumer]
  BY DEF TypeOK, ConsumersOK
<1>3. CASE UNCHANGED <<row, consumer>> /\ coroutines' \subseteq coroutines
  BY <1>1, <1>3, NothingTaken DEF Holds
<1>4. ASSUME NEW r \in Runner,
             Start(r) \/ Crash(r) \/ Commit(r) \/ ConsumerStops(r)
      PROVE  KeptInv'
  <2>1. UNCHANGED row /\ coroutines' \subseteq coroutines
    BY <1>4 DEF Start, Crash, Commit, ConsumerStops
  <2>2. \A s \in Runner \ {r} : consumer'[s] = consumer[s]
    BY <1>2, <1>4 DEF Start, Crash, Commit, ConsumerStops
  <2>3. \/ consumer'[r].pc \notin Busy
        \/ /\ consumer[r].pc = "received" /\ consumer'[r].pc = "committed"
           /\ consumer'[r].unit = consumer[r].unit
    <3>1. CASE Start(r)
      <4>1. consumer' = [consumer EXCEPT ![r].pc = "poll"]
        BY <3>1 DEF Start
      <4> QED
        BY <1>2, <4>1, ConsumerMoves DEF Busy
    <3>2. CASE Crash(r) \/ ConsumerStops(r)
      BY <1>2, <3>2 DEF Crash, ConsumerStops, Busy
    <3>3. CASE Commit(r)
      <4>1. consumer' = [consumer EXCEPT ![r].pc = "committed"] /\ consumer[r].pc = "received"
        BY <3>3 DEF Commit
      <4> QED
        BY <1>2, <4>1, ConsumerMoves DEF Busy
    <3> QED
      BY <1>4, <3>1, <3>2, <3>3
  <2>4. \A s \in Runner, u \in Unit :
            Holds(s, u)' => /\ Holds(s, u)
                            /\ (consumer[s].pc = "stored" <=> consumer'[s].pc = "stored")
    BY <2>2, <2>3 DEF Holds, Busy
  <2> QED
    BY <1>1, <2>1, <2>4, NothingTaken
<1>5. ASSUME NEW r \in Runner,
             (\E p \in Partition : Receive(r, p)) \/ MarkReceived(r) \/ Spawn(r) \/ Beat(r)
      PROVE  KeptInv'
  BY <1>1, <1>5, ReceiveKept, MarkKept, SpawnKept, BeatKept
<1>6. ASSUME NEW c \in coroutines,
             StartUnit(c) \/ \E s \in Finished : FinishUnit(c, s)
      PROVE  KeptInv'
  BY <1>1, <1>6, StartKept, FinishKept
<1>7. ASSUME NEW c \in coroutines, Respond(c) \/ CoroutineFails(c) PROVE KeptInv'
  BY <1>3, <1>7 DEF Respond, CoroutineFails
<1>8. ASSUME NEW r \in Runner, (\E p \in Partition : Assign(p, r)) \/ Expire(r)
      PROVE  KeptInv'
  BY <1>3, <1>8 DEF Assign, Expire
<1>9. CASE UNCHANGED vars
  BY <1>3, <1>9 DEF vars
<1> QED
  BY <1>1, <1>4, <1>5, <1>6, <1>7, <1>8, <1>9 DEF Next, StepUnit

(***************************************************************************)
(* Whatever crashes, raises or is held up, as long as no heartbeat's       *)
(* transaction fails: a unit is in two coroutines only if the heartbeat of *)
(* one of their runners was deleted (manage_expired_runners).              *)
(***************************************************************************)
THEOREM OneRunUnlessLost == Spec => []OneRunUnlessHeartbeatLost
<1> DEFINE IInv == Beating => KeptInv
<1>1. Init => IInv
  BY SchedulerAssumption
     DEF Init, KeptInv, OneKept, Alone, ConsumerRow, RowOwned, Holds, Busy
<1>2. TypeOK /\ IInv /\ [Next]_vars => IInv'
  BY SchedulerAssumption, KeptStep
<1>3. IInv => OneRunUnlessHeartbeatLost
  BY DEF Beating, KeptInv, OneKept, Kept, OneRunUnlessHeartbeatLost
<1> QED
  BY <1>1, <1>2, <1>3, TypeCorrect, PTL DEF Spec

=============================================================================
