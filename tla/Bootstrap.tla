----------------------------- MODULE Bootstrap -----------------------------
(***************************************************************************)
(* The first deployment of the feature job: a feeder                       *)
(* (streaming/bootstrap/service.py) replays the Silver history in order to *)
(* partition 0 of the raw topic, then a completion marker; the job in mode *)
(* FIRST_DEPLOY_BOOTSTRAP builds its state from them; an operator takes a  *)
(* savepoint and restores it in NORMAL_STREAMING for the live transactions.*)
(*                                                                         *)
(* One entity and one event-time subtask: parallel subtasks, retries and   *)
(* the deduplication are the subject of FeatureStream.                     *)
(***************************************************************************)
EXTENDS Integers, Sequences, FiniteSets

CONSTANTS
  Rows,          \* number of Silver transactions, 1 .. Rows in replay order
  Live,          \* number of live transactions, numbered after them
  Times,         \* their event times, in ticks, in the order of their numbers
  OutOfOrder,    \* max_out_of_orderness
  Lateness,      \* allowed_lateness
  Window,        \* the longest feature window
  Runs,          \* bound: runs of the feeder
  MaxLost,       \* bound: failed deliveries
  MaxRestarts,   \* bound: restarts of the job
  MaxQueue       \* bound: undelivered records of the producer

BootstrapAssumption ==
  /\ {Rows, Live, OutOfOrder, Lateness, Window, Runs, MaxLost, MaxRestarts} \subseteq Nat
  /\ MaxQueue \in Nat \ {0} /\ Times \in Seq(Nat) /\ Len(Times) = Rows + Live
  /\ \A i, j \in 1 .. Rows : i < j => Times[i] <= Times[j]

Silver == 1 .. Rows
LiveTx == (Rows + 1) .. (Rows + Live)
Transaction == Silver \cup LiveTx
Marker == 0          \* BOOTSTRAP_COMPLETE
NoTime == -1

VARIABLES
  feeder,       \* the feeder: its run, "running", "succeeded" or "stopped", and how many
                \* records it has produced
  queue,        \* produced and not yet delivered
  log,          \* partition 0 of the raw topic: transactions and markers
  lost,         \* history: rows, or the marker, whose delivery failed
  mode,         \* the job: "bootstrap", "handover" or "normal"
  offset,       \* records of the log it has read
  state,        \* managed state: transactions in the history, pending timestamp groups
  maxTime, watermark,
  complete,     \* the control log has a BOOTSTRAP_COMPLETE
  checkpoint,   \* offset and state of the last checkpoint, or of the savepoint
  online,       \* published snapshots
  restarts

vars == <<feeder, queue, log, lost, mode, offset, state, maxTime, watermark, complete,
          checkpoint, online, restarts>>
source == <<feeder, queue, log, lost>>
job == <<mode, offset, state, maxTime, watermark, complete, checkpoint, online, restarts>>

Empty == [history |-> {}, pending |-> {}]

Init ==
  /\ feeder = [run |-> 0, status |-> "stopped", produced |-> 0]
  /\ queue = <<>> /\ log = <<>> /\ lost = {}
  /\ mode = "bootstrap" /\ offset = 0 /\ state = Empty
  /\ maxTime = NoTime /\ watermark = NoTime
  /\ complete = FALSE /\ checkpoint = [offset |-> 0, state |-> Empty]
  /\ online = {} /\ restarts = 0

-----------------------------------------------------------------------------
(* The feeder.                                                             *)

StartFeeder ==
  /\ feeder.status = "stopped" /\ feeder.run < Runs /\ mode = "bootstrap"
  /\ feeder' = [run |-> feeder.run + 1, status |-> "running", produced |-> 0]
  /\ UNCHANGED <<queue, log, lost, job>>

\* Rows in order, then the marker.
NextRecord == IF feeder.produced < Rows THEN feeder.produced + 1 ELSE Marker

HasMore == feeder.produced <= Rows

Produce ==
  /\ feeder.status = "running" /\ HasMore /\ Len(queue) < MaxQueue
  /\ queue' = Append(queue, NextRecord)
  /\ feeder' = [feeder EXCEPT !.produced = @ + 1]
  /\ UNCHANGED <<log, lost, job>>

Deliver ==
  /\ queue # <<>>
  /\ log' = Append(log, Head(queue)) /\ queue' = Tail(queue)
  /\ UNCHANGED <<feeder, lost, job>>

\* The broker refuses the record, or its delivery times out; the others go on.  The
\* marker is delivered like a row.
DeliveryFails ==
  /\ queue # <<>> /\ Cardinality(lost) < MaxLost
  /\ lost' = lost \cup {Head(queue)} /\ queue' = Tail(queue)
  /\ UNCHANGED <<feeder, log, job>>

\* Mutant: the queue is not waited for.
FlushNothing ==
  /\ feeder.status = "running" /\ feeder.produced = Rows + 1
  /\ feeder' = [feeder EXCEPT !.status = "succeeded"]
  /\ queue' = <<>>
  /\ UNCHANGED <<log, lost, job>>

\* flush() = 0: nothing is left in the queue.
Flush ==
  /\ feeder.status = "running" /\ feeder.produced = Rows + 1 /\ queue = <<>>
  /\ feeder' = [feeder EXCEPT !.status = "succeeded"]
  /\ UNCHANGED <<queue, log, lost, job>>

\* flush() # 0, or the process is killed: what is queued is gone.
StopFeeder ==
  /\ feeder.status = "running" /\ feeder.run < Runs
  /\ feeder' = [feeder EXCEPT !.status = "stopped"]
  /\ queue' = <<>>
  /\ UNCHANGED <<log, lost, job>>

\* A live transaction is published, at any time.
Publish(t) ==
  /\ t \in LiveTx /\ \A i \in DOMAIN log : log[i] # t
  /\ \A u \in LiveTx : u < t => \E i \in DOMAIN log : log[i] = u
  /\ log' = Append(log, t)
  /\ UNCHANGED <<feeder, queue, lost, job>>

-----------------------------------------------------------------------------
(* The job.                                                                *)

Next1 == log[offset + 1]
HasNext == mode # "handover" /\ offset < Len(log)

TooLate(t) == watermark >= 0 /\ Times[t] < watermark - Lateness

\* EventTimeDisposition, then ManagedHistoricalFeatures.process_element.
Accept(t) ==
  /\ maxTime' = IF Times[t] > maxTime THEN Times[t] ELSE maxTime
  /\ state' = IF TooLate(t) THEN state
              ELSE [history |-> state.history \cup {t}, pending |-> state.pending \cup {Times[t]}]

\* Each mode takes its own records.
Own(t) == IF mode = "bootstrap" THEN t \in Silver ELSE t \in LiveTx

\* Mutant: the bootstrap job passes over live transactions.
PassesLive(t) == ~Own(t)

\* The normal job filters rows out, the bootstrap job fails on a live transaction.
Passes(t) == ~Own(t) /\ mode = "normal"

Read ==
  /\ HasNext /\ Next1 # Marker /\ Own(Next1)
  /\ Accept(Next1) /\ offset' = offset + 1
  /\ UNCHANGED <<source, mode, watermark, complete, checkpoint, online, restarts>>

\* Its timestamp moves the watermark all the same.
ReadOther ==
  /\ HasNext /\ Next1 # Marker /\ Passes(Next1)
  /\ maxTime' = IF Times[Next1] > maxTime THEN Times[Next1] ELSE maxTime
  /\ offset' = offset + 1
  /\ UNCHANGED <<source, mode, state, watermark, complete, checkpoint, online, restarts>>

ReadMarker ==
  /\ HasNext /\ Next1 = Marker
  /\ complete' = TRUE /\ offset' = offset + 1
  /\ UNCHANGED <<source, mode, state, maxTime, watermark, checkpoint, online, restarts>>

Watermark(w) ==
  /\ mode # "handover" /\ w > watermark /\ w <= maxTime - OutOfOrder - 1
  /\ watermark' = w
  /\ UNCHANGED <<source, mode, offset, state, maxTime, complete, checkpoint, online, restarts>>

Due == {at \in state.pending : at + Lateness + 1 <= watermark}

Snapshot(at) == {t \in state.history : at - Window <= Times[t] /\ Times[t] < at}

\* Rows are never published.
Published(group, at) == {[tx |-> t, window |-> Snapshot(at)] : t \in group \cap LiveTx}

\* The oldest group is answered and what the windows have left is evicted.
Fire ==
  /\ mode # "handover" /\ Due # {}
  /\ LET at == CHOOSE a \in Due : \A b \in Due : a <= b IN
     /\ online' = online \cup Published({t \in state.history : Times[t] = at}, at)
     /\ state' = [history |-> {t \in state.history : Times[t] >= at - Window},
                  pending |-> state.pending \ {at}]
  /\ UNCHANGED <<source, mode, offset, maxTime, watermark, complete, checkpoint, restarts>>

Checkpoint ==
  /\ mode # "handover" /\ Due = {}
  /\ checkpoint # [offset |-> offset, state |-> state]
  /\ checkpoint' = [offset |-> offset, state |-> state]
  /\ UNCHANGED <<source, mode, offset, state, maxTime, watermark, complete, online, restarts>>

\* Offsets and state come back, watermarks start over.
Restore(m) ==
  /\ mode' = m /\ offset' = checkpoint.offset /\ state' = checkpoint.state
  /\ maxTime' = NoTime /\ watermark' = NoTime
  /\ UNCHANGED <<source, complete, checkpoint, online>>

Restart ==
  /\ mode # "handover" /\ restarts < MaxRestarts
  /\ restarts' = restarts + 1
  /\ Restore(mode)

-----------------------------------------------------------------------------
(* The handover.                                                           *)

\* Mutant: the gate does not wait for the marker.
GateNoMarker == offset = Len(log) /\ checkpoint.offset = offset

\* BOOTSTRAP_COMPLETE, no lag, and a checkpoint completed since.
Gate == complete /\ offset = Len(log) /\ checkpoint.offset = offset

\* The job is stopped with a savepoint.
Savepoint ==
  /\ mode = "bootstrap" /\ Gate /\ Due = {}
  /\ mode' = "handover"
  /\ checkpoint' = [offset |-> offset, state |-> state]
  /\ UNCHANGED <<source, offset, state, maxTime, watermark, complete, online, restarts>>

StartNormal ==
  /\ mode = "handover"
  /\ Restore("normal") /\ UNCHANGED restarts

Next ==
  \/ StartFeeder \/ Produce \/ Deliver \/ DeliveryFails \/ Flush \/ StopFeeder
  \/ \E t \in LiveTx : Publish(t)
  \/ Read \/ ReadOther \/ ReadMarker \/ Fire \/ Checkpoint \/ Restart
  \/ \E w \in 0 .. maxTime : Watermark(w)
  \/ Savepoint \/ StartNormal

\* The feeder is run again, the job runs, checkpoints are taken, the operator acts.
Fairness ==
  /\ WF_vars(StartFeeder) /\ WF_vars(Produce) /\ WF_vars(Deliver) /\ WF_vars(Flush)
  /\ WF_vars(Read) /\ WF_vars(ReadMarker) /\ WF_vars(Fire) /\ WF_vars(Checkpoint)
  /\ WF_vars(Savepoint) /\ WF_vars(StartNormal)

Spec == Init /\ [][Next]_vars /\ Fairness

-----------------------------------------------------------------------------
TypeOK ==
  /\ feeder \in [run : 0 .. Runs, status : {"running", "succeeded", "stopped"}, produced : 0 .. Rows + 1]
  /\ Len(queue) <= MaxQueue /\ lost \subseteq Silver \cup {Marker}
  /\ mode \in {"bootstrap", "handover", "normal"} /\ offset \in 0 .. Len(log)
  /\ state \in [history : SUBSET Transaction, pending : SUBSET Nat]
  /\ complete \in BOOLEAN /\ restarts \in 0 .. MaxRestarts
  /\ online \subseteq [tx : Transaction, window : SUBSET Transaction]

\* Every transaction of time `at' follows none of a later time.
InOrder(at) == \A u, v \in Transaction : u < v /\ Times[v] = at => Times[u] <= at

\* "Correct state from day one": every row in the window of a published transaction is
\* counted, whatever runs of the feeder and restarts went before; only a record whose
\* delivery failed is missing.  Of transactions in order: what a restart or the handover
\* lets in, for want of a watermark, finds the rows before it evicted.
RowsAreCounted ==
  \A r \in online : \A t \in Silver \ lost :
    /\ InOrder(Times[r.tx])
    /\ Times[r.tx] - Window <= Times[t] /\ Times[t] < Times[r.tx]
    => t \in r.window

\* "received a live/retry event; stop bootstrap without committing source offsets": what
\* is published too early is left to the normal job.
LiveIsLeft ==
  mode # "normal" => \A i \in 1 .. offset : log[i] \in Silver \cup {Marker}

\* The only marker there was failed to be delivered.
MarkerLost == Marker \in lost /\ \A i \in DOMAIN log : log[i] # Marker

\* The handover happens when a feeder succeeds, unless live transactions came too early
\* or no marker ever reached the log.
HandsOver ==
  feeder.status = "succeeded" ~>
    (mode = "normal" \/ MarkerLost \/ \E i \in DOMAIN log : log[i] \in LiveTx)

\* "bootstrap replay stopped with undelivered records": one that did not stop has
\* delivered them all, its marker too.
SuccessIsDelivered ==
  feeder.status = "succeeded" => \A x \in Silver \cup {Marker} : \E i \in DOMAIN log : log[i] = x
=============================================================================
