--------------------------- MODULE FeatureStream ---------------------------
(***************************************************************************)
(* The Flink job of streaming Block A (data_platform/streaming/flink):     *)
(* transactions are parsed, deduplicated and classified against the        *)
(* watermark by parallel subtasks, then fanned out to keyed feature state, *)
(* where an event-time timer per timestamp finalises a group: it publishes *)
(* a snapshot of the history before that timestamp for each of the group.  *)
(* A snapshot that cannot be computed sends its event to the retry topic,  *)
(* which the job reads again, or to the dead letters.                      *)
(*                                                                         *)
(* A feature row is abstracted to the set of transactions in its window:   *)
(* all 31 features are functions of such a set.                            *)
(***************************************************************************)
EXTENDS Integers, FiniteSets, Sequences

CONSTANTS
  Tx,             \* the transactions of the scenario
  EventTime,      \* [Tx -> Nat], in ticks
  Malformed,      \* those whose record does not parse
  Copies,         \* [Tx -> Nat], records of each on the raw topic
  StateKey,       \* the keys of the feature state, <<view, entity>> pairs
  KeysOf,         \* [Tx -> SUBSET StateKey]: entity_rekey
  StdKey,         \* keys of the two views that compute a standard deviation
  Overflows,      \* transactions whose squared deviation is not a float
  Subtask,        \* the subtasks of the event-time-disposition operator
  SubtaskOf,      \* [Tx -> Subtask]: the hash of the transaction id
  Idling,         \* the subtasks whose splits may all be marked idle, 30 s without a record
  OutOfOrder,     \* max_out_of_orderness
  Lateness,       \* allowed_lateness
  Window,         \* the longest feature window
  HistoryTtl,     \* history_ttl
  Expiring,       \* the transactions whose deduplication TTL may pass
  MaxRetries,     \* the 3 of `next_count <= 3'
  MaxRestarts,    \* bound: job restarts
  MaxBuffer       \* bound: records in flight between two operators

StreamAssumption ==
  /\ EventTime \in [Tx -> Nat] /\ Copies \in [Tx -> Nat]
  /\ Malformed \subseteq Tx /\ Overflows \subseteq Tx /\ StdKey \subseteq StateKey
  /\ KeysOf \in [Tx -> SUBSET StateKey] /\ SubtaskOf \in [Tx -> Subtask]
  /\ Idling \subseteq Subtask /\ Expiring \subseteq Tx
  /\ IsFiniteSet(Tx) /\ IsFiniteSet(Subtask) /\ Subtask # {}
  /\ {OutOfOrder, Lateness, Window, HistoryTtl, MaxRetries, MaxRestarts, MaxBuffer} \subseteq Nat
  /\ Window <= HistoryTtl

VARIABLES
  offsets,     \* copies read of each transaction (raw) and of each <<tx, count>> (retry)
  state,       \* managed state: `transaction-seen', and per key the history by
               \* transaction and the pending timestamp groups, each with its timer
  out,         \* the topics written: accepted (dispositions of each transaction), late,
               \* online, retry (envelopes of each <<tx, count>>), dlq; and failed, a
               \* history of the <<key, tx>> snapshots that could not be computed
  maxTime,     \* the source's largest event time since the job (re)started
  disposing,   \* the watermark of each disposition subtask
  idle,        \* the disposition subtasks that said they are idle
  channel,     \* the records from each disposition subtask to the feature state
  arrived,     \* the last watermark the feature state received on each channel
  standing,    \* whether each channel holds its clock back: "aligned", or else "idle" or
               \* active again but still "behind" the clock
  clock,       \* the watermark of the feature state
  checkpoint,  \* what the last completed checkpoint holds
  restarts

valve == <<arrived, standing, clock>>
vars == <<offsets, state, out, maxTime, disposing, idle, channel, valve, checkpoint, restarts>>

NoTime == -1                      \* Long.MIN_VALUE: no watermark yet
Absent == -1                      \* no entry of that transaction
Attempt == Tx \X (1 .. MaxRetries)
SetMin(S) == CHOOSE x \in S : \A y \in S : x <= y
SetMax(S) == CHOOSE x \in S : \A y \in S : y <= x

Init ==
  /\ offsets = [raw |-> [t \in Tx |-> 0], retry |-> [a \in Attempt |-> 0]]
  /\ state = [seen |-> {},
              history |-> [k \in StateKey |-> [t \in Tx |-> Absent]],
              pending |-> [k \in StateKey |-> {}]]
  /\ out = [accepted |-> [t \in Tx |-> <<>>], late |-> {}, online |-> {},
            retry |-> [a \in Attempt |-> 0], dlq |-> {}, failed |-> {}]
  /\ maxTime = NoTime /\ restarts = 0
  /\ disposing = [s \in Subtask |-> NoTime] /\ arrived = [s \in Subtask |-> NoTime]
  /\ idle = {} /\ standing = [s \in Subtask |-> "aligned"] /\ clock = NoTime
  /\ channel = [s \in Subtask |-> <<>>]
  /\ checkpoint = [offsets |-> offsets, state |-> state, out |-> out]

-----------------------------------------------------------------------------
(* Reading, deduplication and disposition.                                 *)

Disposition(wm, t) ==
  IF wm < 0 \/ t >= wm THEN "ON_TIME"
  ELSE IF t >= wm - Lateness THEN "LATE_ACCEPTED" ELSE "TOO_LATE"

\* The watermark generator of the source sees every record that parses.
Observe(t) == maxTime' = IF EventTime[t] > maxTime THEN EventTime[t] ELSE maxTime

Room(s) == Len(channel[s]) < MaxBuffer

\* Mutants: the history takes retries too; the late topic takes what is merely late.
PublishedRetries(t, count, d) ==
  [out EXCEPT !.accepted[t] = Append(@, d),
              !.late = IF count = 0 /\ d = "TOO_LATE" THEN @ \cup {t} ELSE @]

PublishedLate(t, count, d) ==
  [out EXCEPT !.accepted[t] = IF count = 0 THEN Append(@, d) ELSE @,
              !.late = IF count = 0 /\ d # "ON_TIME" THEN @ \cup {t} ELSE @]

\* Eligible records go on to the feature state; the records of attempt 0 enter the
\* accepted history, and the late topic when they are too late.
Published(t, count, d) ==
  [out EXCEPT !.accepted[t] = IF count = 0 THEN Append(@, d) ELSE @,
              !.late = IF count = 0 /\ d = "TOO_LATE" THEN @ \cup {t} ELSE @]

\* Mutant: what is too late is sent on as well.
DisposeAll(t, count) ==
  LET s == SubtaskOf[t] IN
  /\ Room(s)
  /\ channel' = [channel EXCEPT ![s] = Append(@, [tx |-> t, count |-> count])]
  /\ out' = Published(t, count, Disposition(disposing[s], EventTime[t]))

Dispose(t, count) ==
  LET s == SubtaskOf[t]  d == Disposition(disposing[s], EventTime[t]) IN
  /\ Room(s)
  /\ channel' = IF d = "TOO_LATE" THEN channel
                ELSE [channel EXCEPT ![s] = Append(@, [tx |-> t, count |-> count])]
  /\ out' = Published(t, count, d)

Unread(t) == offsets.raw[t] < Copies[t]

\* A record that does not parse goes to the dead letters and moves no watermark.
ReadMalformed(t) ==
  /\ Unread(t) /\ t \in Malformed
  /\ offsets' = [offsets EXCEPT !.raw[t] = @ + 1]
  /\ out' = [out EXCEPT !.dlq = @ \cup {t}]
  /\ UNCHANGED <<state, maxTime, disposing, idle, channel, valve, checkpoint, restarts>>

ReadDuplicate(t) ==
  /\ Unread(t) /\ t \notin Malformed /\ t \in state.seen
  /\ offsets' = [offsets EXCEPT !.raw[t] = @ + 1]
  /\ Observe(t)
  /\ UNCHANGED <<state, out, disposing, idle, channel, valve, checkpoint, restarts>>

ReadNew(t) ==
  /\ Unread(t) /\ t \notin Malformed /\ t \notin state.seen
  /\ offsets' = [offsets EXCEPT !.raw[t] = @ + 1]
  /\ state' = [state EXCEPT !.seen = @ \cup {t}]
  /\ Observe(t) /\ Dispose(t, 0)
  /\ UNCHANGED <<disposing, idle, valve, checkpoint, restarts>>

\* A retry bypasses the deduplication.
ReadRetry(t, n) ==
  /\ offsets.retry[<<t, n>>] < out.retry[<<t, n>>]
  /\ offsets' = [offsets EXCEPT !.retry[<<t, n>>] = @ + 1]
  /\ Observe(t) /\ Dispose(t, n)
  /\ UNCHANGED <<state, disposing, idle, valve, checkpoint, restarts>>

\* The time to live of a transaction in `transaction-seen' passes.
Expire(t) ==
  /\ t \in Expiring \cap state.seen
  /\ state' = [state EXCEPT !.seen = @ \ {t}]
  /\ UNCHANGED <<offsets, out, maxTime, disposing, idle, channel, valve, checkpoint, restarts>>

\* A watermark reaches a disposition subtask and follows the records it sent.  The
\* slowest active split decides it: any value up to the bound of the fastest.
Watermark(s, w) ==
  /\ w > disposing[s] \/ (s \in idle /\ w = disposing[s])
  /\ w <= maxTime - OutOfOrder - 1
  /\ Room(s)
  /\ disposing' = [disposing EXCEPT ![s] = w] /\ idle' = idle \ {s}
  /\ channel' = [channel EXCEPT ![s] = Append(@, [mark |-> w])]
  /\ UNCHANGED <<offsets, state, out, maxTime, valve, checkpoint, restarts>>

\* The splits of a subtask are all marked idle, those that are only slow to be read
\* included: it sends that on, and no watermark until one of them is active again.
Idle(s) ==
  /\ s \in Idling \ idle /\ Room(s)
  /\ idle' = idle \cup {s}
  /\ channel' = [channel EXCEPT ![s] = Append(@, [idle |-> TRUE])]
  /\ UNCHANGED <<offsets, state, out, maxTime, disposing, valve, checkpoint, restarts>>

-----------------------------------------------------------------------------
(* ManagedHistoricalFeatures.                                              *)

\* Mutant: the timer of a group at its own timestamp.
TimerEarly(at) == at

Timer(at) == at + Lateness + 1

Due(k) == {at \in state.pending[k] : Timer(at) <= clock}

Settled == \A k \in StateKey : Due(k) = {}

\* process_element, for every key of the event.
Insert(t, count) ==
  [state EXCEPT
    !.history = [k \in StateKey |-> IF k \in KeysOf[t] THEN [@[k] EXCEPT ![t] = count] ELSE @[k]],
    !.pending = [k \in StateKey |-> IF k \in KeysOf[t] THEN @[k] \cup {EventTime[t]} ELSE @[k]]]

\* The least watermark of the channels that hold the clock back.
Advanced(marks, standings) ==
  LET holding == {x \in Subtask : standings[x] = "aligned"} IN
  IF holding = {} THEN clock ELSE SetMin({marks[x] : x \in holding})

\* A watermark: its channel is active, and holds the clock back once it caught up with it.
TakeMark(s, w) ==
  /\ arrived' = [arrived EXCEPT ![s] = w]
  /\ standing' = [standing EXCEPT ![s] = IF w >= clock THEN "aligned" ELSE "behind"]
  /\ clock' = Advanced(arrived', standing')

\* A channel turns idle, and the clock goes on without it: to the furthest watermark
\* when it was the last active one and the clock waited for it.
TakeIdle(s) ==
  /\ standing' = [standing EXCEPT ![s] = "idle"]
  /\ clock' = IF (\A x \in Subtask : standing'[x] = "idle") /\ arrived[s] = clock
              THEN SetMax({arrived[x] : x \in Subtask})
              ELSE Advanced(arrived, standing')
  /\ UNCHANGED arrived

\* The next record of a channel, once the timers of the last watermark have fired.
Receive(s) ==
  /\ channel[s] # <<>> /\ Settled
  /\ channel' = [channel EXCEPT ![s] = Tail(@)]
  /\ LET m == Head(channel[s]) IN
     \/ "tx" \in DOMAIN m /\ state' = Insert(m.tx, m.count) /\ UNCHANGED valve
     \/ "mark" \in DOMAIN m /\ TakeMark(s, m.mark) /\ UNCHANGED state
     \/ "idle" \in DOMAIN m /\ TakeIdle(s) /\ UNCHANGED state
  /\ UNCHANGED <<offsets, out, maxTime, disposing, idle, checkpoint, restarts>>

InState(k) == {t \in Tx : state.history[k][t] # Absent}
Group(k, at) == {t \in InState(k) : EventTime[t] = at}

Snapshot(k, at) == {t \in InState(k) : at - Window <= EventTime[t] /\ EventTime[t] < at}

\* The sample deviation of two or more amounts raises OverflowError.
Fails(k, window) ==
  k \in StdKey /\ window \cap Overflows # {} /\ Cardinality(window) >= 2

Answered(k, at) ==
  LET window == Snapshot(k, at)
      group == Group(k, at)
      again == {<<t, state.history[k][t] + 1>> : t \in group}
  IN IF Fails(k, window)
     THEN [out EXCEPT !.retry = [a \in Attempt |-> IF a \in again THEN @[a] + 1 ELSE @[a]],
                      !.dlq = @ \cup {t \in group : state.history[k][t] + 1 > MaxRetries},
                      !.failed = @ \cup {<<k, t>> : t \in group}]
     ELSE [out EXCEPT !.online = @ \cup
            {[key |-> k, at |-> at, tx |-> t, window |-> window] : t \in group}]

\* on_timer: the whole group is answered, then the history before the retention is
\* evicted and the group forgotten.
Fire(k) ==
  /\ Due(k) # {}
  /\ LET at == SetMin(Due(k)) IN
     /\ out' = Answered(k, at)
     /\ state' = [state EXCEPT
          !.history[k] = [t \in Tx |-> IF EventTime[t] < at - HistoryTtl THEN Absent ELSE @[t]],
          !.pending[k] = @ \ {at}]
  /\ UNCHANGED <<offsets, maxTime, disposing, idle, channel, valve, checkpoint, restarts>>

-----------------------------------------------------------------------------
(* Checkpoints and restarts.                                               *)

\* A barrier cuts the job where its channels are empty: a cut with records in
\* flight is one where they are handled before the barrier.
Checkpoint ==
  /\ restarts < MaxRestarts
  /\ \A s \in Subtask : channel[s] = <<>>
  /\ Settled
  /\ checkpoint' = [offsets |-> offsets, state |-> state, out |-> out]
  /\ UNCHANGED <<offsets, state, out, maxTime, disposing, idle, channel, valve, restarts>>

\* What is left of records S a topic holds, of which the checkpoint made T sure.
Between(T, S) == {T \cup kept : kept \in SUBSET (S \ T)}

\* Each sink has a producer of its own: any of the records it was given since the
\* checkpoint are published, whatever the other sinks lost; not lost is a retry that
\* was read again.
Surviving ==
  LET sure(a) == SetMax({checkpoint.out.retry[a], offsets.retry[a]}) IN
  [accepted : {[t \in Tx |-> IF t \in lost THEN checkpoint.out.accepted[t] ELSE out.accepted[t]] :
                 lost \in SUBSET Tx},
   late : Between(checkpoint.out.late, out.late),
   online : Between(checkpoint.out.online, out.online),
   retry : {[a \in Attempt |-> IF a \in lost THEN sure(a) ELSE out.retry[a]] :
              lost \in SUBSET Attempt},
   dlq : Between(checkpoint.out.dlq, out.dlq),
   failed : {out.failed}]

\* Offsets, managed state and timers come back; watermarks start over.
Restored(read) ==
  /\ restarts < MaxRestarts
  /\ restarts' = restarts + 1
  /\ offsets' = read
  /\ state' = checkpoint.state
  /\ out' \in Surviving /\ checkpoint' = [checkpoint EXCEPT !.out = out']
  /\ channel' = [s \in Subtask |-> <<>>]
  /\ maxTime' = NoTime
  /\ disposing' = [s \in Subtask |-> NoTime] /\ idle' = {}
  /\ arrived' = [s \in Subtask |-> NoTime] /\ clock' = NoTime
  /\ standing' = [s \in Subtask |-> "aligned"]

\* Mutant: the offsets are committed as they are read, not with the checkpoint.
RestartAutoCommit == Restored(offsets)

Restart == Restored(checkpoint.offsets)

\* A job that runs on: only a restart makes a difference of a checkpoint.
Streaming ==
  \/ \E t \in Tx : ReadMalformed(t) \/ ReadDuplicate(t) \/ ReadNew(t) \/ Expire(t)
  \/ \E t \in Tx, n \in 1 .. MaxRetries : ReadRetry(t, n)
  \/ \E s \in Subtask : Receive(s) \/ Idle(s) \/ (\E w \in 0 .. maxTime : Watermark(s, w))
  \/ \E k \in StateKey : Fire(k)

Next == Streaming \/ Checkpoint \/ Restart

Spec == Init /\ [][Next]_vars

-----------------------------------------------------------------------------
\* The transactions the accepted history holds as eligible for online state.
Eligible == {t \in Tx : \E i \in DOMAIN out.accepted[t] : out.accepted[t][i] # "TOO_LATE"}

\* A published snapshot is never corrected later, so it must be final: it counts the
\* eligible transactions of its window, those still on their way and those not yet read
\* included.  Only the channels of idle subtasks are not waited for: what comes on them may
\* be missing, and make a group of its own be answered again, short of what was evicted.
SnapshotsAreFinal ==
  \A r \in out.online :
    LET due == {t \in Eligible : /\ r.key \in KeysOf[t]
                                 /\ r.at - Window <= EventTime[t] /\ EventTime[t] < r.at}
        peers == {t \in Eligible : r.key \in KeysOf[t] /\ EventTime[t] = r.at}
        InOrder(t) == SubtaskOf[t] \notin Idling
    IN /\ r.window \subseteq due
       /\ (\A t \in peers : InOrder(t)) => \A t \in due : InOrder(t) => t \in r.window

\* So it is until the first restart, which takes the watermarks away.
SnapshotsStayFinal == restarts = 0 => SnapshotsAreFinal

\* "Every unique valid event, including TOO_LATE, enters the accepted topic": not again
\* while the deduplication remembers it, delivered again or retried, restarts included.
AcceptsOnce == \A t \in Tx : Len(out'.accepted[t]) > Len(out.accepted[t]) => t \notin state.seen
AcceptedOnce == [][AcceptsOnce]_vars

\* No record is lost to a restart, nor given up too early: what the offsets passed is in
\* the accepted history or among the dead letters, and of a record that parsed each retry
\* was published before ("exhausted retries ... go to DLQ").
ReadIsKept ==
  \A t \in Tx :
    /\ offsets.raw[t] > 0 => t \in out.dlq \/ (t \notin Malformed /\ out.accepted[t] # <<>>)
    /\ t \in out.dlq \ Malformed => \A n \in 1 .. MaxRetries : out.retry[<<t, n>>] > 0

\* "TOO_LATE events: kept in immutable history and reconciliation, but never mutate
\* online state": nothing on the late topic is published, counted or dead.  (Of a record
\* delivered twice a forgotten copy may be too late and the first not.)
TooLateStaysOffline ==
  \A t \in out.late : Copies[t] = 1 => t \notin out.dlq /\ \A r \in out.online : r.tx # t /\ t \notin r.window

\* So it is until the first restart, after which a record may be on time that was too late.
LateStaysOffline == restarts = 0 => TooLateStaysOffline

\* After a restart what was too late may be on time when it is replayed, and each topic
\* may have lost records of its own.  Still whatever is published, counted or given up is
\* at that time in the accepted history as eligible, or was failed and is retried.
Retried == {t \in Tx : \E n \in 1 .. MaxRetries : out.retry[<<t, n>>] > 0}

PublishesOnly(S) ==
  /\ \A r \in out'.online \ out.online : r.window \cup {r.tx} \subseteq S
  /\ (out'.dlq \ out.dlq) \ Malformed \subseteq S

PublishesEligible == [][PublishesOnly(Eligible \cup Retried)]_vars

\* "invalid or exhausted retries" go to the dead-letter topic: a failed snapshot is
\* dead, waiting to be retried, or computed after all.
FailuresAreAnswered ==
  \A k \in StateKey, t \in Tx : <<k, t>> \in out.failed =>
    \/ t \in out.dlq
    \/ \E n \in 1 .. MaxRetries : offsets.retry[<<t, n>>] < out.retry[<<t, n>>]
    \/ EventTime[t] \in state.pending[k]
    \/ \E s \in Subtask : \E i \in DOMAIN channel[s] :
         "tx" \in DOMAIN channel[s][i] /\ channel[s][i].tx = t
    \/ \E r \in out.online : r.key = k /\ r.tx = t
=============================================================================
