--------------------------- MODULE FeatureJobProofs ---------------------------
(***************************************************************************)
(* The first deployment of the feature job, proved for any history, live    *)
(* transactions, times, bounds, runs of the feeder and restarts: every row  *)
(* the job has read is in its history, or no window to come reaches it.     *)
(***************************************************************************)
EXTENDS FeatureJob, WellFoundedInduction, TLAPS

\* The first n records of the log l.
Passed(l, n) == {l[i] : i \in 1 .. n}

StateType == [history : SUBSET B!Transaction, pending : SUBSET Nat]

BootTypes ==
  /\ feeder \in [run : Nat, status : {"running", "succeeded", "stopped"}, produced : 0 .. Rows + 1]
  /\ queue \in Seq({B!Marker} \cup B!Silver) /\ log \in Seq({B!Marker} \cup B!Transaction)
  /\ lost \subseteq B!Silver \cup {B!Marker}
  /\ mode \in {"bootstrap", "handover", "normal"}
  /\ offset \in 0 .. Len(log) /\ managed \in StateType
  /\ savepoint \in [offset : 0 .. Len(log), state : StateType]
  /\ latest \in Nat \cup {B!NoTime} /\ watermark \in Nat \cup {B!NoTime}

\* What a run of the feeder produces in the n-th place.
RecordOf(n) == IF n <= Rows THEN n ELSE B!Marker

\* The queue q ends with the last record produced, and what is before it was delivered
\* or lost.
Queued(l, missing, q, produced) ==
  /\ Len(q) <= produced
  /\ \A i \in 1 .. Len(q) : q[i] = RecordOf(produced - Len(q) + i)
  /\ \A t \in B!Silver : t <= produced - Len(q) => t \in Passed(l, Len(l)) \cup missing

Feeding ==
  /\ feeder.status # "running" => queue = <<>>
  /\ feeder.status = "running" => Queued(log, lost, queue, feeder.produced)

\* A row follows those before it, unless they are lost; a live transaction is there once
\* and follows those before it; a marker follows all rows.
Follows(l, missing, i) ==
  /\ l[i] \in B!Silver =>
       \A t \in B!Silver \ missing : t < l[i] => t \in Passed(l, i - 1)
  /\ l[i] \in B!LiveTx =>
       l[i] \notin Passed(l, i - 1) /\ \A u \in B!LiveTx : u < l[i] => u \in Passed(l, i - 1)
  /\ l[i] = B!Marker => B!Silver \subseteq Passed(l, i - 1) \cup missing

Ordered == \A i \in 1 .. Len(log) : Follows(log, lost, i)

\* The latest time of the job is that of a record it has read, and the watermark is behind it.
Clocked(l, n, top, wm) ==
  /\ wm # B!NoTime => wm < top
  /\ top # B!NoTime => \E t \in Passed(l, n) \cap B!Transaction : Times[t] = top

\* The times, in order, of live transactions yet to be read or published.
Awaited(l, n, st) ==
  {at \in {Times[v] : v \in B!LiveTx} :
     /\ B!InOrder(at)
     /\ at \in st.pending \/ \E v \in B!LiveTx : Times[v] = at /\ v \notin Passed(l, n)}

\* The state st of a job that has read n records: a row it has read is in the history,
\* or no window to come reaches back to it.
Accounted(l, missing, n, st) ==
  /\ st.history \subseteq Passed(l, n)
  /\ \A at \in st.pending : \E t \in Passed(l, n) \cap B!Transaction : Times[t] = at
  /\ \A t \in (B!Silver \ missing) \cap Passed(l, n) :
       t \in st.history \/ \A at \in Awaited(l, n, st) : Times[t] < at - Window

\* The bootstrap job reads rows only, and is followed by one that has them all.
Phased(l, missing, m, n) ==
  /\ m # "normal" => Passed(l, n) \subseteq B!Silver \cup {B!Marker}
  /\ m # "bootstrap" => B!Silver \subseteq Passed(l, n) \cup missing

BootInv ==
  /\ BootTypes /\ Feeding /\ Ordered
  /\ Clocked(log, offset, latest, watermark)
  /\ complete => B!Marker \in Passed(log, Len(log))
  /\ Accounted(log, lost, offset, managed)
  /\ Accounted(log, lost, savepoint.offset, savepoint.state)
  /\ Phased(log, lost, mode, offset) /\ Phased(log, lost, mode, savepoint.offset)
  /\ B!RowsAreCounted

-----------------------------------------------------------------------------
LEMMA Numbers ==
  ASSUME B!BootstrapAssumption
  PROVE  /\ {Rows, Live, OutOfOrder, Lateness, Window} \subseteq Nat
         /\ \A t \in B!Transaction : Times[t] \in Nat /\ t \in Nat \ {0}
         /\ \A t \in B!Silver, u \in B!LiveTx : t < u /\ t # u
         /\ B!Silver \subseteq B!Transaction /\ B!LiveTx \subseteq B!Transaction /\ B!Transaction = B!Silver \cup B!LiveTx
         /\ B!Marker \notin B!Transaction
         /\ \A t, u \in B!Silver : t < u => Times[t] <= Times[u]
<1>1. /\ Rows \in Nat /\ Live \in Nat /\ Len(Times) = Rows + Live /\ Times \in Seq(Nat)
      /\ {Rows, Live, OutOfOrder, Lateness, Window} \subseteq Nat
      /\ \A t, u \in B!Silver : t < u => Times[t] <= Times[u]
  BY DEF B!BootstrapAssumption, B!Silver
<1>2. \A t \in B!Transaction : t \in 1 .. Len(Times) /\ t \in Nat \ {0}
  BY <1>1 DEF B!Transaction, B!Silver, B!LiveTx
<1>3. \A t \in B!Transaction : Times[t] \in Nat
  BY <1>1, <1>2
<1>4. \A t \in B!Silver, u \in B!LiveTx : t < u /\ t # u
  BY <1>1 DEF B!Silver, B!LiveTx
<1> QED
  BY <1>1, <1>2, <1>3, <1>4 DEF B!Transaction, B!Marker

\* The first of a set of times is one of them, and not after the others.
LEMMA Earliest ==
  ASSUME NEW S, S \subseteq Nat, S # {}
  PROVE  \E x \in S : x = (CHOOSE a \in S : \A b \in S : a <= b) /\ \A b \in S : x <= b
<1> DEFINE R == OpToRel(<, Nat)
<1>1. IsWellFoundedOn(R, Nat)
  BY NatLessThanWellFounded
<1>2. R = {ss \in Nat \X Nat : ss[1] < ss[2]}
  BY DEF OpToRel
<1> HIDE DEF R
<1>3. PICK x \in S : \A y \in S : ~ (<<y, x>> \in R)
  BY <1>1, WFMin
<1>4. ASSUME NEW y \in S PROVE x <= y
  <2>1. x \in Nat /\ y \in Nat /\ <<y, x>> \notin R
    BY <1>3
  <2>2. ~ (y < x)
    BY <1>2, <2>1
  <2> QED
    BY <2>1, <2>2
<1> QED
  BY <1>4

\* A longer log begins as before.
LEMMA PassedKeeps ==
  ASSUME NEW Rec, NEW l \in Seq(Rec), NEW x \in Rec, NEW n \in 0 .. Len(l)
  PROVE  Passed(Append(l, x), n) = Passed(l, n)
<1>1. \A i \in 1 .. n : Append(l, x)[i] = l[i]
  OBVIOUS
<1> QED
  BY <1>1 DEF Passed

LEMMA PassedNext ==
  ASSUME NEW Rec, NEW l \in Seq(Rec), NEW n \in 0 .. Len(l) - 1
  PROVE  Passed(l, n + 1) = Passed(l, n) \cup {l[n + 1]}
<1>1. 1 .. n + 1 = (1 .. n) \cup {n + 1}
  OBVIOUS
<1> QED
  BY <1>1 DEF Passed

LEMMA PassedAll ==
  ASSUME NEW Rec, NEW l \in Seq(Rec), NEW x \in Rec
  PROVE  Passed(Append(l, x), Len(Append(l, x))) = Passed(l, Len(l)) \cup {x}
<1>1. Append(l, x) \in Seq(Rec) /\ Len(Append(l, x)) = Len(l) + 1 /\ Len(l) \in Nat
  OBVIOUS
<1>2. Passed(Append(l, x), Len(l) + 1) = Passed(Append(l, x), Len(l)) \cup {Append(l, x)[Len(l) + 1]}
  <2>1. Len(l) \in 0 .. Len(Append(l, x)) - 1
    BY <1>1
  <2> QED
    BY <1>1, <2>1, PassedNext
<1>3. Passed(Append(l, x), Len(l)) = Passed(l, Len(l))
  BY <1>1, PassedKeeps
<1> QED
  BY <1>1, <1>2, <1>3

LEMMA PassedGrows ==
  ASSUME NEW l, NEW n \in Nat, NEW m \in Nat, n <= m
  PROVE  Passed(l, n) \subseteq Passed(l, m)
  BY DEF Passed

-----------------------------------------------------------------------------
(* The log and the feeder.                                                 *)

\* A record that follows the log keeps what the job has made of its beginning.
LEMMA LogStep ==
  ASSUME B!BootstrapAssumption, BootInv, NEW x \in {B!Marker} \cup B!Transaction, log' = Append(log, x),
         UNCHANGED <<lost, B!job>>, Follows(Append(log, x), lost, Len(log) + 1),
         BootTypes', Feeding'
  PROVE  BootInv'
<1>1. log \in Seq({B!Marker} \cup B!Transaction) /\ Len(log) \in Nat /\ log' \in Seq({B!Marker} \cup B!Transaction)
      /\ Len(log') = Len(log) + 1
  BY DEF BootInv, BootTypes
<1>2. \A n \in 0 .. Len(log) : Passed(log', n) = Passed(log, n)
  BY <1>1, PassedKeeps
<1>3. Ordered'
  <2>1. ASSUME NEW i \in 1 .. Len(log) PROVE Follows(log', lost, i)
    <3>1. log'[i] = log[i] /\ Passed(log', i - 1) = Passed(log, i - 1) /\ Follows(log, lost, i)
      BY <1>1, <1>2, <2>1 DEF BootInv, Ordered
    <3> QED
      BY <3>1 DEF Follows
  <2>2. \A i \in 1 .. Len(log') : i \in 1 .. Len(log) \/ i = Len(log) + 1
    BY <1>1
  <2> QED
    BY <2>1, <2>2 DEF Ordered
<1>4. PICK n \in 0 .. Len(log), k \in 0 .. Len(log) : n = offset /\ k = savepoint.offset
  BY DEF BootInv, BootTypes
<1>5. Passed(log', n) = Passed(log, n) /\ Passed(log', k) = Passed(log, k)
  BY <1>2, <1>4
<1>6. /\ Clocked(log', n, latest, watermark)
      /\ Accounted(log', lost, n, managed) /\ Accounted(log', lost, k, savepoint.state)
      /\ Phased(log', lost, mode, n) /\ Phased(log', lost, mode, k)
  BY <1>4, <1>5 DEF BootInv, Clocked, Accounted, Awaited, Phased
<1>7. complete => B!Marker \in Passed(log', Len(log'))
  BY <1>1, PassedAll DEF BootInv
<1>8. B!RowsAreCounted'
  BY DEF BootInv, B!RowsAreCounted, B!job
<1> QED
  BY <1>3, <1>4, <1>6, <1>7, <1>8 DEF BootInv, B!job

\* A step of the feeder that leaves the log.
LEMMA FeederStep ==
  ASSUME B!BootstrapAssumption, BootInv, UNCHANGED <<log, B!job>>, lost \subseteq lost',
         BootTypes', Feeding'
  PROVE  BootInv'
<1>1. \A i : Follows(log, lost, i) => Follows(log, lost', i)
  BY DEF Follows
<1>2. \A n, st : Accounted(log, lost, n, st) => Accounted(log, lost', n, st)
  BY DEF Accounted
<1>3. \A m, n : Phased(log, lost, m, n) => Phased(log, lost', m, n)
  BY DEF Phased
<1>4. B!RowsAreCounted'
  BY DEF BootInv, B!RowsAreCounted, B!job
<1> QED
  BY <1>1, <1>2, <1>3, <1>4 DEF BootInv, Ordered, B!job

\* The feeder starts from nothing, and what it produces follows.
LEMMA ProducedFollows ==
  ASSUME B!BootstrapAssumption, NEW l, NEW missing, NEW q \in Seq({B!Marker} \cup B!Silver),
         NEW n \in 0 .. Rows, Queued(l, missing, q, n)
  PROVE  Queued(l, missing, Append(q, RecordOf(n + 1)), n + 1)
<1>1. /\ Len(q) \in Nat /\ Len(Append(q, RecordOf(n + 1))) = Len(q) + 1 /\ Rows \in Nat
      /\ \A i \in 1 .. Len(q) : Append(q, RecordOf(n + 1))[i] = q[i]
      /\ Append(q, RecordOf(n + 1))[Len(q) + 1] = RecordOf(n + 1)
  BY Numbers
<1>2. n + 1 - (Len(q) + 1) = n - Len(q) /\ n - Len(q) + (Len(q) + 1) = n + 1
  BY <1>1
<1>3. \A i \in 1 .. Len(q) + 1 : i \in 1 .. Len(q) \/ i = Len(q) + 1
  BY <1>1
<1>4. \A i \in 1 .. Len(q) + 1 :
        Append(q, RecordOf(n + 1))[i] = RecordOf(n + 1 - (Len(q) + 1) + i)
  BY <1>1, <1>2, <1>3 DEF Queued
<1> QED
  BY <1>1, <1>2, <1>4 DEF Queued

\* The head of the queue is the next to arrive; when it has, or is lost, the others are.
LEMMA HeadIsNext ==
  ASSUME B!BootstrapAssumption, NEW l, NEW missing, NEW q \in Seq({B!Marker} \cup B!Silver), q # <<>>,
         NEW n \in 0 .. Rows + 1, Queued(l, missing, q, n)
  PROVE  /\ Head(q) \in {B!Marker} \cup B!Silver
         /\ Head(q) \in B!Silver =>
              \A t \in B!Silver : t < Head(q) => t \in Passed(l, Len(l)) \cup missing
         /\ Head(q) = B!Marker => B!Silver \subseteq Passed(l, Len(l)) \cup missing
<1>1. Len(q) \in Nat \ {0} /\ Head(q) = q[1] /\ Rows \in Nat /\ Head(q) \in {B!Marker} \cup B!Silver
  BY Numbers
<1>2. PICK b \in Nat : b = n - Len(q) /\ b <= Rows
  <2>1. Len(q) <= n
    BY DEF Queued
  <2>2. n - Len(q) \in Nat /\ n - Len(q) <= Rows
    BY <1>1, <2>1
  <2> QED
    BY <2>2, Zenon
<1>3. Head(q) = RecordOf(b + 1) /\ \A t \in B!Silver : t <= b => t \in Passed(l, Len(l)) \cup missing
  BY <1>1, <1>2 DEF Queued
<1>4. CASE Head(q) \in B!Silver
  <2>1. Head(q) # B!Marker /\ Head(q) = b + 1
    BY <1>2, <1>3, <1>4, Numbers DEF RecordOf
  <2>2. \A t \in B!Silver : t < Head(q) => t <= b
    BY <1>2, <2>1, Numbers
  <2> QED
    BY <1>1, <1>3, <2>1, <2>2
<1>5. CASE Head(q) = B!Marker
  <2>1. b = Rows
    BY <1>1, <1>2, <1>3, <1>5 DEF RecordOf, B!Marker
  <2>2. B!Silver \subseteq Passed(l, Len(l)) \cup missing
    BY <1>1, <1>3, <2>1 DEF B!Silver
  <2> QED
    BY <1>1, <1>5, <2>2, Numbers
<1> QED
  BY <1>1, <1>4, <1>5

LEMMA TailIsQueued ==
  ASSUME B!BootstrapAssumption, NEW l, NEW missing, NEW q \in Seq({B!Marker} \cup B!Silver), q # <<>>,
         NEW n \in 0 .. Rows + 1, Queued(l, missing, q, n), NEW m, NEW gone,
         Passed(l, Len(l)) \subseteq Passed(m, Len(m)), missing \subseteq gone,
         Head(q) \in Passed(m, Len(m)) \cup gone
  PROVE  Queued(m, gone, Tail(q), n)
<1>0. Len(q) \in Nat \ {0} /\ Rows \in Nat
  BY Numbers
<1>1. /\ Len(q) \in Nat \ {0} /\ Head(q) = q[1] /\ Rows \in Nat /\ n \in Nat
      /\ Len(Tail(q)) = Len(q) - 1 /\ \A i \in 1 .. Len(q) - 1 : Tail(q)[i] = q[i + 1]
  BY <1>0
<1>2. PICK b \in Nat : b = n - Len(q) /\ b <= Rows
  <2>1. Len(q) <= n
    BY DEF Queued
  <2>2. n - Len(q) \in Nat /\ n - Len(q) <= Rows
    BY <1>0, <2>1
  <2> QED
    BY <2>2, Zenon
<1>3. Len(Tail(q)) <= n /\ n - Len(Tail(q)) = b + 1
  BY <1>1, <1>2
<1>4. ASSUME NEW i \in 1 .. Len(Tail(q)) PROVE Tail(q)[i] = RecordOf(b + 1 + i)
  <2>1. i \in 1 .. Len(q) - 1 /\ i + 1 \in 1 .. Len(q) /\ b + (i + 1) = b + 1 + i
    BY <1>1, <1>2
  <2>2. q[i + 1] = RecordOf(b + (i + 1))
    BY <1>2, <2>1 DEF Queued
  <2> QED
    BY <1>1, <2>1, <2>2
<1>5. ASSUME NEW t \in B!Silver, t <= b + 1 PROVE t \in Passed(m, Len(m)) \cup gone
  <2>1. CASE t <= b
    BY <1>2, <2>1 DEF Queued
  <2>2. CASE t = b + 1
    <3>1. t <= Rows /\ 1 \in 1 .. Len(q)
      BY <1>1 DEF B!Silver
    <3>2. Head(q) = RecordOf(b + 1)
      BY <1>1, <1>2, <3>1 DEF Queued
    <3>3. Head(q) = t
      BY <2>2, <3>1, <3>2 DEF RecordOf
    <3> QED
      BY <3>3
  <2> QED
    BY <1>2, <1>5, <2>1, <2>2, Numbers
<1> QED
  BY <1>3, <1>4, <1>5 DEF Queued

LEMMA FeederActions ==
  ASSUME B!BootstrapAssumption, BootInv,
         B!StartFeeder \/ B!Produce \/ B!Deliver \/ B!DeliveryFails \/ B!Flush \/ B!StopFeeder
  PROVE  BootInv'
<1>0. /\ feeder \in [run : Nat, status : {"running", "succeeded", "stopped"}, produced : 0 .. Rows + 1]
      /\ queue \in Seq({B!Marker} \cup B!Silver) /\ log \in Seq({B!Marker} \cup B!Transaction)
      /\ lost \subseteq B!Silver \cup {B!Marker}
      /\ Rows \in Nat
  BY Numbers DEF BootInv, BootTypes
<1>1. CASE B!StartFeeder
  <2>1. BootTypes'
    BY <1>0, <1>1 DEF B!StartFeeder, BootInv, BootTypes, B!job
  <2>2. queue = <<>> /\ feeder'.produced = 0 /\ feeder'.status = "running"
    BY <1>0, <1>1 DEF B!StartFeeder, BootInv, Feeding
  <2>3. Queued(log, lost, <<>>, 0)
    <3>1. Len(<<>>) = 0 /\ \A t \in B!Silver : ~(t <= 0 - 0)
      BY Numbers
    <3> QED
      BY <3>1 DEF Queued
  <2>4. Feeding'
    BY <1>1, <2>2, <2>3 DEF B!StartFeeder, Feeding
  <2> QED
    BY <1>1, <2>1, <2>4, FeederStep DEF B!StartFeeder
<1>2. CASE B!Produce
  <2>1. feeder.produced \in 0 .. Rows /\ B!NextRecord = RecordOf(feeder.produced + 1)
    BY <1>0, <1>2 DEF B!Produce, B!HasMore, B!NextRecord, RecordOf
  <2>2. queue' \in Seq({B!Marker} \cup B!Silver) /\ feeder'.produced = feeder.produced + 1
        /\ feeder'.status = "running"
    <3>1. B!NextRecord \in {B!Marker} \cup B!Silver
      BY <1>0, <2>1 DEF RecordOf, B!Silver
    <3> QED
      BY <1>0, <1>2, <3>1 DEF B!Produce
  <2>3. BootTypes'
    <3>1. feeder.produced + 1 \in 0 .. Rows + 1
      BY <1>0, <2>1
    <3>2. feeder' = [feeder EXCEPT !.produced = feeder.produced + 1] /\ UNCHANGED <<log, lost, B!job>>
      BY <1>2 DEF B!Produce
    <3>3. feeder' \in [run : Nat, status : {"running", "succeeded", "stopped"}, produced : 0 .. Rows + 1]
      BY <1>0, <3>1, <3>2
    <3> QED
      BY <2>2, <3>2, <3>3 DEF BootInv, BootTypes, B!job
  <2>4. Queued(log, lost, queue, feeder.produced)
    BY <1>2 DEF B!Produce, BootInv, Feeding
  <2>5. Queued(log, lost, queue', feeder.produced + 1)
    BY <1>0, <1>2, <2>1, <2>4, ProducedFollows DEF B!Produce
  <2>6. Feeding'
    BY <1>2, <2>2, <2>5 DEF B!Produce, Feeding
  <2> QED
    BY <1>2, <2>3, <2>6, FeederStep DEF B!Produce
<1>3. ASSUME queue # <<>>, UNCHANGED feeder, queue' = Tail(queue)
      PROVE  /\ feeder.status = "running" /\ queue' \in Seq({B!Marker} \cup B!Silver)
             /\ Queued(log, lost, queue, feeder.produced)
  BY <1>0, <1>3 DEF BootInv, Feeding
<1>4. CASE B!Deliver
  <2>1. /\ feeder.status = "running" /\ queue' \in Seq({B!Marker} \cup B!Silver)
        /\ Queued(log, lost, queue, feeder.produced)
    BY <1>3, <1>4 DEF B!Deliver
  <2>0. Head(queue) \in {B!Marker} \cup B!Silver
    BY <1>0, <1>4, <2>1, HeadIsNext DEF B!Deliver
  <2>2. PICK x \in {B!Marker} \cup B!Transaction : x = Head(queue) /\ log' = Append(log, x) /\ lost' = lost
    BY <1>4, <2>0, Numbers DEF B!Deliver
  <2>3. BootTypes'
    <3>1. log' \in Seq({B!Marker} \cup B!Transaction) /\ Len(log') = Len(log) + 1 /\ Len(log) \in Nat
      BY <1>0, <2>2
    <3>2. 0 .. Len(log) \subseteq 0 .. Len(log')
      BY <3>1
    <3> QED
      BY <1>0, <1>4, <2>1, <3>1, <3>2 DEF B!Deliver, BootInv, BootTypes, B!job
  <2>4. Passed(log', Len(log')) = Passed(log, Len(log)) \cup {x}
    <3>1. log \in Seq({B!Marker} \cup B!Transaction)
      BY <1>0
    <3>2. Passed(Append(log, x), Len(Append(log, x))) = Passed(log, Len(log)) \cup {x}
      BY <3>1, PassedAll
    <3> QED
      BY <2>2, <3>2
  <2>5. Queued(log', lost, queue', feeder.produced)
    BY <1>0, <1>4, <2>1, <2>2, <2>4, TailIsQueued DEF B!Deliver
  <2>6. Feeding'
    BY <1>4, <2>1, <2>5 DEF B!Deliver, Feeding
  <2>7. Follows(Append(log, x), lost, Len(log) + 1)
    <3>1. Len(log) \in Nat /\ Append(log, x)[Len(log) + 1] = x
      BY <1>0, <2>2
    <3>2. Len(log) + 1 - 1 = Len(log) /\ Len(log) \in 0 .. Len(log)
      BY <3>1
    <3>3. Passed(Append(log, x), Len(log) + 1 - 1) = Passed(log, Len(log))
      BY <1>0, <2>2, <3>2, PassedKeeps
    <3>4. x \notin B!LiveTx
      BY <2>0, <2>2, Numbers
    <3>5. /\ x \in B!Silver => \A t \in B!Silver : t < x => t \in Passed(log, Len(log)) \cup lost
          /\ x = B!Marker => B!Silver \subseteq Passed(log, Len(log)) \cup lost
      BY <1>0, <1>4, <2>1, <2>2, HeadIsNext DEF B!Deliver
    <3> QED
      BY <3>1, <3>3, <3>4, <3>5 DEF Follows
  <2> QED
    BY <1>4, <2>2, <2>3, <2>6, <2>7, LogStep DEF B!Deliver
<1>5. CASE B!DeliveryFails
  <2>1. /\ feeder.status = "running" /\ queue' \in Seq({B!Marker} \cup B!Silver)
        /\ Queued(log, lost, queue, feeder.produced)
    BY <1>3, <1>5 DEF B!DeliveryFails
  <2>2. Head(queue) \in {B!Marker} \cup B!Silver /\ lost' = lost \cup {Head(queue)}
    BY <1>0, <1>5, <2>1, HeadIsNext DEF B!DeliveryFails
  <2>3. BootTypes'
    BY <1>0, <1>5, <2>1, <2>2 DEF B!DeliveryFails, BootInv, BootTypes, B!job
  <2>4. Queued(log, lost', queue', feeder.produced)
    BY <1>0, <1>5, <2>1, <2>2, TailIsQueued DEF B!DeliveryFails
  <2>5. Feeding'
    BY <1>5, <2>1, <2>4 DEF B!DeliveryFails, Feeding
  <2> QED
    BY <1>5, <2>2, <2>3, <2>5, FeederStep DEF B!DeliveryFails
<1>6. CASE B!Flush \/ B!StopFeeder
  <2>1. BootTypes'
    <3>1. queue' \in Seq({B!Marker} \cup B!Silver) /\ UNCHANGED <<log, lost, B!job>>
      <4>1. CASE B!Flush
        BY <1>0, <4>1 DEF B!Flush
      <4>2. CASE B!StopFeeder
        <5>1. queue' = <<>> /\ <<>> \in Seq({B!Marker} \cup B!Silver) /\ UNCHANGED <<log, lost, B!job>>
          BY <4>2 DEF B!StopFeeder
        <5> QED
          BY <5>1
      <4> QED
        BY <1>6, <4>1, <4>2
    <3>2. feeder' \in [run : Nat, status : {"running", "succeeded", "stopped"}, produced : 0 .. Rows + 1]
      BY <1>0, <1>6 DEF B!Flush, B!StopFeeder
    <3> QED
      BY <1>0, <3>1, <3>2 DEF BootInv, BootTypes, B!job
  <2>2. Feeding'
    BY <1>0, <1>6 DEF B!Flush, B!StopFeeder, Feeding
  <2> QED
    BY <1>6, <2>1, <2>2, FeederStep DEF B!Flush, B!StopFeeder
<1> QED
  BY <1>1, <1>2, <1>4, <1>5, <1>6

\* Live transactions are published once each, in the order of their numbers.
LEMMA PublishStep ==
  ASSUME B!BootstrapAssumption, BootInv, NEW x \in B!LiveTx, B!Publish(x)
  PROVE  BootInv'
<1>0. log \in Seq({B!Marker} \cup B!Transaction) /\ x \in {B!Marker} \cup B!Transaction /\ Len(log) \in Nat
  BY Numbers DEF BootInv, BootTypes
<1>1. log' = Append(log, x) /\ log' \in Seq({B!Marker} \cup B!Transaction) /\ Len(log') = Len(log) + 1
  BY <1>0 DEF B!Publish
<1>2. BootTypes'
  <2>1. UNCHANGED <<feeder, queue, lost, B!job>> /\ 0 .. Len(log) \subseteq 0 .. Len(log')
    BY <1>0, <1>1 DEF B!Publish
  <2>2. BootTypes
    BY DEF BootInv
  <2> QED
    BY <1>0, <1>1, <2>1, <2>2 DEF BootTypes, B!job
<1>3. Passed(log', Len(log')) = Passed(log, Len(log)) \cup {x}
  BY <1>0, <1>1, PassedAll
<1>4. Feeding'
  BY <1>3 DEF B!Publish, BootInv, Feeding, Queued
<1>5. Follows(Append(log, x), lost, Len(log) + 1)
  <2>1. Append(log, x)[Len(log) + 1] = x /\ Len(log) + 1 - 1 = Len(log) /\ Len(log) \in 0 .. Len(log)
    BY <1>0
  <2>2. Passed(Append(log, x), Len(log) + 1 - 1) = Passed(log, Len(log))
    BY <1>0, <2>1, PassedKeeps
  <2>3. x \notin B!Silver /\ x # B!Marker
    BY Numbers
  <2>4. x \notin Passed(log, Len(log)) /\ \A u \in B!LiveTx : u < x => u \in Passed(log, Len(log))
    BY <1>0 DEF B!Publish, Passed
  <2> QED
    BY <2>1, <2>2, <2>3, <2>4 DEF Follows
<1> QED
  BY <1>0, <1>1, <1>2, <1>4, <1>5, LogStep DEF B!Publish

-----------------------------------------------------------------------------
(* The job.                                                                  *)

\* What the job reads next, and what it has read then.
LEMMA ReadsNext ==
  ASSUME B!BootstrapAssumption, BootInv, B!HasNext
  PROVE  /\ offset + 1 \in 1 .. Len(log) /\ offset \in 0 .. Len(log) - 1
         /\ B!Next1 = log[offset + 1] /\ B!Next1 \in {B!Marker} \cup B!Transaction
         /\ Passed(log, offset + 1) = Passed(log, offset) \cup {B!Next1}
         /\ Follows(log, lost, offset + 1) /\ offset + 1 - 1 = offset
<1>1. /\ offset \in 0 .. Len(log) /\ log \in Seq({B!Marker} \cup B!Transaction) /\ Len(log) \in Nat
      /\ offset < Len(log)
  BY DEF BootInv, BootTypes, B!HasNext
<1>2. offset + 1 \in 1 .. Len(log) /\ offset \in 0 .. Len(log) - 1 /\ offset + 1 - 1 = offset
  BY <1>1
<1>3. Passed(log, offset + 1) = Passed(log, offset) \cup {log[offset + 1]}
  BY <1>1, <1>2, PassedNext
<1>4. log[offset + 1] \in {B!Marker} \cup B!Transaction
  BY <1>1, <1>2
<1> QED
  BY <1>2, <1>3, <1>4 DEF BootInv, Ordered, B!Next1

\* A timestamp that is read moves the clock.
LEMMA ClockReads ==
  ASSUME B!BootstrapAssumption, BootInv, B!HasNext, B!Next1 \in B!Transaction, offset' = offset + 1,
         latest' = IF Times[B!Next1] > latest THEN Times[B!Next1] ELSE latest,
         UNCHANGED <<log, watermark>>
  PROVE  latest' \in Nat /\ Clocked(log', offset', latest', watermark')
<1>1. /\ Times[B!Next1] \in Nat /\ latest \in Nat \cup {B!NoTime} /\ watermark \in Nat \cup {B!NoTime}
      /\ B!NoTime = -1
  BY Numbers DEF BootInv, BootTypes, B!NoTime
<1>2. Clocked(log, offset, latest, watermark)
  BY DEF BootInv
<1>3. Passed(log, offset') = Passed(log, offset) \cup {B!Next1}
  BY ReadsNext
<1>4. CASE Times[B!Next1] > latest
  <2>1. latest' = Times[B!Next1] /\ (watermark # B!NoTime => watermark < Times[B!Next1])
    BY <1>1, <1>2, <1>4 DEF Clocked
  <2> QED
    BY <1>1, <1>3, <2>1 DEF Clocked
<1>5. CASE ~(Times[B!Next1] > latest)
  <2>1. latest' = latest /\ latest \in Nat
    BY <1>1, <1>5
  <2> QED
    BY <1>2, <1>3, <2>1 DEF Clocked
<1> QED
  BY <1>4, <1>5

\* The state `keeps' a record that is read, or it was too late.
Takes(st, next, x) ==
  next = [history |-> st.history \cup {x}, pending |-> st.pending \cup {Times[x]}]

\* The replay: a row that is too late has been read before.
LEMMA RowAccounted ==
  ASSUME B!BootstrapAssumption, BootInv, mode = "bootstrap", B!HasNext, B!Next1 \in B!Silver,
         B!Accept(B!Next1)
  PROVE  managed' \in StateType /\ Accounted(log, lost, offset + 1, managed')
<1> DEFINE n == offset + 1
<1>1. PICK x \in B!Silver : x = B!Next1
  OBVIOUS
<1>2. /\ Passed(log, n) = Passed(log, offset) \cup {x} /\ Follows(log, lost, n)
      /\ log[n] = x /\ n - 1 = offset
  BY <1>1, ReadsNext
<1>3. Passed(log, offset) \subseteq B!Silver \cup {B!Marker}
  BY DEF BootInv, Phased
<1>4. Accounted(log, lost, offset, managed) /\ managed \in StateType
  BY DEF BootInv, BootTypes
<1>5. CASE B!TooLate(x)
  <2>1. managed' = managed
    BY <1>1, <1>5 DEF B!Accept
  <2>2. x \in lost \/ x \in Passed(log, offset)
    <3>1. SUFFICES ASSUME x \notin lost, x \notin Passed(log, offset) PROVE FALSE
      OBVIOUS
    <3>2. /\ watermark \in Nat /\ watermark < latest /\ latest \in Nat
          /\ Times[x] \in Nat /\ Lateness \in Nat /\ Times[x] < watermark - Lateness
      BY <1>5, Numbers DEF BootInv, BootTypes, Clocked, B!TooLate, B!NoTime
    <3>3. PICK y \in Passed(log, offset) \cap B!Transaction : Times[y] = latest
      BY <3>2 DEF BootInv, Clocked, B!NoTime
    <3>4. y \in B!Silver /\ y # x
      BY <1>3, <3>1, <3>3, Numbers
    <3>5. CASE y < x
      <4>1. Times[y] <= Times[x]
        BY <3>4, <3>5, Numbers
      <4> QED
        BY <3>2, <3>3, <4>1
    <3>6. CASE x < y
      <4>1. PICK i \in 1 .. offset : log[i] = y
        BY <3>3 DEF Passed
      <4>2. offset \in Nat /\ i \in 1 .. Len(log) /\ i - 1 \in Nat /\ i - 1 <= offset
        BY <4>1 DEF BootInv, BootTypes
      <4>3. x \in Passed(log, i - 1)
        BY <3>1, <3>4, <3>6, <4>1, <4>2 DEF BootInv, Ordered, Follows
      <4> QED
        BY <3>1, <4>2, <4>3, PassedGrows
    <3> QED
      BY <3>4, <3>5, <3>6, Numbers
  <2>3. Awaited(log, n, managed) \subseteq Awaited(log, offset, managed)
    BY <1>2 DEF Awaited
  <2> QED
    BY <1>2, <1>4, <2>1, <2>2, <2>3 DEF Accounted
<1>6. CASE ~B!TooLate(x)
  <2>1. Takes(managed, managed', x)
    BY <1>1, <1>6 DEF B!Accept, Takes
  <2>2. Times[x] \in Nat /\ x \in B!Transaction
    BY Numbers
  <2>3. managed' \in StateType
    BY <1>4, <2>1, <2>2 DEF Takes, StateType
  <2>4. Awaited(log, n, managed') \subseteq Awaited(log, offset, managed)
    <3>1. \A v \in B!LiveTx : v \notin Passed(log, offset)
      BY <1>3, Numbers
    <3> QED
      BY <3>1 DEF Awaited
  <2> QED
    BY <1>2, <1>4, <2>1, <2>2, <2>3, <2>4 DEF Accounted, Takes, StateType
<1> QED
  BY <1>5, <1>6

\* Normal streaming: the time of a live transaction was awaited.
LEMMA LiveAccounted ==
  ASSUME B!BootstrapAssumption, BootInv, mode = "normal", B!HasNext, B!Next1 \in B!LiveTx,
         B!Accept(B!Next1)
  PROVE  managed' \in StateType /\ Accounted(log, lost, offset + 1, managed')
<1> DEFINE n == offset + 1
<1>1. PICK x \in B!LiveTx : x = B!Next1
  OBVIOUS
<1>2. /\ Passed(log, n) = Passed(log, offset) \cup {x} /\ Follows(log, lost, n)
      /\ log[n] = x /\ n - 1 = offset
  BY <1>1, ReadsNext
<1>3. x \notin Passed(log, offset) /\ x \notin B!Silver /\ x \in B!Transaction /\ Times[x] \in Nat
  BY <1>2, Numbers DEF Follows
<1>4. Accounted(log, lost, offset, managed) /\ managed \in StateType
  BY DEF BootInv, BootTypes
<1>5. managed' = managed \/ Takes(managed, managed', x)
  BY <1>1 DEF B!Accept, Takes
<1>6. managed' \in StateType
  BY <1>3, <1>4, <1>5 DEF Takes, StateType
<1>7. Awaited(log, n, managed') \subseteq Awaited(log, offset, managed)
  <2>1. managed'.pending \subseteq managed.pending \cup {Times[x]}
    BY <1>5 DEF Takes
  <2> QED
    BY <1>2, <1>3, <2>1 DEF Awaited
<1>8. managed.history \subseteq managed'.history /\ managed'.history \subseteq managed.history \cup {x}
      /\ managed'.pending \subseteq managed.pending \cup {Times[x]}
  BY <1>4, <1>5 DEF Takes, StateType
<1> QED
  BY <1>2, <1>3, <1>4, <1>6, <1>7, <1>8 DEF Accounted

\* What the normal job passes over was accounted for.
LEMMA OtherAccounted ==
  ASSUME B!BootstrapAssumption, BootInv, B!HasNext, B!Next1 \notin B!LiveTx,
         B!Next1 \in B!Silver => mode = "normal"
  PROVE  Accounted(log, lost, offset + 1, managed)
<1>1. PICK x : x = B!Next1
  OBVIOUS
<1>2. Passed(log, offset + 1) = Passed(log, offset) \cup {x}
  BY <1>1, ReadsNext
<1>3. Awaited(log, offset + 1, managed) \subseteq Awaited(log, offset, managed)
  BY <1>1, <1>2 DEF Awaited
<1>4. x \in B!Silver => x \in lost \/ x \in Passed(log, offset)
  BY <1>1 DEF BootInv, Phased
<1> QED
  BY <1>2, <1>3, <1>4 DEF BootInv, Accounted

LEMMA ReadActions ==
  ASSUME B!BootstrapAssumption, BootInv, B!Read \/ B!ReadOther \/ B!ReadMarker
  PROVE  BootInv'
<1>1. B!HasNext /\ offset' = offset + 1 /\ UNCHANGED <<B!source, mode, watermark, savepoint, online>>
  BY DEF B!Read, B!ReadOther, B!ReadMarker
<1>2. /\ offset' \in 0 .. Len(log) /\ Passed(log, offset') = Passed(log, offset) \cup {B!Next1}
      /\ B!Next1 \in {B!Marker} \cup B!Transaction
  BY <1>1, ReadsNext DEF BootInv, BootTypes
<1>3. mode \in {"bootstrap", "normal"}
  BY <1>1 DEF B!HasNext, BootInv, BootTypes
<1>4. Feeding' /\ Ordered'
  BY <1>1 DEF BootInv, Feeding, Ordered, B!source
<1>5. B!RowsAreCounted'
  BY <1>1 DEF BootInv, B!RowsAreCounted, B!source
<1>6. B!Next1 \in B!LiveTx => mode = "normal"
  BY <1>3, Numbers DEF B!Read, B!ReadOther, B!ReadMarker, B!Own, B!Passes
<1>7. Phased(log, lost, mode, offset')
  BY <1>2, <1>6, Numbers DEF BootInv, Phased
<1>8. ASSUME managed' \in StateType, Accounted(log, lost, offset', managed'),
             latest' \in Nat \cup {B!NoTime}, Clocked(log, offset', latest', watermark),
             complete' => B!Marker \in Passed(log, Len(log))
      PROVE  BootInv'
  BY <1>1, <1>2, <1>4, <1>5, <1>7, <1>8 DEF BootInv, BootTypes, B!source
<1>9. CASE B!Read
  <2>1. managed' \in StateType /\ Accounted(log, lost, offset', managed')
    <3>1. CASE mode = "bootstrap"
      BY <1>1, <1>9, <3>1, RowAccounted DEF B!Read, B!Own
    <3>2. CASE mode = "normal"
      BY <1>1, <1>9, <3>2, LiveAccounted DEF B!Read, B!Own
    <3> QED
      BY <1>3, <3>1, <3>2
  <2>2. latest' \in Nat /\ Clocked(log, offset', latest', watermark)
    <3>1. B!Next1 \in B!Transaction
      BY <1>9, <1>2 DEF B!Read
    <3>2. Clocked(log', offset', latest', watermark') /\ latest' \in Nat
      BY <1>1, <1>9, <3>1, ClockReads DEF B!Read, B!Accept, B!source
    <3> QED
      BY <1>1, <3>2 DEF B!source
  <2> QED
    BY <1>8, <1>9, <2>1, <2>2 DEF B!Read, BootInv
<1>10. CASE B!ReadOther
  <2>1. mode = "normal" /\ B!Next1 \notin B!LiveTx /\ B!Next1 \in B!Transaction
    BY <1>2, <1>10 DEF B!ReadOther, B!Passes, B!Own
  <2>2. Accounted(log, lost, offset', managed') /\ managed' \in StateType
    BY <1>1, <1>10, <2>1, OtherAccounted DEF B!ReadOther, BootInv, BootTypes
  <2>3. Clocked(log', offset', latest', watermark') /\ latest' \in Nat
    BY <1>1, <1>10, <2>1, ClockReads DEF B!ReadOther, B!source
  <2> QED
    BY <1>1, <1>8, <1>10, <2>2, <2>3 DEF B!ReadOther, BootInv, B!source
<1>11. CASE B!ReadMarker
  <2>1. B!Next1 \notin B!Transaction /\ B!Next1 = B!Marker
    BY <1>11, Numbers DEF B!ReadMarker
  <2>2. Accounted(log, lost, offset', managed') /\ managed' \in StateType
    BY <1>1, <1>11, <2>1, OtherAccounted, Numbers DEF B!ReadMarker, BootInv, BootTypes
  <2>3. Clocked(log, offset', latest', watermark) /\ latest' \in Nat \cup {B!NoTime}
    BY <1>2, <1>11 DEF B!ReadMarker, BootInv, BootTypes, Clocked
  <2>4. B!Marker \in Passed(log, Len(log))
    <3>1. offset' \in Nat /\ Len(log) \in Nat /\ offset' <= Len(log)
      BY <1>2 DEF BootInv, BootTypes
    <3> QED
      BY <1>2, <2>1, <3>1, PassedGrows
  <2> QED
    BY <1>8, <2>2, <2>3, <2>4
<1> QED
  BY <1>9, <1>10, <1>11

\* The watermark stays behind the clock.
LEMMA WatermarkStep ==
  ASSUME B!BootstrapAssumption, BootInv, NEW w \in 0 .. latest, B!Watermark(w)
  PROVE  BootInv'
<1>1. /\ latest \in Nat \cup {B!NoTime} /\ OutOfOrder \in Nat /\ B!NoTime = -1
      /\ w <= latest - OutOfOrder - 1 /\ watermark' = w
      /\ UNCHANGED <<B!source, mode, offset, managed, latest, complete, savepoint, online>>
  BY Numbers DEF BootInv, BootTypes, B!NoTime, B!Watermark
<1>2. w \in Nat /\ w < latest
  <2>1. w \in Nat /\ w <= latest /\ latest \in Nat
    BY <1>1
  <2> QED
    BY <1>1, <2>1
<1>3. Clocked(log, offset, latest, watermark')
  BY <1>1, <1>2 DEF BootInv, Clocked
<1>4. Feeding' /\ Ordered' /\ B!RowsAreCounted'
  BY <1>1 DEF BootInv, Feeding, Ordered, B!RowsAreCounted, B!source
<1> QED
  BY <1>1, <1>2, <1>3, <1>4 DEF BootInv, BootTypes, B!source

\* The group that is fired is the first of all, and no live transaction to come precedes it
\* if those of its time are in order.
LEMMA FirstOfAll ==
  ASSUME B!BootstrapAssumption, BootInv, B!Due # {}
  PROVE  \E at \in managed.pending :
           /\ at = (CHOOSE a \in B!Due : \A b \in B!Due : a <= b)
           /\ at \in Nat
           /\ \A a \in Awaited(log, offset, managed) : at <= a
<1>1. /\ managed.pending \subseteq Nat /\ B!Due \subseteq managed.pending /\ Lateness \in Nat
      /\ watermark \in Nat \cup {-1}
      /\ Accounted(log, lost, offset, managed) /\ offset \in 0 .. Len(log) /\ Len(log) \in Nat
  BY Numbers DEF BootInv, BootTypes, StateType, B!Due, B!NoTime
<1>2. PICK at \in B!Due : at = (CHOOSE a \in B!Due : \A b \in B!Due : a <= b) /\ \A b \in B!Due : at <= b
  BY <1>1, Earliest
<1>3. at \in Nat /\ at \in managed.pending /\ at + Lateness + 1 <= watermark
  BY <1>1 DEF B!Due
<1>4. ASSUME NEW b \in managed.pending PROVE at <= b
  <2>1. SUFFICES ASSUME b < at PROVE FALSE
    BY <1>1, <1>3
  <2>2. b \in Nat /\ b + Lateness + 1 <= watermark
    BY <1>1, <1>3, <2>1
  <2> QED
    BY <1>2, <2>1, <2>2, <1>3 DEF B!Due
<1>5. ASSUME NEW v \in B!LiveTx, B!InOrder(Times[v]), v \notin Passed(log, offset)
      PROVE  at <= Times[v]
  <2>1. PICK x \in Passed(log, offset) \cap B!Transaction : Times[x] = at
    BY <1>1, <1>3 DEF Accounted
  <2>2. PICK i \in 1 .. offset : log[i] = x
    BY <2>1 DEF Passed
  <2>3. i \in 1 .. Len(log) /\ i - 1 \in Nat /\ offset \in Nat /\ i - 1 <= offset
    BY <1>1, <2>2
  <2>4. CASE x \in B!LiveTx /\ v < x
    BY <1>5, <2>2, <2>3, <2>4, PassedGrows DEF BootInv, Ordered, Follows
  <2>5. CASE x < v
    BY <1>5, <2>1, <2>5, Numbers DEF B!InOrder
  <2>6. x < v \/ (x \in B!LiveTx /\ v < x)
    <3>1. /\ x \in Nat /\ v \in Nat /\ x # v
          /\ x \in B!Silver => x < v
          /\ x \in B!Silver \/ x \in B!LiveTx
      BY <1>5, <2>1, Numbers
    <3> QED
      BY <3>1
  <2> QED
    BY <2>4, <2>5, <2>6
<1> QED
  BY <1>2, <1>3, <1>4, <1>5 DEF Awaited

LEMMA FireStep ==
  ASSUME B!BootstrapAssumption, BootInv, B!Fire
  PROVE  BootInv'
<1>1. /\ B!Due # {} /\ UNCHANGED <<B!source, mode, offset, latest, watermark, complete, savepoint>>
      /\ managed \in StateType /\ Accounted(log, lost, offset, managed)
      /\ Window \in Nat /\ \A t \in B!Transaction : Times[t] \in Nat
  BY Numbers DEF B!Fire, BootInv, BootTypes
<1>2. PICK at \in managed.pending :
        /\ at = (CHOOSE a \in B!Due : \A b \in B!Due : a <= b)
        /\ at \in Nat
        /\ \A a \in Awaited(log, offset, managed) : at <= a
  BY <1>1, FirstOfAll
<1>3. /\ online' = online \cup B!Published({t \in managed.history : Times[t] = at}, at)
      /\ managed' = [history |-> {t \in managed.history : Times[t] >= at - Window},
                   pending |-> managed.pending \ {at}]
  BY <1>2 DEF B!Fire
<1>4. managed' \in StateType
  BY <1>1, <1>3 DEF StateType
<1>5. Accounted(log, lost, offset, managed')
  <2>1. Awaited(log, offset, managed') \subseteq Awaited(log, offset, managed)
    BY <1>3 DEF Awaited
  <2>2. ASSUME NEW t \in (B!Silver \ lost) \cap Passed(log, offset), t \notin managed'.history,
               NEW a \in Awaited(log, offset, managed')
        PROVE  Times[t] < a - Window
    <3>1. CASE t \notin managed.history
      BY <1>1, <2>1, <2>2, <3>1 DEF Accounted
    <3>2. CASE t \in managed.history
      <4>1. t \in B!Transaction /\ ~(Times[t] >= at - Window)
        BY <1>3, <2>2, <3>2, Numbers
      <4>2. a \in Nat /\ at <= a
        BY <1>1, <1>2, <2>1, <2>2, Numbers DEF Awaited
      <4> QED
        BY <1>1, <1>2, <4>1, <4>2
    <3> QED
      BY <3>1, <3>2
  <2>3. managed'.history \subseteq Passed(log, offset)
        /\ \A b \in managed'.pending : \E t \in Passed(log, offset) \cap B!Transaction : Times[t] = b
    BY <1>1, <1>3 DEF Accounted
  <2> QED
    BY <2>2, <2>3 DEF Accounted
<1>6. ASSUME NEW r \in online' \ online
      PROVE  /\ r.tx \in B!LiveTx /\ r.tx \in managed.history
             /\ Times[r.tx] = at /\ r.window = B!Snapshot(at)
  BY <1>3, <1>6 DEF B!Published
<1>7. B!RowsAreCounted'
  <2>1. ASSUME NEW r \in online' \ online, NEW t \in B!Silver \ lost, B!InOrder(at),
               at - Window <= Times[t], Times[t] < at
        PROVE  t \in r.window
    <3>1. r.tx \in Passed(log, offset)
      BY <1>1, <1>6, <2>1 DEF Accounted
    <3>2. mode = "normal"
      BY <1>6, <3>1, Numbers DEF BootInv, Phased
    <3>3. t \in Passed(log, offset)
      BY <3>2 DEF BootInv, Phased
    <3>4. at \in Awaited(log, offset, managed)
      BY <1>2, <1>6, <2>1 DEF Awaited
    <3>5. t \in managed.history
      <4>1. Times[t] \in Nat /\ ~(Times[t] < at - Window)
        BY <1>1, <1>2, <2>1, Numbers
      <4> QED
        BY <1>1, <3>3, <3>4, <4>1 DEF Accounted
    <3> QED
      BY <1>6, <2>1, <3>5 DEF B!Snapshot
  <2>2. lost' = lost
    BY <1>1 DEF B!source
  <2> QED
    BY <1>6, <2>1, <2>2 DEF BootInv, B!RowsAreCounted
<1>8. Feeding' /\ Ordered'
  BY <1>1 DEF BootInv, Feeding, Ordered, B!source
<1> QED
  BY <1>1, <1>4, <1>5, <1>7, <1>8 DEF BootInv, BootTypes, B!source

\* Offset and state are kept and restored together.
LEMMA KeepingActions ==
  ASSUME B!BootstrapAssumption, BootInv, B!Checkpoint \/ B!Restart \/ B!StartNormal
  PROVE  BootInv'
<1>1. UNCHANGED <<B!source, complete, online>>
  BY DEF B!Checkpoint, B!Restart, B!StartNormal, B!Restore
<1>2. Feeding' /\ Ordered' /\ B!RowsAreCounted'
  BY <1>1 DEF BootInv, Feeding, Ordered, B!RowsAreCounted, B!source
<1>3. CASE B!Checkpoint
  <2>1. UNCHANGED <<mode, offset, managed, latest, watermark>>
        /\ savepoint' = [offset |-> offset, state |-> managed]
    BY <1>3 DEF B!Checkpoint
  <2> QED
    BY <1>1, <1>2, <2>1 DEF BootInv, BootTypes, B!source
<1>4. CASE B!Restart \/ B!StartNormal
  <2>1. PICK m \in {mode, "normal"} :
          /\ m = "normal" => mode # "bootstrap"
          /\ mode' = m /\ offset' = savepoint.offset /\ managed' = savepoint.state
          /\ latest' = B!NoTime /\ watermark' = B!NoTime /\ savepoint' = savepoint
    <3>1. CASE B!Restart
      BY <3>1 DEF B!Restart, B!Restore
    <3>2. CASE B!StartNormal
      BY <3>2 DEF B!StartNormal, B!Restore
    <3> QED
      BY <1>4, <3>1, <3>2
  <2>2. BootTypes'
    BY <1>1, <2>1 DEF BootInv, BootTypes, B!source
  <2>3. Phased(log, lost, m, savepoint.offset)
    BY <2>1 DEF BootInv, Phased
  <2>4. Clocked(log, offset', latest', watermark')
    BY <2>1 DEF Clocked
  <2> QED
    BY <1>1, <1>2, <2>1, <2>2, <2>3, <2>4 DEF BootInv, B!source
<1> QED
  BY <1>3, <1>4

\* The handover: the marker has been read, and the rows before it.
LEMMA SavepointStep ==
  ASSUME B!BootstrapAssumption, BootInv, B!Savepoint
  PROVE  BootInv'
<1>1. /\ UNCHANGED <<B!source, offset, managed, latest, watermark, complete, online>>
      /\ mode = "bootstrap" /\ mode' = "handover" /\ complete /\ offset = Len(log)
      /\ savepoint' = [offset |-> offset, state |-> managed]
  BY DEF B!Savepoint, B!Gate
<1>2. Feeding' /\ Ordered' /\ B!RowsAreCounted'
  BY <1>1 DEF BootInv, Feeding, Ordered, B!RowsAreCounted, B!source
<1>3. BootTypes'
  BY <1>1 DEF BootInv, BootTypes, B!source
<1>4. B!Silver \subseteq Passed(log, offset) \cup lost
  <2>1. PICK i \in 1 .. Len(log) : log[i] = B!Marker
    BY <1>1 DEF BootInv, Passed
  <2>2. offset \in Nat /\ i - 1 \in Nat /\ i - 1 <= offset
    BY <1>1, <2>1 DEF BootInv, BootTypes
  <2>3. B!Silver \subseteq Passed(log, i - 1) \cup lost
    BY <2>1 DEF BootInv, Ordered, Follows
  <2> QED
    BY <2>2, <2>3, PassedGrows
<1>5. Phased(log, lost, "handover", offset)
  BY <1>1, <1>4 DEF BootInv, Phased
<1> QED
  BY <1>1, <1>2, <1>3, <1>5 DEF BootInv, B!source

LEMMA BootInit ==
  ASSUME B!BootstrapAssumption, B!Init
  PROVE  BootInv
<1>1. <<>> \in Seq({B!Marker} \cup B!Silver) /\ <<>> \in Seq({B!Marker} \cup B!Transaction) /\ Len(<<>>) = 0
  OBVIOUS
<1>2. B!Empty \in StateType /\ Rows \in Nat
  BY Numbers DEF B!Empty, StateType
<1>3. BootTypes
  BY <1>1, <1>2 DEF B!Init, BootTypes
<1>4. Passed(log, 0) = {}
  BY DEF Passed
<1>5. Feeding /\ Ordered /\ B!RowsAreCounted
  BY <1>1 DEF B!Init, Feeding, Ordered, B!RowsAreCounted
<1>6. Clocked(log, 0, B!NoTime, B!NoTime) /\ Accounted(log, lost, 0, B!Empty)
      /\ Phased(log, lost, "bootstrap", 0)
  BY <1>4 DEF Clocked, Accounted, Phased, B!Empty
<1> QED
  BY <1>3, <1>5, <1>6 DEF BootInv, B!Init

LEMMA BootStutter ==
  ASSUME BootInv, UNCHANGED B!vars
  PROVE  BootInv'
<1>1. BootTypes' /\ Feeding' /\ Ordered' /\ B!RowsAreCounted'
  BY DEF BootInv, BootTypes, Feeding, Ordered, B!RowsAreCounted, B!vars
<1> QED
  BY <1>1 DEF BootInv, B!vars

LEMMA BootNext ==
  ASSUME B!BootstrapAssumption, BootInv, [B!Next]_(B!vars)
  PROVE  BootInv'
<1>1. CASE B!StartFeeder \/ B!Produce \/ B!Deliver \/ B!DeliveryFails \/ B!Flush \/ B!StopFeeder
  BY <1>1, FeederActions
<1>2. CASE \E t \in B!LiveTx : B!Publish(t)
  BY <1>2, PublishStep
<1>3. CASE B!Read \/ B!ReadOther \/ B!ReadMarker
  BY <1>3, ReadActions
<1>4. CASE B!Fire
  BY <1>4, FireStep
<1>5. CASE B!Checkpoint \/ B!Restart \/ B!StartNormal
  BY <1>5, KeepingActions
<1>6. CASE \E w \in 0 .. latest : B!Watermark(w)
  BY <1>6, WatermarkStep
<1>7. CASE B!Savepoint
  BY <1>7, SavepointStep
<1>8. CASE UNCHANGED B!vars
  BY <1>8, BootStutter
<1> QED
  BY <1>1, <1>2, <1>3, <1>4, <1>5, <1>6, <1>7, <1>8 DEF B!Next

LEMMA BootHolds ==
  ASSUME BootInv
  PROVE  RowsAreCounted /\ LiveIsLeft
  BY DEF BootInv, Phased, Passed, RowsAreCounted, LiveIsLeft, B!LiveIsLeft

-----------------------------------------------------------------------------
\* The inductive invariant of the first deployment holds whatever setting is explored.
THEOREM JobInvariance == ASSUME JobAssumption PROVE JobSpec => []BootInv
<1>1. JobInit => BootInv
  BY BootInit DEF JobInit, JobAssumption
<1>2. BootInv /\ [JobNext]_all => BootInv'
  <2> SUFFICES ASSUME BootInv, [JobNext]_all PROVE BootInv'
    OBVIOUS
  <2>1. [B!Next]_(B!vars)
    BY DEF JobNext, all, first, B!vars
  <2> QED
    BY <2>1, BootNext DEF JobAssumption
<1> QED
  BY <1>1, <1>2, PTL DEF JobSpec

\* A published live transaction, of a time in order, counts every row in its window that
\* was not lost on its way to the log, for any history, feeder runs and restarts.
THEOREM RowsAreCountedHolds == ASSUME JobAssumption PROVE JobSpec => []RowsAreCounted
<1>1. BootInv => RowsAreCounted
  BY BootHolds
<1> QED
  BY <1>1, JobInvariance, PTL

\* Until the handover the job has passed rows and markers only, so that the normal job
\* starts before the first live transaction.
THEOREM LiveIsLeftHolds == ASSUME JobAssumption PROVE JobSpec => []LiveIsLeft
<1>1. BootInv => LiveIsLeft
  BY BootHolds
<1> QED
  BY <1>1, JobInvariance, PTL
=============================================================================
