------------------------- MODULE FeatureStreamProofs -------------------------
(***************************************************************************)
(* ReadIsKept and AcceptedOnce for any transactions, keys, subtasks,        *)
(* watermarks, numbers of retries and restarts, and so PublishesEligible;   *)
(* SnapshotsStayFinal and LateStaysOffline for any job until its first      *)
(* restart.                                                                 *)
(*                                                                          *)
(* ReadIsKept is not inductive: a restart replaces the offsets and the      *)
(* managed state by those of the checkpoint, and each topic keeps some of   *)
(* what it was given since.  So the same is kept of the checkpoint, and     *)
(* what it holds leaves no topic; and of the retries only those are relied  *)
(* on that a restart cannot lose, in the checkpoint or read again already.  *)
(* The reason for the other four stands before each.                        *)
(***************************************************************************)
EXTENDS FeatureStream, WellFoundedInduction, TLAPS

Count == 0 .. MaxRetries

Clock == Nat \cup {NoTime}

OffsetsType == [raw : [Tx -> Nat], retry : [Attempt -> Nat]]

StateType ==
  [seen : SUBSET Tx, history : [StateKey -> [Tx -> Count \cup {Absent}]],
   pending : [StateKey -> SUBSET Nat]]

Answer == {"ON_TIME", "LATE_ACCEPTED", "TOO_LATE"}

OutType ==
  [accepted : [Tx -> Seq(Answer)], late : SUBSET Tx,
   online : SUBSET [key : StateKey, at : Nat, tx : Tx, window : SUBSET Tx],
   retry : [Attempt -> Nat], dlq : SUBSET Tx, failed : SUBSET (StateKey \X Tx)]

Packet == [tx : Tx, count : Count] \cup [mark : Nat] \cup [idle : {TRUE}]
Record(p) == "tx" \in DOMAIN p
Mark(p) == "mark" \in DOMAIN p

StreamType ==
  /\ offsets \in OffsetsType /\ state \in StateType /\ out \in OutType
  /\ channel \in [Subtask -> Seq(Packet)]
  /\ checkpoint \in [offsets : OffsetsType, state : StateType, out : OutType]

\* The retries no restart loses, and those of the checkpoint alone.
Sure == {a \in Attempt : checkpoint.out.retry[a] > 0 \/ offsets.retry[a] > 0}
Secured == {a \in Attempt : checkpoint.out.retry[a] > 0}

\* Of t, the first n retries are among the attempts `sure'.
Reached(sure, t, n) == \A m \in 1 .. MaxRetries : m <= n => <<t, m>> \in sure

\* What reading `offs' left in the managed state `st' and in the topics `o'.
Kept(offs, st, o, sure, t) ==
  /\ offs.raw[t] > 0 => t \in o.dlq \/ (t \notin Malformed /\ o.accepted[t] # <<>>)
  /\ t \in st.seen => t \notin Malformed /\ o.accepted[t] # <<>>
  /\ \A k \in StateKey : Reached(sure, t, st.history[k][t])
  /\ \A n \in 1 .. MaxRetries : o.retry[<<t, n>>] > 0 => Reached(sure, t, n - 1)
  /\ t \in o.dlq \ Malformed => Reached(sure, t, MaxRetries)

\* The topics `o' hold what `before' held.
Grown(before, o) ==
  /\ \A t \in Tx : before.accepted[t] # <<>> => o.accepted[t] # <<>>
  /\ before.dlq \subseteq o.dlq
  /\ \A a \in Attempt : before.retry[a] > 0 => o.retry[a] > 0

\* The retries of a record that is sent, and of all in the channels `ch'.
Carries(p, sure) == Record(p) => p.tx \in Tx /\ Reached(sure, p.tx, p.count)

Sent(ch, sure) == \A s \in Subtask : \A i \in DOMAIN ch[s] : Carries(ch[s][i], sure)

StreamInv ==
  /\ StreamType
  /\ \A t \in Tx : Kept(offsets, state, out, Sure, t)
  /\ \A t \in Tx : Kept(checkpoint.offsets, checkpoint.state, checkpoint.out, Secured, t)
  /\ Grown(checkpoint.out, out)
  /\ \A a \in Sure : out.retry[a] > 0
  /\ \A a \in Attempt : checkpoint.offsets.retry[a] > 0 => a \in Secured
  /\ Sent(channel, Sure)

-----------------------------------------------------------------------------
LEMMA Bounds ==
  ASSUME StreamAssumption
  PROVE  /\ MaxRetries \in Nat /\ EventTime \in [Tx -> Nat] /\ SubtaskOf \in [Tx -> Subtask]
         /\ Malformed \subseteq Tx /\ KeysOf \in [Tx -> SUBSET StateKey]
         /\ \A t \in Tx, n \in 1 .. MaxRetries : <<t, n>> \in Attempt
  BY DEF StreamAssumption, Attempt

LEMMA Kinds ==
  ASSUME NEW p \in Packet
  PROVE  /\ Record(p) => p.tx \in Tx /\ p.count \in Count /\ ~ Mark(p)
         /\ Mark(p) => p.mark \in Nat
         /\ "idle" \in DOMAIN p => ~ Record(p) /\ ~ Mark(p)
<1>1. CASE p \in [tx : Tx, count : Count]
  BY <1>1 DEF Record, Mark
<1>2. CASE p \in [mark : Nat]
  BY <1>2 DEF Record, Mark
<1>3. CASE p \in [idle : {TRUE}]
  BY <1>3 DEF Record, Mark
<1> QED
  BY <1>1, <1>2, <1>3 DEF Packet

\* The first of a set of times is one of them, and before the others.
LEMMA SetMinIsLeast ==
  ASSUME NEW T, T \subseteq Clock, T # {}
  PROVE  SetMin(T) \in T /\ \A y \in T : SetMin(T) <= y
<1>1. CASE NoTime \in T
  <2>1. \A y \in T : NoTime <= y
    BY DEF Clock, NoTime
  <2> QED
    BY <1>1, <2>1 DEF SetMin
<1>2. CASE NoTime \notin T
  <2>1. T \subseteq Nat
    BY <1>2 DEF Clock
  <2> DEFINE R == OpToRel(<, Nat)
  <2>2. IsWellFoundedOn(R, Nat)
    BY NatLessThanWellFounded
  <2>3. R = {ss \in Nat \X Nat : ss[1] < ss[2]}
    BY DEF OpToRel
  <2> HIDE DEF R
  <2>4. PICK x \in T : \A y \in T : ~ (<<y, x>> \in R)
    BY <2>1, <2>2, WFMin
  <2>5. ASSUME NEW y \in T PROVE x <= y
    <3>1. x \in Nat /\ y \in Nat /\ <<y, x>> \notin R
      BY <2>1, <2>4
    <3>2. ~ (y < x)
      BY <2>3, <3>1
    <3> QED
      BY <3>1, <3>2
  <2> QED
    BY <2>5 DEF SetMin
<1> QED
  BY <1>1, <1>2

\* More topics keep what fewer kept.
LEMMA KeptGrows ==
  ASSUME NEW offs, NEW st, NEW before, NEW o, NEW sure, NEW more, NEW t \in Tx,
         Grown(before, o), sure \subseteq more, Kept(offs, st, before, sure, t),
         \A n \in 1 .. MaxRetries : o.retry[<<t, n>>] > 0 => Reached(more, t, n - 1),
         t \in o.dlq \ Malformed => Reached(more, t, MaxRetries)
  PROVE  Kept(offs, st, o, more, t)
<1>1. \A k \in StateKey : Reached(more, t, st.history[k][t])
  BY DEF Kept, Reached
<1> QED
  BY <1>1 DEF Kept, Grown

LEMMA SentGrows ==
  ASSUME NEW ch, NEW sure, NEW more, Sent(ch, sure), sure \subseteq more
  PROVE  Sent(ch, more)
  BY DEF Sent, Carries, Reached

\* Of an action that reads no retry, the sure ones stay the same.
LEMMA SameSure ==
  ASSUME offsets'.retry = offsets.retry, UNCHANGED checkpoint
  PROVE  Sure' = Sure
  BY DEF Sure

-----------------------------------------------------------------------------
(* What an action does to the topics, and to the rest.                     *)

\* Topics that grow keep what travels and what the checkpoint holds.
LEMMA GrowthStep ==
  ASSUME StreamAssumption, StreamInv, StreamType', Grown(out, out'), UNCHANGED checkpoint,
         \A a \in Sure' : out'.retry[a] > 0,
         \A t \in Tx : Kept(offsets', state', out', Sure', t),
         Sent(channel', Sure')
  PROVE  StreamInv'
<1>1. Grown(checkpoint.out, out')
  BY DEF StreamInv, Grown
<1>2. \A t \in Tx : Kept(offsets, state, out, Sure, t)'
  OBVIOUS
<1>3. \A t \in Tx : Kept(checkpoint.offsets, checkpoint.state, checkpoint.out, Secured, t)'
  <2>1. Secured' = Secured
    BY DEF Secured
  <2> QED
    BY <2>1 DEF StreamInv
<1>4. \A a \in Attempt : checkpoint'.offsets.retry[a] > 0 => a \in Secured'
  BY DEF StreamInv, Secured
<1>5. Grown(checkpoint.out, out)'
  BY <1>1
<1> QED
  BY <1>2, <1>3, <1>4, <1>5 DEF StreamInv

LEMMA Unchanged ==
  ASSUME NEW o
  PROVE  Grown(o, o)
  BY DEF Grown

\* What is appended to a channel joins what was there.
LEMMA NewPacket ==
  ASSUME channel \in [Subtask -> Seq(Packet)], NEW sure, Sent(channel, sure), NEW x \in Subtask,
         NEW packet \in Packet, Carries(packet, sure),
         NEW sent, sent = [channel EXCEPT ![x] = Append(@, packet)]
  PROVE  sent \in [Subtask -> Seq(Packet)] /\ Sent(sent, sure)
<1>1. sent \in [Subtask -> Seq(Packet)]
  OBVIOUS
<1>2. ASSUME NEW s \in Subtask, NEW i \in DOMAIN sent[s]
      PROVE  (i \in DOMAIN channel[s] /\ sent[s][i] = channel[s][i]) \/ sent[s][i] = packet
  <2>1. CASE s = x
    <3>1. sent[s] = Append(channel[s], packet) /\ channel[s] \in Seq(Packet)
      BY <2>1
    <3> QED
      BY <1>2, <3>1
  <2>2. CASE s # x
    BY <1>2, <2>2
  <2> QED
    BY <2>1, <2>2
<1>3. Sent(sent, sure)
  BY <1>2 DEF Sent
<1> QED
  BY <1>1, <1>3

LEMMA Disposed ==
  ASSUME StreamAssumption, StreamInv, NEW t \in Tx, NEW count \in Count,
         NEW sure, Sure \subseteq sure, Reached(sure, t, count), Dispose(t, count)
  PROVE  /\ out' \in OutType /\ channel' \in [Subtask -> Seq(Packet)] /\ Grown(out, out')
         /\ out'.retry = out.retry /\ out'.dlq = out.dlq
         /\ count = 0 => out'.accepted[t] # <<>>
         /\ Sent(channel', sure)
<1> DEFINE d == Disposition(disposing[SubtaskOf[t]], EventTime[t])
<1> DEFINE packet == [tx |-> t, count |-> count]
<1>1. out \in OutType /\ channel \in [Subtask -> Seq(Packet)] /\ SubtaskOf[t] \in Subtask
  BY Bounds DEF StreamInv, StreamType
<1>2. d \in Answer
  BY DEF Disposition, Answer
<1>3. out' = Published(t, count, d)
  BY DEF Dispose
<1> HIDE DEF d
<1>4. /\ out'.accepted = [out.accepted EXCEPT ![t] = IF count = 0 THEN Append(@, d) ELSE @]
      /\ out'.late = (IF count = 0 /\ d = "TOO_LATE" THEN out.late \cup {t} ELSE out.late)
      /\ out'.online = out.online /\ out'.retry = out.retry /\ out'.dlq = out.dlq
      /\ out'.failed = out.failed
      /\ out' = [accepted |-> out'.accepted, late |-> out'.late, online |-> out'.online,
                 retry |-> out'.retry, dlq |-> out'.dlq, failed |-> out'.failed]
  BY <1>1, <1>3 DEF Published, OutType
<1>5. out'.accepted \in [Tx -> Seq(Answer)]
  BY <1>1, <1>2, <1>4 DEF OutType
<1>6. out' \in OutType
  <2>1. out'.late \in SUBSET Tx
    BY <1>1, <1>4 DEF OutType
  <2>2. /\ out'.online \in SUBSET [key : StateKey, at : Nat, tx : Tx, window : SUBSET Tx]
        /\ out'.retry \in [Attempt -> Nat] /\ out'.dlq \in SUBSET Tx
        /\ out'.failed \in SUBSET (StateKey \X Tx)
    BY <1>1, <1>4 DEF OutType
  <2> QED
    BY <1>4, <1>5, <2>1, <2>2 DEF OutType
<1>7. \A x \in Tx : out.accepted[x] # <<>> => out'.accepted[x] # <<>>
  <2>1. out.accepted \in [Tx -> Seq(Answer)]
    BY <1>1 DEF OutType
  <2>2. Append(out.accepted[t], d) # <<>>
    BY <1>2, <2>1
  <2> QED
    BY <1>4, <2>1, <2>2
<1>8. count = 0 => out'.accepted[t] # <<>>
  <2>1. out.accepted \in [Tx -> Seq(Answer)]
    BY <1>1 DEF OutType
  <2>2. Append(out.accepted[t], d) # <<>>
    BY <1>2, <2>1
  <2> QED
    BY <1>4, <2>1, <2>2
<1>9. Grown(out, out')
  BY <1>4, <1>7 DEF Grown
<1>10. packet \in Packet /\ Carries(packet, sure)
  BY DEF Packet, Carries, Record
<1>11. Sent(channel, sure)
  BY SentGrows DEF StreamInv
<1>12. CASE channel' = channel
  BY <1>1, <1>4, <1>6, <1>8, <1>9, <1>11, <1>12
<1>13. CASE channel' = [channel EXCEPT ![SubtaskOf[t]] = Append(@, packet)]
  <2> HIDE DEF packet
  <2>1. channel' \in [Subtask -> Seq(Packet)] /\ Sent(channel', sure)
    BY <1>1, <1>10, <1>11, <1>13, NewPacket
  <2> QED
    BY <1>4, <1>6, <1>8, <1>9, <2>1
<1> QED
  BY <1>12, <1>13 DEF Dispose

\* Reading a raw record: everybody else's is as it was.
LEMMA ReadStep ==
  ASSUME StreamAssumption, StreamInv, StreamType', NEW t \in Tx, UNCHANGED checkpoint,
         Grown(out, out'), out'.retry = out.retry, out'.dlq \in {out.dlq, out.dlq \cup ({t} \cap Malformed)},
         \A x \in Tx : x # t => offsets'.raw[x] = offsets.raw[x],
         offsets'.retry = offsets.retry,
         state'.history = state.history, state'.seen \in {state.seen, state.seen \cup {t}},
         offsets'.raw[t] > offsets.raw[t] \/ state'.seen # state.seen =>
           (t \in out'.dlq /\ state'.seen = state.seen) \/ (t \notin Malformed /\ out'.accepted[t] # <<>>),
         Sent(channel', Sure)
  PROVE  StreamInv'
<1>1. Sure' = Sure
  BY SameSure
<1>2. ASSUME NEW x \in Tx PROVE Kept(offsets', state', out', Sure', x)
  <2>1. Kept(offsets, state, out, Sure, x) /\ offsets \in OffsetsType /\ offsets' \in OffsetsType
    BY DEF StreamInv, StreamType
  <2>2. Kept(offsets, state, out', Sure, x)
    <3>1. x \in out'.dlq \ Malformed => x \in out.dlq \ Malformed
      OBVIOUS
    <3>2. \A n \in 1 .. MaxRetries : out'.retry[<<x, n>>] > 0 => Reached(Sure, x, n - 1)
      BY <2>1 DEF Kept
    <3>3. x \in out'.dlq \ Malformed => Reached(Sure, x, MaxRetries)
      BY <2>1, <3>1 DEF Kept
    <3> QED
      BY <2>1, <3>2, <3>3, KeptGrows
  <2>3. offsets.raw[x] \in Nat /\ offsets'.raw[x] \in Nat
    BY <2>1 DEF OffsetsType
  <2>4. offsets'.raw[x] > 0 => x \in out'.dlq \/ (x \notin Malformed /\ out'.accepted[x] # <<>>)
    BY <2>2, <2>3 DEF Kept
  <2>5. x \in state'.seen => x \notin Malformed /\ out'.accepted[x] # <<>>
    BY <2>2 DEF Kept
  <2> QED
    BY <1>1, <2>2, <2>4, <2>5 DEF Kept
<1> QED
  BY <1>1, <1>2, GrowthStep DEF StreamInv

-----------------------------------------------------------------------------
(* The actions.                                                            *)

LEMMA ReadMalformedInv ==
  ASSUME StreamAssumption, StreamInv, NEW t \in Tx, ReadMalformed(t)
  PROVE  StreamInv'
<1>1. out \in OutType /\ offsets \in OffsetsType /\ t \in Malformed
  BY DEF StreamInv, StreamType, ReadMalformed
<1>2. /\ out' \in OutType /\ out'.accepted = out.accepted /\ out'.retry = out.retry
      /\ out'.dlq = out.dlq \cup {t}
  BY <1>1 DEF ReadMalformed, OutType
<1>3. Grown(out, out')
  BY <1>2 DEF Grown
<1>4. /\ offsets' \in OffsetsType /\ offsets'.retry = offsets.retry
      /\ \A x \in Tx : x # t => offsets'.raw[x] = offsets.raw[x]
  BY <1>1 DEF ReadMalformed, OffsetsType
<1>5. StreamType'
  BY <1>2, <1>4 DEF StreamInv, StreamType, ReadMalformed
<1>6. Sent(channel', Sure)
  BY DEF StreamInv, ReadMalformed
<1>7. t \in out'.dlq /\ {t} \cap Malformed = {t} /\ UNCHANGED <<state, checkpoint>>
  BY <1>1, <1>2 DEF ReadMalformed
<1> QED
  BY <1>2, <1>3, <1>4, <1>5, <1>6, <1>7, ReadStep

LEMMA ReadDuplicateInv ==
  ASSUME StreamAssumption, StreamInv, NEW t \in Tx, ReadDuplicate(t)
  PROVE  StreamInv'
<1>1. offsets \in OffsetsType /\ t \notin Malformed /\ out.accepted[t] # <<>>
  BY DEF StreamInv, StreamType, ReadDuplicate, Kept
<1>2. /\ offsets' \in OffsetsType /\ offsets'.retry = offsets.retry
      /\ \A x \in Tx : x # t => offsets'.raw[x] = offsets.raw[x]
  <2>1. offsets \in OffsetsType /\ offsets' = [offsets EXCEPT !.raw[t] = @ + 1]
    BY <1>1 DEF ReadDuplicate
  <2>2. offsets'.raw = [offsets.raw EXCEPT ![t] = @ + 1] /\ offsets'.retry = offsets.retry
    BY <2>1 DEF OffsetsType
  <2>3. offsets'.raw \in [Tx -> Nat]
    BY <2>1, <2>2 DEF OffsetsType
  <2>4. offsets' \in OffsetsType
    BY <2>1, <2>2, <2>3 DEF OffsetsType
  <2> QED
    BY <2>1, <2>2, <2>4 DEF OffsetsType
<1>3. StreamType' /\ UNCHANGED <<state, out, channel, checkpoint>>
  BY <1>2 DEF StreamInv, StreamType, ReadDuplicate
<1>4. Sent(channel', Sure)
  BY <1>3 DEF StreamInv
<1> QED
  BY <1>1, <1>2, <1>3, <1>4, Unchanged, ReadStep

LEMMA ReadNewInv ==
  ASSUME StreamAssumption, StreamInv, NEW t \in Tx, ReadNew(t)
  PROVE  StreamInv'
<1>1. offsets \in OffsetsType /\ state \in StateType /\ t \notin Malformed
  BY DEF StreamInv, StreamType, ReadNew
<1>2. /\ offsets' \in OffsetsType /\ offsets'.retry = offsets.retry
      /\ \A x \in Tx : x # t => offsets'.raw[x] = offsets.raw[x]
  <2>1. offsets' = [offsets EXCEPT !.raw[t] = @ + 1]
    BY DEF ReadNew
  <2> QED
    BY <1>1, <2>1 DEF OffsetsType
<1>3. /\ state' \in StateType /\ state'.history = state.history
      /\ state'.seen = state.seen \cup {t}
  BY <1>1 DEF ReadNew, StateType
<1>4. 0 \in Count /\ Reached(Sure, t, 0)
  BY Bounds DEF Count, Reached
<1>5. /\ out' \in OutType /\ channel' \in [Subtask -> Seq(Packet)] /\ Grown(out, out')
      /\ out'.retry = out.retry /\ out'.dlq = out.dlq /\ out'.accepted[t] # <<>>
      /\ Sent(channel', Sure)
  BY <1>4, Disposed DEF ReadNew
<1>6. StreamType' /\ UNCHANGED checkpoint
  BY <1>2, <1>3, <1>5 DEF StreamInv, StreamType, ReadNew
<1> QED
  BY <1>1, <1>2, <1>3, <1>5, <1>6, ReadStep

\* A retry that is read is published for good, as those before it were.
LEMMA ReadRetryInv ==
  ASSUME StreamAssumption, StreamInv, NEW t \in Tx, NEW n \in 1 .. MaxRetries, ReadRetry(t, n)
  PROVE  StreamInv'
<1>1. /\ offsets \in OffsetsType /\ <<t, n>> \in Attempt /\ n \in Count
      /\ out \in OutType /\ Kept(offsets, state, out, Sure, t)
  BY Bounds DEF StreamInv, StreamType, Count
<1>2. /\ offsets' \in OffsetsType /\ offsets'.raw = offsets.raw
      /\ offsets'.retry = [offsets.retry EXCEPT ![<<t, n>>] = @ + 1]
      /\ UNCHANGED checkpoint
  BY <1>1 DEF ReadRetry, OffsetsType
<1>3. offsets.retry[<<t, n>>] \in Nat /\ out.retry[<<t, n>>] \in Nat /\ out.retry[<<t, n>>] > 0
  <2>1. offsets.retry[<<t, n>>] \in Nat /\ out.retry[<<t, n>>] \in Nat
    BY <1>1 DEF OffsetsType, OutType
  <2> QED
    BY <2>1 DEF ReadRetry
<1>4. Sure' = Sure \cup {<<t, n>>}
  <2>1. offsets.retry \in [Attempt -> Nat]
    BY <1>1 DEF OffsetsType
  <2>2. \A a \in Attempt : offsets'.retry[a] > 0 <=> (offsets.retry[a] > 0 \/ a = <<t, n>>)
    BY <1>1, <1>2, <1>3, <2>1
  <2> QED
    BY <1>1, <1>2, <2>2 DEF Sure
<1>5. Reached(Sure', t, n)
  <2>1. Reached(Sure, t, n - 1)
    BY <1>1, <1>3 DEF Kept
  <2> QED
    BY <1>4, <2>1, Bounds DEF Reached
<1>6. /\ out' \in OutType /\ channel' \in [Subtask -> Seq(Packet)] /\ Grown(out, out')
      /\ out'.retry = out.retry /\ out'.dlq = out.dlq /\ Sent(channel', Sure')
  BY <1>1, <1>4, <1>5, Disposed DEF ReadRetry
<1>7. StreamType' /\ UNCHANGED <<state, checkpoint>>
  BY <1>2, <1>6 DEF StreamInv, StreamType, ReadRetry
<1>8. \A a \in Sure' : out'.retry[a] > 0
  BY <1>3, <1>4, <1>6 DEF StreamInv
<1>9. ASSUME NEW x \in Tx PROVE Kept(offsets', state', out', Sure', x)
  <2>1. Kept(offsets, state, out, Sure, x)
    BY DEF StreamInv
  <2>2. \A m \in 1 .. MaxRetries : out'.retry[<<x, m>>] > 0 => Reached(Sure', x, m - 1)
    BY <1>4, <1>6, <2>1 DEF Kept, Reached
  <2>3. x \in out'.dlq \ Malformed => Reached(Sure', x, MaxRetries)
    BY <1>4, <1>6, <2>1 DEF Kept, Reached
  <2>4. Kept(offsets, state, out', Sure', x)
    BY <1>4, <1>6, <2>1, <2>2, <2>3, KeptGrows
  <2> QED
    BY <1>2, <1>7, <2>4 DEF Kept
<1> QED
  BY <1>6, <1>7, <1>8, <1>9, GrowthStep

LEMMA ExpireInv ==
  ASSUME StreamAssumption, StreamInv, NEW t \in Tx, Expire(t)
  PROVE  StreamInv'
<1>1. state \in StateType /\ UNCHANGED <<offsets, out, channel, checkpoint>>
  BY DEF StreamInv, StreamType, Expire
<1>2. state' \in StateType /\ state'.history = state.history /\ state'.seen \subseteq state.seen
  BY <1>1 DEF Expire, StateType
<1>3. StreamType' /\ Sure' = Sure
  BY <1>1, <1>2, SameSure DEF StreamInv, StreamType
<1>4. \A x \in Tx : Kept(offsets', state', out', Sure', x)
  BY <1>1, <1>2, <1>3 DEF StreamInv, Kept
<1> QED
  BY <1>1, <1>3, <1>4, Unchanged, GrowthStep DEF StreamInv

\* A watermark or an idle mark is sent on.
LEMMA SignalInv ==
  ASSUME StreamAssumption, StreamInv, NEW s \in Subtask, NEW packet \in Packet,
         "tx" \notin DOMAIN packet, UNCHANGED <<offsets, state, out, checkpoint>>,
         channel' = [channel EXCEPT ![s] = Append(@, packet)]
  PROVE  StreamInv'
<1>1. channel \in [Subtask -> Seq(Packet)] /\ Sure' = Sure /\ Carries(packet, Sure)
  BY SameSure DEF StreamInv, StreamType, Carries, Record
<1>2. channel' \in [Subtask -> Seq(Packet)] /\ Sent(channel', Sure)
  BY <1>1, NewPacket DEF StreamInv
<1>3. StreamType'
  BY <1>2 DEF StreamInv, StreamType
<1>4. \A x \in Tx : Kept(offsets', state', out', Sure', x)
  BY <1>1 DEF StreamInv
<1> QED
  BY <1>1, <1>2, <1>3, <1>4, Unchanged, GrowthStep DEF StreamInv

LEMMA WatermarkInv ==
  ASSUME StreamAssumption, StreamInv, NEW s \in Subtask, NEW w \in Nat, Watermark(s, w)
  PROVE  StreamInv'
<1>1. [mark |-> w] \in Packet /\ "tx" \notin DOMAIN [mark |-> w]
  BY DEF Packet
<1> QED
  BY <1>1, SignalInv DEF Watermark

LEMMA IdleInv ==
  ASSUME StreamAssumption, StreamInv, NEW s \in Subtask, Idle(s)
  PROVE  StreamInv'
<1>1. [idle |-> TRUE] \in Packet /\ "tx" \notin DOMAIN [idle |-> TRUE]
  BY DEF Packet
<1> QED
  BY <1>1, SignalInv DEF Idle

LEMMA Inserted ==
  ASSUME StreamAssumption, StreamInv, NEW t \in Tx, NEW count \in Count, Reached(Sure, t, count),
         state' = Insert(t, count)
  PROVE  state' \in StateType /\ \A x \in Tx : Kept(offsets, state', out, Sure, x)
<1>1. state \in StateType /\ EventTime[t] \in Nat
  BY Bounds DEF StreamInv, StreamType
<1> DEFINE history == [k \in StateKey |->
             IF k \in KeysOf[t] THEN [state.history[k] EXCEPT ![t] = count] ELSE state.history[k]]
<1> DEFINE pending == [k \in StateKey |->
             IF k \in KeysOf[t] THEN state.pending[k] \cup {EventTime[t]} ELSE state.pending[k]]
<1>2. state' = [state EXCEPT !.history = history, !.pending = pending]
  BY DEF Insert
<1>3. /\ history \in [StateKey -> [Tx -> Count \cup {Absent}]]
      /\ \A k \in StateKey, x \in Tx :
           history[k][x] = state.history[k][x] \/ (x = t /\ history[k][x] = count)
  BY <1>1 DEF StateType
<1>4. pending \in [StateKey -> SUBSET Nat]
  BY <1>1 DEF StateType
<1> HIDE DEF history, pending
<1>5. /\ state' \in StateType /\ state'.history = history /\ state'.seen = state.seen
  BY <1>1, <1>2, <1>3, <1>4 DEF StateType
<1>6. ASSUME NEW x \in Tx PROVE Kept(offsets, state', out, Sure, x)
  <2>1. Kept(offsets, state, out, Sure, x)
    BY DEF StreamInv
  <2>2. ASSUME NEW k \in StateKey PROVE Reached(Sure, x, state'.history[k][x])
    <3>1. history[k][x] = state.history[k][x] \/ (x = t /\ history[k][x] = count)
      BY <1>3
    <3>2. Reached(Sure, x, state.history[k][x])
      BY <2>1 DEF Kept
    <3> QED
      BY <1>5, <3>1, <3>2
  <2> QED
    BY <1>5, <2>1, <2>2 DEF Kept
<1> QED
  BY <1>5, <1>6

LEMMA ReceiveInv ==
  ASSUME StreamAssumption, StreamInv, NEW s \in Subtask, Receive(s)
  PROVE  StreamInv'
<1> DEFINE m == Head(channel[s])
<1>1. /\ channel \in [Subtask -> Seq(Packet)] /\ channel[s] # <<>>
      /\ channel' = [channel EXCEPT ![s] = Tail(@)]
      /\ UNCHANGED <<offsets, out, checkpoint>>
  BY DEF Receive, StreamInv, StreamType
<1>2. channel' \in [Subtask -> Seq(Packet)] /\ Sure' = Sure
  BY <1>1, SameSure
<1>3. 1 \in DOMAIN channel[s] /\ m = channel[s][1] /\ m \in Packet
  BY <1>1
<1>4. Sent(channel', Sure)
  <2> SUFFICES ASSUME NEW x \in Subtask, NEW i \in DOMAIN channel'[x]
               PROVE  Carries(channel'[x][i], Sure)
    BY DEF Sent
  <2>1. \E j \in DOMAIN channel[x] : channel'[x][i] = channel[x][j]
    <3>1. CASE x = s
      <4>1. channel'[x] = Tail(channel[s]) /\ channel[s] \in Seq(Packet)
        BY <1>1, <3>1
      <4>2. i + 1 \in DOMAIN channel[s] /\ Tail(channel[s])[i] = channel[s][i + 1]
        BY <1>1, <4>1
      <4> QED
        BY <3>1, <4>1, <4>2
    <3>2. CASE x # s
      BY <1>1, <3>2
    <3> QED
      BY <3>1, <3>2
  <2> QED
    BY <2>1 DEF StreamInv, Sent
<1>5. state' \in StateType /\ \A x \in Tx : Kept(offsets, state', out, Sure, x)
  <2>1. CASE state' = state
    BY <2>1 DEF StreamInv, StreamType
  <2>2. CASE "tx" \in DOMAIN m /\ state' = Insert(m.tx, m.count)
    <3>1. m.tx \in Tx /\ m.count \in Count
      BY <1>3, <2>2, Kinds DEF Record
    <3>2. Reached(Sure, m.tx, m.count)
      BY <1>3, <2>2 DEF StreamInv, Sent, Carries, Record
    <3> QED
      BY <2>2, <3>1, <3>2, Inserted
  <2> QED
    BY <2>1, <2>2 DEF Receive
<1>6. StreamType'
  BY <1>1, <1>2, <1>5 DEF StreamInv, StreamType
<1>7. \A x \in Tx : Kept(offsets', state', out', Sure', x)
  BY <1>1, <1>2, <1>5
<1> QED
  BY <1>1, <1>2, <1>4, <1>6, <1>7, Unchanged, GrowthStep DEF StreamInv

\* The topics after a timer: those of the group are asked again, or dead.
LEMMA AnsweredKeeps ==
  ASSUME StreamAssumption, StreamInv, NEW k \in StateKey, NEW at \in Nat
  PROVE  /\ Answered(k, at) \in OutType /\ Grown(out, Answered(k, at))
         /\ \A t \in Tx : Kept(offsets, state, Answered(k, at), Sure, t)
<1> DEFINE window == Snapshot(k, at)
<1> DEFINE group == Group(k, at)
<1> DEFINE again == {<<t, state.history[k][t] + 1>> : t \in group}
<1> DEFINE o == Answered(k, at)
<1>1. out \in OutType /\ state \in StateType /\ \A t \in Tx : Kept(offsets, state, out, Sure, t)
  BY DEF StreamInv, StreamType
<1>2. window \subseteq Tx /\ group \subseteq Tx /\ \A t \in group : state.history[k][t] \in Count
  BY <1>1 DEF Snapshot, Group, InState, StateType
<1>3. CASE ~ Fails(k, window)
  <2> DEFINE rows == {[key |-> k, at |-> at, tx |-> t, window |-> window] : t \in group}
  <2>1. o = [out EXCEPT !.online = @ \cup rows]
    BY <1>3 DEF Answered
  <2>2. rows \subseteq [key : StateKey, at : Nat, tx : Tx, window : SUBSET Tx]
    BY <1>2
  <2> HIDE DEF rows, o
  <2>3. /\ o \in OutType /\ o.accepted = out.accepted /\ o.retry = out.retry /\ o.dlq = out.dlq
    BY <1>1, <2>1, <2>2 DEF OutType
  <2>4. Grown(out, o)
    BY <2>3 DEF Grown
  <2>5. \A t \in Tx : Kept(offsets, state, o, Sure, t)
    BY <1>1, <2>3 DEF Kept
  <2> QED
    BY <2>3, <2>4, <2>5 DEF o
<1>4. CASE Fails(k, window)
  <2> DEFINE retry == [a \in Attempt |-> IF a \in again THEN out.retry[a] + 1 ELSE out.retry[a]]
  <2> DEFINE dead == {t \in group : state.history[k][t] + 1 > MaxRetries}
  <2> DEFINE failed == {<<k, t>> : t \in group}
  <2>1. o = [out EXCEPT !.retry = retry, !.dlq = @ \cup dead, !.failed = @ \cup failed]
    BY <1>4 DEF Answered
  <2>2. retry \in [Attempt -> Nat] /\ (\A a \in Attempt : out.retry[a] > 0 => retry[a] > 0)
        /\ (\A a \in Attempt : retry[a] > 0 => out.retry[a] > 0 \/ a \in again)
    BY <1>1 DEF OutType
  <2>3. dead \subseteq Tx /\ failed \subseteq StateKey \X Tx
    BY <1>2
  <2> HIDE DEF retry, failed, o
  <2>4. /\ o \in OutType /\ o.accepted = out.accepted /\ o.retry = retry /\ o.dlq = out.dlq \cup dead
    BY <1>1, <2>1, <2>2, <2>3 DEF OutType
  <2>5. Grown(out, o)
    BY <2>2, <2>4 DEF Grown
  <2>6. ASSUME NEW t \in Tx PROVE Kept(offsets, state, o, Sure, t)
    <3>1. Kept(offsets, state, out, Sure, t)
      BY <1>1
    <3>2. ASSUME NEW n \in 1 .. MaxRetries, o.retry[<<t, n>>] > 0 PROVE Reached(Sure, t, n - 1)
      <4>1. <<t, n>> \in Attempt
        BY Bounds
      <4>2. CASE out.retry[<<t, n>>] > 0
        BY <3>1, <4>2 DEF Kept
      <4>3. CASE <<t, n>> \in again
        <5>1. PICK x \in group : <<t, n>> = <<x, state.history[k][x] + 1>>
          BY <4>3
        <5>2. t \in group /\ n = state.history[k][t] + 1 /\ state.history[k][t] \in Count
          BY <1>2, <5>1
        <5>3. Reached(Sure, t, state.history[k][t]) /\ n - 1 = state.history[k][t]
          BY <3>1, <5>2, Bounds DEF Kept, Count
        <5> QED
          BY <5>3
      <4> QED
        BY <2>2, <2>4, <3>2, <4>1, <4>2, <4>3
    <3>3. ASSUME t \in o.dlq \ Malformed PROVE Reached(Sure, t, MaxRetries)
      <4>1. CASE t \in out.dlq
        BY <3>1, <3>3, <4>1 DEF Kept
      <4>2. CASE t \in dead
        <5>1. state.history[k][t] \in Count /\ state.history[k][t] + 1 > MaxRetries
          BY <1>2, <4>2
        <5>2. state.history[k][t] = MaxRetries
          BY <5>1, Bounds DEF Count
        <5> QED
          BY <3>1, <5>2 DEF Kept
      <4> QED
        BY <2>4, <3>3, <4>1, <4>2
    <3> QED
      BY <2>5, <3>1, <3>2, <3>3, KeptGrows
  <2> QED
    BY <2>4, <2>5, <2>6 DEF o
<1> QED
  BY <1>3, <1>4

LEMMA FireInv ==
  ASSUME StreamAssumption, StreamInv, NEW k \in StateKey, Fire(k)
  PROVE  StreamInv'
<1> DEFINE at == SetMin(Due(k))
<1>1. state \in StateType /\ UNCHANGED <<offsets, channel, checkpoint>> /\ Sure' = Sure
  BY SameSure DEF StreamInv, StreamType, Fire
<1>2. Due(k) \subseteq Nat /\ Due(k) # {}
  BY <1>1 DEF Due, StateType, Fire
<1>3. at \in Nat
  BY <1>2, SetMinIsLeast DEF Clock
<1> DEFINE kept == [t \in Tx |-> IF EventTime[t] < at - HistoryTtl THEN Absent ELSE state.history[k][t]]
<1>4. /\ out' = Answered(k, at)
      /\ state' = [state EXCEPT !.history[k] = kept, !.pending[k] = @ \ {at}]
  BY DEF Fire
<1>5. kept \in [Tx -> Count \cup {Absent}] /\ \A t \in Tx : kept[t] \in {Absent, state.history[k][t]}
  BY <1>1 DEF StateType
<1> HIDE DEF kept, at
<1>6. /\ state' \in StateType /\ state'.seen = state.seen
      /\ \A x \in StateKey, t \in Tx : state'.history[x][t] \in {Absent, state.history[x][t]}
  <2>1. /\ state'.seen = state.seen
        /\ state'.history = [state.history EXCEPT ![k] = kept]
        /\ state'.pending = [state.pending EXCEPT ![k] = @ \ {at}]
        /\ state' = [seen |-> state'.seen, history |-> state'.history, pending |-> state'.pending]
    BY <1>1, <1>4 DEF StateType
  <2>2. /\ state'.history \in [StateKey -> [Tx -> Count \cup {Absent}]]
        /\ \A x \in StateKey, t \in Tx : state'.history[x][t] \in {Absent, state.history[x][t]}
    BY <1>1, <1>5, <2>1 DEF StateType
  <2>3. state'.pending \in [StateKey -> SUBSET Nat]
    BY <1>1, <2>1 DEF StateType
  <2> QED
    BY <1>1, <2>1, <2>2, <2>3 DEF StateType
<1>7. /\ out' \in OutType /\ Grown(out, out')
      /\ \A t \in Tx : Kept(offsets, state, out', Sure, t)
  BY <1>3, <1>4, AnsweredKeeps
<1>8. ASSUME NEW t \in Tx PROVE Kept(offsets', state', out', Sure', t)
  <2>1. Kept(offsets, state, out', Sure, t)
    BY <1>7
  <2>2. ASSUME NEW x \in StateKey PROVE Reached(Sure, t, state'.history[x][t])
    <3>1. Reached(Sure, t, Absent)
      BY Bounds DEF Reached, Absent
    <3>2. Reached(Sure, t, state.history[x][t])
      BY <2>1 DEF Kept
    <3>3. state'.history[x][t] \in {Absent, state.history[x][t]}
      BY <1>6
    <3> QED
      BY <3>1, <3>2, <3>3
  <2> QED
    BY <1>1, <1>6, <2>1, <2>2 DEF Kept
<1>9. StreamType'
  BY <1>1, <1>6, <1>7 DEF StreamInv, StreamType
<1>10. \A a \in Sure' : out'.retry[a] > 0
  BY <1>1, <1>7 DEF StreamInv, Grown, Sure
<1> QED
  BY <1>1, <1>7, <1>8, <1>9, <1>10, GrowthStep DEF StreamInv

\* A checkpoint makes every retry that is published a sure one.
LEMMA CheckpointInv ==
  ASSUME StreamAssumption, StreamInv, Checkpoint
  PROVE  StreamInv'
<1>1. /\ UNCHANGED <<offsets, state, out, channel>>
      /\ checkpoint' = [offsets |-> offsets, state |-> state, out |-> out]
  BY DEF Checkpoint
<1>2. StreamType'
  BY <1>1 DEF StreamInv, StreamType
<1>3. Sure \subseteq Sure' /\ Secured' = {a \in Attempt : out.retry[a] > 0} /\ Sure' = Secured'
  BY <1>1 DEF StreamInv, Sure, Secured
<1>4. ASSUME NEW t \in Tx PROVE Kept(offsets, state, out, Sure', t)
  <2>1. Kept(offsets, state, out, Sure, t)
    BY DEF StreamInv
  <2>2. /\ \A n \in 1 .. MaxRetries : out.retry[<<t, n>>] > 0 => Reached(Sure', t, n - 1)
        /\ t \in out.dlq \ Malformed => Reached(Sure', t, MaxRetries)
    BY <1>3, <2>1 DEF Kept, Reached
  <2> QED
    BY <1>3, <2>1, <2>2, Unchanged, KeptGrows
<1>5. \A t \in Tx : Kept(offsets, state, out, Sure, t)'
  BY <1>1, <1>4
<1>6. \A t \in Tx : Kept(checkpoint.offsets, checkpoint.state, checkpoint.out, Secured, t)'
  BY <1>1, <1>3, <1>4
<1>7. Grown(checkpoint.out, out)'
  BY <1>1 DEF Grown
<1>8. Sent(channel, Sure)'
  BY <1>1, <1>3, SentGrows DEF StreamInv
<1>9. \A a \in Attempt : checkpoint'.offsets.retry[a] > 0 => a \in Secured'
  BY <1>1, <1>3 DEF Sure
<1>10. \A a \in Sure' : out'.retry[a] > 0
  BY <1>1, <1>3
<1> QED
  BY <1>2, <1>5, <1>6, <1>7, <1>8, <1>9, <1>10 DEF StreamInv

LEMMA SetMaxOfTwo ==
  ASSUME NEW a \in Nat, NEW b \in Nat
  PROVE  SetMax({a, b}) \in {a, b} /\ a <= SetMax({a, b}) /\ b <= SetMax({a, b})
<1>1. \E x \in {a, b} : \A y \in {a, b} : y <= x
  <2>1. CASE a <= b
    BY <2>1
  <2>2. CASE b <= a
    BY <2>2
  <2> QED
    BY <2>1, <2>2
<1> QED
  BY <1>1 DEF SetMax

\* What the sinks leave of the topics: at least what the checkpoint holds and the retries
\* that were read, at most what they were given.
LEMMA Survives ==
  ASSUME StreamAssumption, StreamInv, NEW o \in Surviving
  PROVE  /\ o \in OutType
         /\ \A t \in Tx : o.accepted[t] \in {out.accepted[t], checkpoint.out.accepted[t]}
         /\ checkpoint.out.late \subseteq o.late
         /\ checkpoint.out.online \subseteq o.online /\ o.online \subseteq out.online \cup checkpoint.out.online
         /\ checkpoint.out.dlq \subseteq o.dlq /\ o.dlq \subseteq out.dlq
         /\ \A a \in Attempt : o.retry[a] > 0 => out.retry[a] > 0
         /\ \A a \in Sure : o.retry[a] > 0
<1> DEFINE sure(a) == SetMax({checkpoint.out.retry[a], offsets.retry[a]})
<1>1. /\ offsets \in OffsetsType /\ out \in OutType /\ checkpoint.out \in OutType
      /\ checkpoint.out.dlq \subseteq out.dlq /\ \A a \in Sure : out.retry[a] > 0
  BY DEF StreamInv, StreamType, Grown
<1>2. ASSUME NEW a \in Attempt
      PROVE  /\ sure(a) \in Nat /\ (a \in Sure => sure(a) > 0) /\ (sure(a) > 0 => a \in Sure)
             /\ out.retry[a] \in Nat
  <2>1. checkpoint.out.retry[a] \in Nat /\ offsets.retry[a] \in Nat /\ out.retry[a] \in Nat
    BY <1>1 DEF OutType, OffsetsType
  <2>2. /\ sure(a) \in {checkpoint.out.retry[a], offsets.retry[a]}
        /\ checkpoint.out.retry[a] <= sure(a) /\ offsets.retry[a] <= sure(a)
    BY <2>1, SetMaxOfTwo
  <2> HIDE DEF sure
  <2> QED
    BY <2>1, <2>2 DEF Sure
<1> HIDE DEF sure
<1>3. PICK lost \in SUBSET Tx :
        o.accepted = [t \in Tx |-> IF t \in lost THEN checkpoint.out.accepted[t] ELSE out.accepted[t]]
  BY DEF Surviving
<1>4. PICK unsent \in SUBSET Attempt :
        o.retry = [a \in Attempt |-> IF a \in unsent THEN sure(a) ELSE out.retry[a]]
  BY DEF Surviving, sure
<1>5. /\ o.late \in Between(checkpoint.out.late, out.late)
      /\ o.online \in Between(checkpoint.out.online, out.online)
      /\ o.dlq \in Between(checkpoint.out.dlq, out.dlq) /\ o.failed = out.failed
      /\ o = [accepted |-> o.accepted, late |-> o.late, online |-> o.online, retry |-> o.retry,
              dlq |-> o.dlq, failed |-> o.failed]
  BY DEF Surviving
<1>6. /\ o.accepted \in [Tx -> Seq(Answer)]
      /\ \A t \in Tx : o.accepted[t] \in {out.accepted[t], checkpoint.out.accepted[t]}
  BY <1>1, <1>3 DEF OutType
<1>7. /\ o.retry \in [Attempt -> Nat]
      /\ \A a \in Attempt : o.retry[a] > 0 => out.retry[a] > 0
      /\ \A a \in Sure : o.retry[a] > 0
  BY <1>1, <1>2, <1>4 DEF Sure
<1>8. /\ checkpoint.out.late \subseteq o.late /\ o.late \subseteq out.late \cup checkpoint.out.late
      /\ checkpoint.out.online \subseteq o.online /\ o.online \subseteq out.online \cup checkpoint.out.online
      /\ checkpoint.out.dlq \subseteq o.dlq /\ o.dlq \subseteq out.dlq
  BY <1>1, <1>5 DEF Between
<1>9. o \in OutType
  BY <1>1, <1>5, <1>6, <1>7, <1>8 DEF OutType
<1> QED
  BY <1>6, <1>7, <1>8, <1>9

LEMMA RestartInv ==
  ASSUME StreamAssumption, StreamInv, Restart
  PROVE  StreamInv'
<1>1. /\ offsets' = checkpoint.offsets /\ state' = checkpoint.state
      /\ checkpoint' = [checkpoint EXCEPT !.out = out']
      /\ out' \in Surviving /\ channel' = [s \in Subtask |-> <<>>]
  BY DEF Restart, Restored
<1>2. /\ out' \in OutType
      /\ \A t \in Tx : out'.accepted[t] \in {out.accepted[t], checkpoint.out.accepted[t]}
      /\ checkpoint.out.dlq \subseteq out'.dlq /\ out'.dlq \subseteq out.dlq
      /\ \A a \in Attempt : out'.retry[a] > 0 => out.retry[a] > 0
      /\ \A a \in Sure : out'.retry[a] > 0
  BY <1>1, Survives
<1>3. /\ checkpoint'.offsets = checkpoint.offsets /\ checkpoint'.state = checkpoint.state
      /\ checkpoint'.out = out'
      /\ checkpoint \in [offsets : OffsetsType, state : StateType, out : OutType]
  BY <1>1 DEF StreamInv, StreamType
<1>4. StreamType'
  BY <1>1, <1>2, <1>3 DEF StreamInv, StreamType
<1>5. /\ Secured' = {a \in Attempt : out'.retry[a] > 0} /\ Secured \subseteq Secured'
      /\ Sure \subseteq Secured' /\ Sure' = Secured'
      /\ \A a \in Attempt : checkpoint.offsets.retry[a] > 0 => a \in Secured'
  <2>1. Secured' = {a \in Attempt : out'.retry[a] > 0}
    BY <1>3 DEF Secured
  <2>2. Secured \subseteq Sure /\ Sure \subseteq Attempt
    BY DEF Secured, Sure
  <2>3. \A a \in Attempt : checkpoint.offsets.retry[a] > 0 => a \in Secured
    BY DEF StreamInv
  <2>4. Sure' = {a \in Attempt : out'.retry[a] > 0 \/ checkpoint.offsets.retry[a] > 0}
    BY <1>1, <1>3 DEF Sure
  <2> QED
    BY <1>2, <2>1, <2>2, <2>3, <2>4
<1>6. Grown(checkpoint.out, out')
  <2>1. \A t \in Tx : checkpoint.out.accepted[t] # <<>> => out'.accepted[t] # <<>>
    BY <1>2 DEF StreamInv, Grown
  <2>2. \A a \in Attempt : checkpoint.out.retry[a] > 0 => out'.retry[a] > 0
    BY <1>2 DEF Sure
  <2> QED
    BY <1>2, <2>1, <2>2 DEF Grown
<1>7. ASSUME NEW t \in Tx PROVE Kept(checkpoint.offsets, checkpoint.state, out', Secured', t)
  <2>1. /\ Kept(checkpoint.offsets, checkpoint.state, checkpoint.out, Secured, t)
        /\ Kept(offsets, state, out, Sure, t)
    BY DEF StreamInv
  <2>2. \A n \in 1 .. MaxRetries : out'.retry[<<t, n>>] > 0 => Reached(Secured', t, n - 1)
    BY <1>2, <1>5, <2>1, Bounds DEF Kept, Reached
  <2>3. t \in out'.dlq \ Malformed => Reached(Secured', t, MaxRetries)
    BY <1>2, <1>5, <2>1 DEF Kept, Reached
  <2> QED
    BY <1>5, <1>6, <2>1, <2>2, <2>3, KeptGrows
<1>8. \A t \in Tx : Kept(offsets, state, out, Sure, t)'
  BY <1>1, <1>5, <1>7
<1>9. \A t \in Tx : Kept(checkpoint.offsets, checkpoint.state, checkpoint.out, Secured, t)'
  BY <1>3, <1>7
<1>10. Grown(checkpoint.out, out)'
  BY <1>3, Unchanged
<1>11. Sent(channel, Sure)'
  BY <1>1 DEF Sent
<1>12. \A a \in Sure' : out'.retry[a] > 0
  BY <1>5
<1> QED
  BY <1>3, <1>4, <1>5, <1>8, <1>9, <1>10, <1>11, <1>12 DEF StreamInv

-----------------------------------------------------------------------------
LEMMA InitInv ==
  ASSUME StreamAssumption, Init
  PROVE  StreamInv
<1>1. /\ offsets \in OffsetsType /\ state \in StateType /\ out \in OutType
      /\ channel \in [Subtask -> Seq(Packet)]
      /\ checkpoint = [offsets |-> offsets, state |-> state, out |-> out]
  BY DEF Init, OffsetsType, StateType, OutType
<1>2. StreamType
  BY <1>1 DEF StreamType
<1>3. (\A a \in Attempt : out.retry[a] = 0 /\ offsets.retry[a] = 0) /\ Sure = {} /\ Secured = {}
  <2>1. \A a \in Attempt : out.retry[a] = 0 /\ offsets.retry[a] = 0
    BY DEF Init
  <2> QED
    BY <1>1, <2>1 DEF Sure, Secured
<1>4. ASSUME NEW t \in Tx PROVE Kept(offsets, state, out, {}, t)
  <2>1. \A k \in StateKey : state.history[k][t] = -1
    BY DEF Init, Absent
  <2>2. \A n : n = -1 => Reached({}, t, n)
    BY Bounds DEF Reached
  <2>3. \A n \in 1 .. MaxRetries : out.retry[<<t, n>>] = 0
    BY Bounds DEF Init
  <2>4. offsets.raw[t] = 0 /\ state.seen = {} /\ out.dlq = {}
    BY DEF Init
  <2> QED
    BY <2>1, <2>2, <2>3, <2>4 DEF Kept
<1>5. /\ \A t \in Tx : Kept(offsets, state, out, Sure, t)
      /\ \A t \in Tx : Kept(checkpoint.offsets, checkpoint.state, checkpoint.out, Secured, t)
  BY <1>1, <1>3, <1>4
<1>6. Grown(checkpoint.out, out)
  BY <1>1, Unchanged
<1>7. Sent(channel, Sure)
  BY DEF Init, Sent
<1>8. \A a \in Attempt : checkpoint.offsets.retry[a] > 0 => a \in Secured
  BY <1>1, <1>3
<1> QED
  BY <1>2, <1>3, <1>5, <1>6, <1>7, <1>8 DEF StreamInv

LEMMA StepInv ==
  ASSUME StreamAssumption, StreamInv, [Next]_vars
  PROVE  StreamInv'
<1>1. CASE UNCHANGED vars
  <2>1. UNCHANGED <<offsets, state, out, channel, checkpoint>>
    BY <1>1 DEF vars
  <2>2. Sure' = Sure /\ Secured' = Secured
    BY <2>1 DEF Sure, Secured
  <2>3. StreamType' /\ Grown(checkpoint.out, out)' /\ Sent(channel, Sure)'
    BY <2>1, <2>2 DEF StreamInv, StreamType
  <2>4. \A t \in Tx : Kept(offsets, state, out, Sure, t)'
    BY <2>1, <2>2 DEF StreamInv
  <2>5. \A t \in Tx : Kept(checkpoint.offsets, checkpoint.state, checkpoint.out, Secured, t)'
    BY <2>1, <2>2 DEF StreamInv
  <2> QED
    BY <2>1, <2>2, <2>3, <2>4, <2>5 DEF StreamInv
<1>2. CASE \E t \in Tx : ReadMalformed(t) \/ ReadDuplicate(t) \/ ReadNew(t) \/ Expire(t)
  BY <1>2, ReadMalformedInv, ReadDuplicateInv, ReadNewInv, ExpireInv
<1>3. CASE \E t \in Tx, n \in 1 .. MaxRetries : ReadRetry(t, n)
  BY <1>3, ReadRetryInv
<1>4. CASE \E s \in Subtask : Receive(s) \/ Idle(s)
  BY <1>4, ReceiveInv, IdleInv
<1>5. CASE \E s \in Subtask : \E w \in 0 .. maxTime : Watermark(s, w)
  <2>1. PICK s \in Subtask, w \in 0 .. maxTime : Watermark(s, w)
    BY <1>5
  <2>2. w \in Nat
    OBVIOUS
  <2> QED
    BY <2>1, <2>2, WatermarkInv
<1>6. CASE \E k \in StateKey : Fire(k)
  BY <1>6, FireInv
<1>7. CASE Checkpoint \/ Restart
  BY <1>7, CheckpointInv, RestartInv
<1> QED
  BY <1>1, <1>2, <1>3, <1>4, <1>5, <1>6, <1>7 DEF Next, Streaming

\* What was read is in the topics, for the job and for its last checkpoint, in every state.
THEOREM StreamInvariance ==
  ASSUME StreamAssumption
  PROVE  Spec => []StreamInv
<1>1. Init => StreamInv
  BY InitInv
<1>2. StreamInv /\ [Next]_vars => StreamInv'
  BY StepInv
<1> QED
  BY <1>1, <1>2, PTL DEF Spec

\* No record the offsets have passed is lost to a restart, and none that parsed is dead
\* before each of its retries was published: for any watermarks, deduplication that forgets,
\* number of retries and restarts from any checkpoint, whatever each sink loses at one.
THEOREM ReadIsKeptHolds ==
  ASSUME StreamAssumption
  PROVE  Spec => []ReadIsKept
<1>1. ASSUME StreamInv, NEW t \in Tx, t \in out.dlq \ Malformed, NEW n \in 1 .. MaxRetries
      PROVE  out.retry[<<t, n>>] > 0
  BY <1>1, Bounds DEF StreamInv, Kept, Reached
<1>2. StreamInv => ReadIsKept
  BY <1>1 DEF StreamInv, Kept, ReadIsKept
<1> QED
  BY <1>2, StreamInvariance, PTL

-----------------------------------------------------------------------------
(* AcceptedOnce: what a step does to the accepted history.                 *)

LEMMA Classified ==
  ASSUME StreamAssumption, StreamInv, NEW t \in Tx, NEW count \in Count, Dispose(t, count),
         NEW d, d = Disposition(disposing[SubtaskOf[t]], EventTime[t])
  PROVE  /\ d \in Answer
         /\ out'.accepted = IF count = 0 THEN [out.accepted EXCEPT ![t] = Append(@, d)] ELSE out.accepted
         /\ count = 0 /\ d = "TOO_LATE" => out'.late = out.late \cup {t}
         /\ count # 0 \/ d # "TOO_LATE" => out'.late = out.late
         /\ out'.online = out.online /\ out'.retry = out.retry /\ out'.dlq = out.dlq
<1>1. out \in OutType
  BY DEF StreamInv, StreamType
<1>2. d \in Answer
  BY DEF Disposition, Answer
<1>3. out' = Published(t, count, d)
  BY DEF Dispose
<1>4. /\ out'.accepted = [out.accepted EXCEPT ![t] = IF count = 0 THEN Append(@, d) ELSE @]
      /\ out'.late = (IF count = 0 /\ d = "TOO_LATE" THEN out.late \cup {t} ELSE out.late)
      /\ out'.online = out.online /\ out'.retry = out.retry /\ out'.dlq = out.dlq
  BY <1>1, <1>3 DEF Published, OutType
<1>5. out.accepted \in [Tx -> Seq(Answer)]
  BY <1>1 DEF OutType
<1>6. out'.accepted = IF count = 0 THEN [out.accepted EXCEPT ![t] = Append(@, d)] ELSE out.accepted
  BY <1>4, <1>5
<1> QED
  BY <1>2, <1>4, <1>6

LEMMA AnsweredAccepts ==
  ASSUME StreamInv, NEW k, NEW at
  PROVE  Answered(k, at).accepted = out.accepted /\ Answered(k, at).late = out.late
<1>1. out \in OutType
  BY DEF StreamInv, StreamType
<1> QED
  BY <1>1 DEF Answered, OutType

LEMMA AcceptedMoves ==
  ASSUME StreamAssumption, StreamInv, [Next]_vars
  PROVE  \/ out'.accepted = out.accepted /\ (UNCHANGED checkpoint \/ checkpoint'.out = out)
         \/ /\ UNCHANGED checkpoint
            /\ \E t \in Tx \ state.seen, d \in Answer :
                 out'.accepted = [out.accepted EXCEPT ![t] = Append(@, d)]
         \/ /\ checkpoint'.out = out'
            /\ \A t \in Tx : out'.accepted[t] \in {out.accepted[t], checkpoint.out.accepted[t]}
<1>0. out \in OutType
  BY DEF StreamInv, StreamType
<1>1. CASE UNCHANGED <<out, checkpoint>>
  BY <1>1
<1>2. ASSUME NEW t \in Tx, ReadMalformed(t) PROVE out'.accepted = out.accepted /\ UNCHANGED checkpoint
  BY <1>0, <1>2 DEF ReadMalformed, OutType
<1>3. ASSUME NEW t \in Tx, ReadNew(t)
      PROVE  /\ UNCHANGED checkpoint
             /\ \E x \in Tx \ state.seen, d \in Answer :
                  out'.accepted = [out.accepted EXCEPT ![x] = Append(@, d)]
  <2>1. Dispose(t, 0) /\ 0 \in Count /\ t \notin state.seen /\ UNCHANGED checkpoint
    BY <1>3, Bounds DEF ReadNew, Count
  <2>2. PICK d : d = Disposition(disposing[SubtaskOf[t]], EventTime[t])
    OBVIOUS
  <2>3. d \in Answer /\ out'.accepted = [out.accepted EXCEPT ![t] = Append(@, d)]
    BY <2>1, <2>2, Classified
  <2> QED
    BY <2>1, <2>3
<1>4. ASSUME NEW t \in Tx, NEW n \in 1 .. MaxRetries, ReadRetry(t, n)
      PROVE  out'.accepted = out.accepted /\ UNCHANGED checkpoint
  <2>1. Dispose(t, n) /\ n \in Count /\ n # 0 /\ UNCHANGED checkpoint
    BY <1>4, Bounds DEF ReadRetry, Count
  <2> QED
    BY <2>1, Classified
<1>5. ASSUME NEW k \in StateKey, Fire(k) PROVE out'.accepted = out.accepted /\ UNCHANGED checkpoint
  BY <1>5, AnsweredAccepts DEF Fire
<1>6. CASE Checkpoint
  BY <1>6 DEF Checkpoint
<1>7. CASE Restart
  <2>1. out' \in Surviving /\ checkpoint' = [checkpoint EXCEPT !.out = out']
    BY <1>7 DEF Restart, Restored
  <2>2. checkpoint'.out = out'
    BY <2>1 DEF StreamInv, StreamType
  <2> QED
    BY <2>1, <2>2, Survives
<1>8. CASE UNCHANGED vars
  BY <1>1, <1>8 DEF vars
<1>9. ASSUME NEW t \in Tx, ReadDuplicate(t) \/ Expire(t) PROVE UNCHANGED <<out, checkpoint>>
  BY <1>9 DEF ReadDuplicate, Expire
<1>10. ASSUME NEW s \in Subtask, Receive(s) \/ Idle(s) \/ \E w \in 0 .. maxTime : Watermark(s, w)
       PROVE  UNCHANGED <<out, checkpoint>>
  BY <1>10 DEF Receive, Idle, Watermark
<1> QED
  BY <1>1, <1>2, <1>3, <1>4, <1>5, <1>6, <1>7, <1>8, <1>9, <1>10 DEF Next, Streaming

\* The accepted history is never shorter than that of the last checkpoint.
Longer == \A t \in Tx : Len(checkpoint.out.accepted[t]) <= Len(out.accepted[t])

LEMMA LongerStep ==
  ASSUME StreamAssumption, StreamInv, StreamInv', Longer, [Next]_vars
  PROVE  Longer' /\ AcceptsOnce
<1>1. /\ out.accepted \in [Tx -> Seq(Answer)] /\ out'.accepted \in [Tx -> Seq(Answer)]
      /\ checkpoint.out.accepted \in [Tx -> Seq(Answer)]
  BY DEF StreamInv, StreamType, OutType
<1>2. \A t \in Tx : Len(out.accepted[t]) \in Nat /\ Len(checkpoint.out.accepted[t]) \in Nat
  BY <1>1
<1>3. CASE out'.accepted = out.accepted /\ (UNCHANGED checkpoint \/ checkpoint'.out = out)
  BY <1>2, <1>3 DEF Longer, AcceptsOnce
<1>4. ASSUME UNCHANGED checkpoint, NEW t \in Tx \ state.seen, NEW d \in Answer,
             out'.accepted = [out.accepted EXCEPT ![t] = Append(@, d)]
      PROVE  Longer' /\ AcceptsOnce
  <2>1. \A x \in Tx : x # t => out'.accepted[x] = out.accepted[x]
    BY <1>1, <1>4
  <2>2. Len(out'.accepted[t]) = Len(out.accepted[t]) + 1
    BY <1>1, <1>4
  <2> QED
    BY <1>2, <1>4, <2>1, <2>2 DEF Longer, AcceptsOnce
<1>5. CASE /\ checkpoint'.out = out'
           /\ \A t \in Tx : out'.accepted[t] \in {out.accepted[t], checkpoint.out.accepted[t]}
  BY <1>2, <1>5 DEF Longer, AcceptsOnce
<1> QED
  BY <1>3, <1>4, <1>5, AcceptedMoves

\* A record enters the accepted history only while the deduplication does not remember its
\* transaction: no retry, restart or repeated delivery adds another.
THEOREM AcceptedOnceHolds ==
  ASSUME StreamAssumption
  PROVE  Spec => AcceptedOnce
<1>1. Init => Longer
  BY DEF Init, Longer
<1>2. StreamInv /\ StreamInv' /\ Longer /\ [Next]_vars => Longer' /\ [AcceptsOnce]_vars
  BY LongerStep
<1> QED
  BY <1>1, <1>2, StreamInvariance, PTL DEF Spec, AcceptedOnce

-----------------------------------------------------------------------------
(* SnapshotsStayFinal and LateStaysOffline, until the first restart.  A     *)
(* published snapshot is final because of the watermarks: what the channel  *)
(* of a subtask that never idles still holds is not behind any watermark    *)
(* before it, so a group is answered when nothing of its window is under    *)
(* way there or can still become eligible.  A record of another subtask may *)
(* come after everything of its window was evicted: what is kept of the     *)
(* evicted leaves out the groups of such a record.                          *)

Steady(t) == SubtaskOf[t] \notin Idling
SteadySubtask == Subtask \ Idling

\* p is not behind the watermark w.
NotBefore(p, w) == IF Mark(p) THEN w <= p.mark ELSE w - Lateness <= EventTime[p.tx]

Ordered(s) ==
  /\ arrived[s] <= disposing[s]
  /\ \A i \in DOMAIN channel[s] :
       /\ Mark(channel[s][i]) \/ Record(channel[s][i])
       /\ NotBefore(channel[s][i], arrived[s])
       /\ Mark(channel[s][i]) => channel[s][i].mark <= disposing[s]
       /\ \A j \in DOMAIN channel[s] :
            i < j /\ Mark(channel[s][i]) => NotBefore(channel[s][j], channel[s][i].mark)

\* A subtask that never idles always holds the clock back.
Waited(s) == s \notin idle /\ standing[s] = "aligned" /\ clock \in Clock /\ clock <= arrived[s]

\* Only eligible transactions are sent on, by their subtask, counted, asked for again or dead.
Held ==
  /\ \A s \in Subtask : \A i \in DOMAIN channel[s] :
       Record(channel[s][i]) => channel[s][i].tx \in Eligible /\ SubtaskOf[channel[s][i].tx] = s
  /\ \A k \in StateKey, t \in Tx : state.history[k][t] # Absent => k \in KeysOf[t] /\ t \in Eligible
  /\ \A t \in Tx, n \in 1 .. MaxRetries : out.retry[<<t, n>>] > 0 => t \in Eligible
  /\ out.dlq \ Malformed \subseteq Eligible

Underway(t) ==
  \E s \in Subtask : \E i \in DOMAIN channel[s] : Record(channel[s][i]) /\ channel[s][i].tx = t

\* All that is eligible for the group of a key at a time is of subtasks that never idle.
SteadyGroup(k, at) == \A t \in Eligible : k \in KeysOf[t] /\ EventTime[t] = at => Steady(t)

\* t is before the windows of all such groups still to be answered.
Evicted(k, t) ==
  /\ \A s \in SteadySubtask : EventTime[t] + HistoryTtl + Lateness + 1 < arrived[s]
  /\ \A at \in state.pending[k] : SteadyGroup(k, at) => EventTime[t] + HistoryTtl < at

\* An eligible transaction is on its way, or was counted by every key of it.
Counted(t) ==
  Underway(t) \/ \A k \in KeysOf[t] : state.history[k][t] # Absent \/ Evicted(k, t)

\* A published row is behind every watermark that was waited for.
RowsAreOld ==
  \A r \in out.online : r.tx \in Eligible /\ \A s \in SteadySubtask : r.at + Lateness + 1 <= arrived[s]

\* SnapshotsAreFinal, of one row.
DueTo(r) ==
  {t \in Eligible : r.key \in KeysOf[t] /\ r.at - Window <= EventTime[t] /\ EventTime[t] < r.at}

FinalRow(r) ==
  /\ r.window \subseteq DueTo(r)
  /\ SteadyGroup(r.key, r.at) => \A t \in DueTo(r) : Steady(t) => t \in r.window

\* What is on the late topic was never eligible, unless it was delivered twice.
LateOnly ==
  \A t \in Tx :
    /\ offsets.raw[t] = 0 => out.accepted[t] = <<>> /\ t \notin out.late
    /\ t \in out.late => t \notin Malformed /\ (Copies[t] = 1 => t \notin Eligible)

Clocks ==
  /\ arrived \in [Subtask -> Clock] /\ disposing \in [Subtask -> Clock]
  /\ standing \in [Subtask -> {"aligned", "behind", "idle"}]

Core ==
  /\ \A s \in SteadySubtask : Ordered(s) /\ Waited(s)
  /\ Held /\ RowsAreOld /\ \A r \in out.online : FinalRow(r)
  /\ \A t \in Eligible : Steady(t) => Counted(t)

FinalInv ==
  /\ Clocks /\ restarts \in Nat
  /\ restarts = 0 => Core /\ LateOnly

-----------------------------------------------------------------------------
LEMMA Numbers ==
  ASSUME StreamAssumption
  PROVE  /\ Lateness \in Nat /\ HistoryTtl \in Nat /\ Window \in Nat /\ Window <= HistoryTtl
  BY DEF StreamAssumption

LEMMA NotBeforeDown ==
  ASSUME StreamAssumption, NEW p \in Packet, Mark(p) \/ Record(p), NEW w \in Int, NEW v \in Int,
         v <= w, NotBefore(p, w)
  PROVE  NotBefore(p, v)
<1>1. CASE Mark(p)
  <2>1. p.mark \in Nat
    BY <1>1, Kinds
  <2> QED
    BY <1>1, <2>1 DEF NotBefore
<1>2. CASE Record(p)
  <2>1. ~ Mark(p) /\ EventTime[p.tx] \in Nat
    BY <1>2, Kinds, Bounds
  <2> QED
    BY <2>1, Numbers DEF NotBefore
<1> QED
  BY <1>1, <1>2

LEMMA EligibleSame ==
  ASSUME out'.accepted = out.accepted
  PROVE  Eligible' = Eligible
  BY DEF Eligible

LEMMA AppendOrder ==
  ASSUME StreamAssumption, NEW s \in Subtask, Ordered(s), Clocks, Clocks',
         channel[s] \in Seq(Packet), NEW p \in Packet, Mark(p) \/ Record(p),
         channel'[s] = Append(channel[s], p),
         arrived'[s] = arrived[s], disposing[s] <= disposing'[s],
         NotBefore(p, disposing[s]), Mark(p) => p.mark <= disposing'[s]
  PROVE  Ordered(s)'
<1>1. arrived[s] \in Int /\ disposing[s] \in Int /\ disposing'[s] \in Int
  BY DEF Clocks, Clock, NoTime
<1>2. arrived'[s] <= disposing'[s]
  BY <1>1 DEF Ordered
<1> DEFINE n == Len(channel[s])
<1>3. /\ n \in Nat /\ DOMAIN channel[s] = 1 .. n /\ DOMAIN channel'[s] = 1 .. (n + 1)
      /\ channel'[s][n + 1] = p /\ \A i \in 1 .. n : channel'[s][i] = channel[s][i] /\ channel[s][i] \in Packet
  OBVIOUS
<1> HIDE DEF n
<1>4. ASSUME NEW i \in DOMAIN channel'[s]
      PROVE  /\ Mark(channel'[s][i]) \/ Record(channel'[s][i])
             /\ NotBefore(channel'[s][i], arrived'[s])
             /\ Mark(channel'[s][i]) => channel'[s][i].mark <= disposing'[s]
             /\ \A j \in DOMAIN channel'[s] :
                  i < j /\ Mark(channel'[s][i]) => NotBefore(channel'[s][j], channel'[s][i].mark)
  <2>1. CASE i = n + 1
    <3>1. NotBefore(p, arrived[s])
      BY <1>1, NotBeforeDown DEF Ordered
    <3>2. \A j \in DOMAIN channel'[s] : ~ (i < j)
      BY <1>3, <2>1
    <3> QED
      BY <1>3, <2>1, <3>1, <3>2
  <2>2. CASE i \in 1 .. n
    <3>1. /\ NotBefore(channel[s][i], arrived[s]) /\ channel'[s][i] = channel[s][i]
          /\ Mark(channel[s][i]) \/ Record(channel[s][i])
      BY <1>3, <2>2 DEF Ordered
    <3>2. ASSUME Mark(channel[s][i])
          PROVE  channel[s][i].mark \in Nat /\ channel[s][i].mark <= disposing[s]
      <4>1. channel[s][i].mark \in Nat
        BY <1>3, <2>2, <3>2, Kinds
      <4> QED
        BY <1>3, <2>2, <3>2, <4>1 DEF Ordered
    <3>3. ASSUME NEW j \in DOMAIN channel'[s], i < j, Mark(channel[s][i])
          PROVE  NotBefore(channel'[s][j], channel[s][i].mark)
      <4>1. CASE j = n + 1
        BY <1>1, <1>3, <3>2, <3>3, <4>1, NotBeforeDown
      <4>2. CASE j \in 1 .. n
        BY <1>3, <2>2, <3>3, <4>2 DEF Ordered
      <4> QED
        BY <1>3, <4>1, <4>2
    <3> QED
      BY <1>1, <3>1, <3>2, <3>3
  <2> QED
    BY <1>3, <2>1, <2>2
<1> QED
  BY <1>2, <1>4 DEF Ordered

\* What was under way is still, and what is appended joins it.
LEMMA AppendKeeps ==
  ASSUME StreamInv, NEW x \in Subtask, NEW p \in Packet, channel' = [channel EXCEPT ![x] = Append(@, p)]
  PROVE  /\ \A t : Underway(t) => Underway(t)'
         /\ Record(p) => Underway(p.tx)'
         /\ \A s \in Subtask : \A i \in DOMAIN channel'[s] :
              channel'[s][i] = p \/ (i \in DOMAIN channel[s] /\ channel'[s][i] = channel[s][i])
<1>1. channel \in [Subtask -> Seq(Packet)]
  BY DEF StreamInv, StreamType
<1>2. channel'[x] = Append(channel[x], p) /\ channel[x] \in Seq(Packet)
  BY <1>1
<1>3. \A s \in Subtask : s # x => channel'[s] = channel[s]
  BY <1>1
<1>4. /\ \A i \in DOMAIN channel[x] : i \in DOMAIN channel'[x] /\ channel'[x][i] = channel[x][i]
      /\ Len(channel[x]) + 1 \in DOMAIN channel'[x] /\ channel'[x][Len(channel[x]) + 1] = p
      /\ \A i \in DOMAIN channel'[x] : i \in DOMAIN channel[x] \/ channel'[x][i] = p
  BY <1>2
<1>5. \A s \in Subtask : \A i \in DOMAIN channel[s] : i \in DOMAIN channel'[s] /\ channel'[s][i] = channel[s][i]
  BY <1>3, <1>4
<1>6. ASSUME NEW t, Underway(t) PROVE Underway(t)'
  BY <1>5, <1>6 DEF Underway
<1>7. Record(p) => Underway(p.tx)'
  BY <1>4 DEF Underway
<1>8. \A s \in Subtask : \A i \in DOMAIN channel'[s] :
              channel'[s][i] = p \/ (i \in DOMAIN channel[s] /\ channel'[s][i] = channel[s][i])
  BY <1>3, <1>4
<1> QED
  BY <1>6, <1>7, <1>8

\* A step that leaves the channels, the feature state and what is eligible alone.
LEMMA QuietCore ==
  ASSUME Core, Eligible' = Eligible, UNCHANGED <<channel, valve, disposing, idle>>,
         state'.history = state.history, state'.pending = state.pending,
         out'.online = out.online, out'.retry = out.retry, out'.dlq \ Malformed \subseteq Eligible
  PROVE  Core'
<1>0. UNCHANGED <<arrived, standing, clock>>
  BY DEF valve
<1>1. \A s \in SteadySubtask : Ordered(s)' /\ Waited(s)'
  BY <1>0 DEF Core, Ordered, Waited
<1>2. Held'
  BY DEF Core, Held
<1>3. RowsAreOld'
  BY <1>0 DEF Core, RowsAreOld
<1>4. \A r \in out'.online : FinalRow(r)'
  BY DEF Core, FinalRow, DueTo, SteadyGroup
<1>5. ASSUME NEW t \in Eligible', Steady(t) PROVE Counted(t)'
  BY <1>0, <1>5 DEF Core, Counted, Underway, Evicted, SteadyGroup
<1> QED
  BY <1>1, <1>2, <1>3, <1>4, <1>5 DEF Core

\* What becomes eligible is not behind the watermark of its subtask.
LEMMA EligibleGrows ==
  ASSUME StreamAssumption, StreamInv, Clocks, NEW t \in Tx, NEW count \in Count, count = 0 \/ t \in Eligible,
         Dispose(t, count), NEW d, d = Disposition(disposing[SubtaskOf[t]], EventTime[t])
  PROVE  /\ d = "TOO_LATE" => Eligible' = Eligible
         /\ d # "TOO_LATE" => /\ Eligible' = Eligible \cup {t}
                              /\ disposing[SubtaskOf[t]] - Lateness <= EventTime[t]
<1>1. /\ d \in Answer
      /\ out'.accepted = IF count = 0 THEN [out.accepted EXCEPT ![t] = Append(@, d)] ELSE out.accepted
  BY Classified
<1>2. out.accepted \in [Tx -> Seq(Answer)]
  BY DEF StreamInv, StreamType, OutType
<1>3. d # "TOO_LATE" => disposing[SubtaskOf[t]] - Lateness <= EventTime[t]
  <2>1. disposing[SubtaskOf[t]] \in Int /\ EventTime[t] \in Nat
    BY Bounds DEF Clocks, Clock, NoTime
  <2> QED
    BY <2>1, Numbers DEF Disposition
<1>4. CASE count # 0
  <2>1. t \in Eligible /\ Eligible' = Eligible
    BY <1>1, <1>4, EligibleSame
  <2> QED
    BY <1>3, <2>1
<1>5. CASE count = 0
  <2>1. /\ \A x \in Tx : x # t => out'.accepted[x] = out.accepted[x]
        /\ out'.accepted[t] = Append(out.accepted[t], d)
    BY <1>1, <1>2, <1>5
  <2>2. \A x \in Tx : x # t => (x \in Eligible' <=> x \in Eligible)
    BY <2>1 DEF Eligible
  <2>3. t \in Eligible' <=> t \in Eligible \/ d # "TOO_LATE"
    <3> DEFINE n == Len(out.accepted[t])
    <3>1. /\ n \in Nat /\ DOMAIN out.accepted[t] = 1 .. n /\ DOMAIN out'.accepted[t] = 1 .. (n + 1)
          /\ out'.accepted[t][n + 1] = d /\ \A i \in 1 .. n : out'.accepted[t][i] = out.accepted[t][i]
      BY <1>1, <1>2, <2>1
    <3> HIDE DEF n
    <3>2. n + 1 \in 1 .. (n + 1) /\ \A i \in 1 .. (n + 1) : i = n + 1 \/ i \in 1 .. n
      BY <3>1
    <3>3. \A i \in 1 .. n : i \in 1 .. (n + 1)
      BY <3>1
    <3>4. t \in Eligible' <=> \E i \in 1 .. (n + 1) : out'.accepted[t][i] # "TOO_LATE"
      BY <3>1 DEF Eligible
    <3>5. t \in Eligible <=> \E i \in 1 .. n : out.accepted[t][i] # "TOO_LATE"
      BY <3>1 DEF Eligible
    <3> QED
      BY <3>1, <3>2, <3>3, <3>4, <3>5
  <2>4. Eligible \subseteq Tx /\ Eligible' \subseteq Tx
    BY DEF Eligible
  <2> QED
    BY <1>3, <2>2, <2>3, <2>4
<1> QED
  BY <1>4, <1>5

LEMMA DisposeCore ==
  ASSUME StreamAssumption, StreamInv, StreamInv', Clocks, Core, NEW t \in Tx, NEW count \in Count,
         count = 0 \/ t \in Eligible, Dispose(t, count), UNCHANGED <<valve, disposing, idle>>,
         state'.history = state.history, state'.pending = state.pending
  PROVE  Core'
<1>0. UNCHANGED <<arrived, standing, clock>>
  BY DEF valve
<1>1. PICK d : d = Disposition(disposing[SubtaskOf[t]], EventTime[t])
  OBVIOUS
<1>2. out'.online = out.online /\ out'.retry = out.retry /\ out'.dlq = out.dlq
  BY <1>1, Classified
<1>3. CASE d = "TOO_LATE"
  <2>1. Eligible' = Eligible /\ channel' = channel
    BY <1>1, <1>3, EligibleGrows DEF Dispose
  <2>2. out'.dlq \ Malformed \subseteq Eligible
    BY <1>2 DEF Core, Held
  <2> QED
    BY <1>2, <2>1, <2>2, QuietCore
<1>4. CASE d # "TOO_LATE"
  <2> DEFINE s == SubtaskOf[t]
  <2> DEFINE p == [tx |-> t, count |-> count]
  <2>1. /\ Eligible' = Eligible \cup {t} /\ disposing[s] - Lateness <= EventTime[t]
        /\ channel' = [channel EXCEPT ![s] = Append(@, p)]
    <3>1. Eligible' = Eligible \cup {t} /\ disposing[s] - Lateness <= EventTime[t]
      BY <1>1, <1>4, EligibleGrows
    <3>2. channel' = [channel EXCEPT ![s] = Append(@, p)]
      BY <1>1, <1>4 DEF Dispose
    <3> QED
      BY <3>1, <3>2
  <2>2. p \in Packet /\ Record(p) /\ ~ Mark(p) /\ p.tx = t /\ s \in Subtask
    BY Bounds DEF Packet, Mark, Record
  <2>3. channel \in [Subtask -> Seq(Packet)]
    BY DEF StreamInv, StreamType
  <2>4. arrived[s] \in Int /\ disposing[s] \in Int /\ EventTime[t] \in Nat
    BY <2>2, Bounds DEF Clocks, Clock, NoTime
  <2>5. Steady(t) => s \in SteadySubtask
    BY <2>2 DEF Steady, SteadySubtask
  <2>6. s = SubtaskOf[t]
    OBVIOUS
  <2> HIDE DEF p, s
  <2>7. ASSUME NEW x \in SteadySubtask PROVE Ordered(x)' /\ Waited(x)'
    <3>1. CASE x = s
      <4>1. channel'[s] = Append(channel[s], p) /\ channel[s] \in Seq(Packet)
        BY <2>1, <2>2, <2>3
      <4>2. NotBefore(p, disposing[s])
        BY <2>1, <2>2 DEF NotBefore
      <4>3. Ordered(s) /\ Clocks' /\ disposing[s] <= disposing'[s]
        BY <1>0, <2>4, <3>1 DEF Core, Clocks
      <4>4. Mark(p) => p.mark <= disposing'[s]
        BY <2>2
      <4>5. Ordered(x)'
        BY <1>0, <2>2, <3>1, <4>1, <4>2, <4>3, <4>4, AppendOrder
      <4> QED
        BY <1>0, <4>5 DEF Core, Waited
    <3>2. CASE x # s
      <4>1. channel'[x] = channel[x] /\ Ordered(x) /\ Waited(x)
        BY <2>1, <2>3, <3>2 DEF Core, SteadySubtask
      <4> QED
        BY <1>0, <4>1 DEF Ordered, Waited
    <3> QED
      BY <3>1, <3>2
  <2>8. Held'
    <3>1. ASSUME NEW x \in Subtask, NEW i \in DOMAIN channel'[x], Record(channel'[x][i])
          PROVE  channel'[x][i].tx \in Eligible' /\ SubtaskOf[channel'[x][i].tx] = x
      <4>1. CASE i \in DOMAIN channel[x] /\ channel'[x][i] = channel[x][i]
        BY <2>1, <3>1, <4>1 DEF Core, Held
      <4>2. CASE x = s /\ channel'[x][i] = p
        BY <2>1, <2>2, <2>6, <4>2
      <4>3. x # s => channel'[x] = channel[x]
        BY <2>1, <2>3
      <4> QED
        BY <2>1, <2>2, <4>1, <4>2, <4>3, AppendKeeps
    <3> QED
      BY <1>2, <2>1, <3>1 DEF Core, Held
  <2>9. RowsAreOld'
    BY <1>0, <1>2, <2>1 DEF Core, RowsAreOld
  <2>10. ASSUME NEW r \in out'.online, Steady(t)
         PROVE  ~ (r.at - Window <= EventTime[t] /\ EventTime[t] < r.at)
    <3>1. r \in out.online /\ r.at \in Nat
      BY <1>2 DEF StreamInv, StreamType, OutType
    <3>2. r.at + Lateness + 1 <= arrived[s] /\ arrived[s] <= disposing[s]
      BY <2>5, <2>10, <3>1 DEF Core, RowsAreOld, Ordered
    <3> QED
      BY <2>1, <2>4, <3>1, <3>2, Numbers
  <2>11. ASSUME NEW k, NEW at, SteadyGroup(k, at)' PROVE SteadyGroup(k, at)
    BY <2>1, <2>11 DEF SteadyGroup
  <2>12. ASSUME NEW r \in out'.online PROVE FinalRow(r)'
    <3>1. FinalRow(r)
      BY <1>2 DEF Core
    <3>2. \A u \in DueTo(r)' : Steady(u) => u \in DueTo(r)
      BY <2>1, <2>10 DEF DueTo
    <3>3. DueTo(r) \subseteq DueTo(r)'
      BY <2>1 DEF DueTo
    <3> QED
      BY <2>11, <3>1, <3>2, <3>3 DEF FinalRow
  <2>13. ASSUME NEW u \in Eligible', Steady(u) PROVE Counted(u)'
    <3>1. CASE u = t
      BY <2>1, <2>2, <3>1, AppendKeeps DEF Counted
    <3>2. CASE u \in Eligible
      <4>1. Underway(u) => Underway(u)'
        BY <2>1, <2>2, AppendKeeps
      <4>2. \A k : Evicted(k, u) => Evicted(k, u)'
        BY <1>0, <2>11 DEF Evicted
      <4> QED
        BY <2>13, <3>2, <4>1, <4>2 DEF Core, Counted
    <3> QED
      BY <2>1, <3>1, <3>2
  <2> QED
    BY <2>7, <2>8, <2>9, <2>12, <2>13 DEF Core
<1> QED
  BY <1>3, <1>4

\* A watermark, or the idle mark of a subtask that may idle, is sent on.
LEMMA SignalCore ==
  ASSUME StreamAssumption, StreamInv, Clocks, Core, NEW s \in Subtask, NEW p \in Packet, ~ Record(p),
         channel' = [channel EXCEPT ![s] = Append(@, p)], UNCHANGED <<offsets, state, out, valve>>,
         \A x \in SteadySubtask : x # s => disposing'[x] = disposing[x],
         \A x \in SteadySubtask : x \in idle' => x \in idle,
         s \in SteadySubtask => Ordered(s)'
  PROVE  Core'
<1>1. channel \in [Subtask -> Seq(Packet)] /\ UNCHANGED <<arrived, standing, clock>>
  BY DEF StreamInv, StreamType, valve
<1>2. ASSUME NEW x \in SteadySubtask PROVE Ordered(x)' /\ Waited(x)'
  <2>1. Ordered(x) /\ Waited(x)
    BY DEF Core
  <2>2. x # s => channel'[x] = channel[x] /\ disposing'[x] = disposing[x]
    BY <1>1, <1>2 DEF SteadySubtask
  <2>3. Ordered(x)'
    BY <1>1, <1>2, <2>1, <2>2 DEF Ordered
  <2> QED
    BY <1>1, <2>1, <2>3 DEF Waited
<1>3. Eligible' = Eligible
  BY EligibleSame
<1>4. Held'
  <2>1. ASSUME NEW x \in Subtask, NEW i \in DOMAIN channel'[x], Record(channel'[x][i])
        PROVE  channel'[x][i].tx \in Eligible' /\ SubtaskOf[channel'[x][i].tx] = x
    <3>1. i \in DOMAIN channel[x] /\ channel'[x][i] = channel[x][i]
      BY <2>1, AppendKeeps
    <3> QED
      BY <1>3, <2>1, <3>1 DEF Core, Held
  <2> QED
    BY <1>3, <2>1 DEF Core, Held
<1>5. RowsAreOld' /\ \A r \in out'.online : FinalRow(r)'
  BY <1>1, <1>3 DEF Core, RowsAreOld, FinalRow, DueTo, SteadyGroup
<1>6. ASSUME NEW u \in Eligible', Steady(u) PROVE Counted(u)'
  <2>1. Underway(u) => Underway(u)'
    BY AppendKeeps
  <2>2. \A k : Evicted(k, u) => Evicted(k, u)'
    BY <1>1, <1>3 DEF Evicted, SteadyGroup
  <2> QED
    BY <1>3, <1>6, <2>1, <2>2 DEF Core, Counted
<1> QED
  BY <1>2, <1>4, <1>5, <1>6 DEF Core

LEMMA WatermarkCore ==
  ASSUME StreamAssumption, StreamInv, Clocks, Clocks', Core, NEW s \in Subtask, NEW w \in Nat,
         Watermark(s, w)
  PROVE  Core'
<1> DEFINE p == [mark |-> w]
<1>1. /\ w >= disposing[s] /\ disposing' = [disposing EXCEPT ![s] = w] /\ idle' = idle \ {s}
      /\ channel' = [channel EXCEPT ![s] = Append(@, p)]
      /\ UNCHANGED <<offsets, state, out, valve>>
  <2>1. disposing[s] \in Int
    BY DEF Clocks, Clock, NoTime
  <2> QED
    BY <2>1 DEF Watermark
<1>2. p \in Packet /\ Mark(p) /\ ~ Record(p) /\ p.mark = w
  BY DEF Packet, Mark, Record
<1>3. channel \in [Subtask -> Seq(Packet)] /\ UNCHANGED arrived
  BY <1>1 DEF StreamInv, StreamType, valve
<1> HIDE DEF p
<1>4. ASSUME s \in SteadySubtask PROVE Ordered(s)'
  <2>1. channel'[s] = Append(channel[s], p) /\ channel[s] \in Seq(Packet) /\ arrived'[s] = arrived[s]
    BY <1>1, <1>3
  <2>2. disposing'[s] = w /\ disposing[s] \in Int
    BY <1>1 DEF Clocks, Clock, NoTime
  <2>3. NotBefore(p, disposing[s]) /\ disposing[s] <= disposing'[s] /\ p.mark <= disposing'[s]
    BY <1>1, <1>2, <2>2 DEF NotBefore
  <2>4. Ordered(s)
    BY <1>4 DEF Core
  <2> QED
    BY <1>2, <2>1, <2>3, <2>4, AppendOrder
<1>5. \A x \in SteadySubtask : x # s => disposing'[x] = disposing[x]
  BY <1>1 DEF Clocks, SteadySubtask
<1> QED
  BY <1>1, <1>2, <1>4, <1>5, SignalCore

LEMMA IdleCore ==
  ASSUME StreamAssumption, StreamInv, Clocks, Core, NEW s \in Subtask, Idle(s)
  PROVE  Core'
<1>1. /\ s \in Idling /\ idle' = idle \cup {s} /\ UNCHANGED <<offsets, state, out, disposing, valve>>
      /\ channel' = [channel EXCEPT ![s] = Append(@, [idle |-> TRUE])]
  BY DEF Idle
<1>2. [idle |-> TRUE] \in Packet /\ ~ Record([idle |-> TRUE])
  BY DEF Packet, Record
<1>3. s \notin SteadySubtask
  BY <1>1 DEF SteadySubtask
<1> QED
  BY <1>1, <1>2, <1>3, SignalCore

\* What is left in a channel is ordered behind what was taken from it.
LEMMA TailOrder ==
  ASSUME StreamAssumption, NEW s \in Subtask, Ordered(s), Clocks, channel[s] \in Seq(Packet), channel[s] # <<>>,
         channel'[s] = Tail(channel[s]), disposing'[s] = disposing[s],
         arrived'[s] = IF Mark(Head(channel[s])) THEN Head(channel[s]).mark ELSE arrived[s]
  PROVE  Ordered(s)' /\ arrived[s] <= arrived'[s]
<1> DEFINE n == Len(channel[s])
<1>1. /\ n \in Nat \ {0} /\ DOMAIN channel[s] = 1 .. n /\ DOMAIN channel'[s] = 1 .. (n - 1)
      /\ Head(channel[s]) = channel[s][1] /\ channel[s][1] \in Packet
      /\ \A i \in 1 .. (n - 1) : channel'[s][i] = channel[s][i + 1] /\ i + 1 \in 1 .. n
  OBVIOUS
<1>2. arrived[s] \in Int /\ disposing[s] \in Int
  BY DEF Clocks, Clock, NoTime
<1> HIDE DEF n
<1>3. /\ 1 \in DOMAIN channel[s] /\ arrived[s] <= arrived'[s] /\ arrived'[s] <= disposing'[s]
      /\ \A i \in 1 .. (n - 1) : NotBefore(channel'[s][i], arrived'[s])
  <2>0. 1 \in DOMAIN channel[s]
    BY <1>1
  <2>1. CASE Mark(channel[s][1])
    <3>1. channel[s][1].mark \in Nat
      BY <1>1, <2>1, Kinds
    <3>2. arrived'[s] = channel[s][1].mark
      BY <1>1, <2>1
    <3>3. arrived[s] <= channel[s][1].mark
      BY <2>0, <2>1 DEF Ordered, NotBefore
    <3>4. channel[s][1].mark <= disposing[s]
      BY <2>0, <2>1 DEF Ordered
    <3>5. ASSUME NEW i \in 1 .. (n - 1) PROVE NotBefore(channel'[s][i], arrived'[s])
      <4>1. i + 1 \in DOMAIN channel[s] /\ 1 < i + 1 /\ channel'[s][i] = channel[s][i + 1]
        BY <1>1
      <4> QED
        BY <2>0, <2>1, <3>2, <4>1 DEF Ordered
    <3> QED
      BY <2>0, <3>2, <3>3, <3>4, <3>5
  <2>2. CASE ~ Mark(channel[s][1])
    <3>1. arrived'[s] = arrived[s]
      BY <1>1, <2>2
    <3>2. ASSUME NEW i \in 1 .. (n - 1) PROVE NotBefore(channel'[s][i], arrived'[s])
      BY <1>1, <3>1 DEF Ordered
    <3>3. arrived[s] <= disposing[s]
      BY DEF Ordered
    <3>4. arrived[s] <= arrived'[s] /\ arrived'[s] <= disposing'[s]
      BY <1>2, <3>1, <3>3
    <3> QED
      BY <2>0, <3>2, <3>4
  <2> QED
    BY <2>1, <2>2
<1>4. ASSUME NEW i \in DOMAIN channel'[s]
      PROVE  /\ Mark(channel'[s][i]) \/ Record(channel'[s][i])
             /\ Mark(channel'[s][i]) => channel'[s][i].mark <= disposing'[s]
             /\ \A j \in DOMAIN channel'[s] :
                  i < j /\ Mark(channel'[s][i]) => NotBefore(channel'[s][j], channel'[s][i].mark)
  <2>1. i + 1 \in DOMAIN channel[s] /\ channel'[s][i] = channel[s][i + 1]
    BY <1>1
  <2>2. ASSUME NEW j \in DOMAIN channel'[s], i < j, Mark(channel'[s][i])
        PROVE  NotBefore(channel'[s][j], channel'[s][i].mark)
    <3>1. j + 1 \in DOMAIN channel[s] /\ channel'[s][j] = channel[s][j + 1] /\ i + 1 < j + 1
      BY <1>1, <2>2
    <3> QED
      BY <2>1, <2>2, <3>1 DEF Ordered
  <2> QED
    BY <2>1, <2>2 DEF Ordered
<1> QED
  BY <1>1, <1>3, <1>4 DEF Ordered

\* The clock is behind every channel that holds it back.
LEMMA AdvancedIsLeast ==
  ASSUME NEW marks \in [Subtask -> Clock], NEW standings, NEW x \in Subtask, standings[x] = "aligned"
  PROVE  Advanced(marks, standings) \in Clock /\ Advanced(marks, standings) <= marks[x]
<1> DEFINE holding == {y \in Subtask : standings[y] = "aligned"}
<1> DEFINE times == {marks[y] : y \in holding}
<1>1. times \subseteq Clock /\ marks[x] \in times /\ Advanced(marks, standings) = SetMin(times)
  BY DEF Advanced
<1> HIDE DEF times
<1>2. SetMin(times) \in times /\ \A y \in times : SetMin(times) <= y
  BY <1>1, SetMinIsLeast
<1> QED
  BY <1>1, <1>2

\* It waits for the channels of the subtasks that never idle, whatever arrives.
LEMMA ReceiveWaits ==
  ASSUME Clocks, Clocks', \A x \in SteadySubtask : Waited(x), NEW s \in Subtask, UNCHANGED idle,
         \/ UNCHANGED valve
         \/ \E w \in Nat : TakeMark(s, w) /\ (s \in SteadySubtask => arrived[s] <= w)
         \/ TakeIdle(s) /\ s \notin SteadySubtask
  PROVE  \A x \in SteadySubtask : Waited(x)'
<1> SUFFICES ASSUME NEW x \in SteadySubtask PROVE Waited(x)'
  OBVIOUS
<1>0. x \in Subtask /\ Waited(x) /\ arrived[x] \in Int /\ clock \in Int
  BY DEF SteadySubtask, Waited, Clocks, Clock, NoTime
<1>1. CASE UNCHANGED valve
  BY <1>0, <1>1 DEF Waited, valve
<1>2. ASSUME NEW w \in Nat, TakeMark(s, w), s \in SteadySubtask => arrived[s] <= w
      PROVE  Waited(x)'
  <2>1. standing'[x] = "aligned"
    <3>1. standing' = [standing EXCEPT ![s] = IF w >= clock THEN "aligned" ELSE "behind"]
      BY <1>2 DEF TakeMark
    <3>2. CASE x = s
      <4>1. w >= clock
        BY <1>0, <1>2, <3>2 DEF Waited
      <4> QED
        BY <3>1, <3>2, <4>1 DEF Clocks
    <3>3. CASE x # s
      BY <1>0, <3>1, <3>3 DEF Waited, Clocks
    <3> QED
      BY <3>2, <3>3
  <2>2. clock' = Advanced(arrived', standing') /\ arrived' \in [Subtask -> Clock]
    BY <1>2 DEF TakeMark, Clocks
  <2>3. clock' \in Clock /\ clock' <= arrived'[x]
    BY <1>0, <2>1, <2>2, AdvancedIsLeast
  <2> QED
    BY <1>0, <2>1, <2>3 DEF Waited
<1>3. CASE TakeIdle(s) /\ s \notin SteadySubtask
  <2>1. standing' = [standing EXCEPT ![s] = "idle"] /\ arrived' = arrived /\ x # s
    BY <1>3 DEF TakeIdle
  <2>2. standing'[x] = "aligned"
    BY <1>0, <2>1 DEF Waited, Clocks
  <2>3. clock' = Advanced(arrived, standing') /\ arrived \in [Subtask -> Clock]
    BY <1>0, <1>3, <2>2 DEF TakeIdle, Clocks
  <2>4. clock' \in Clock /\ clock' <= arrived[x]
    BY <1>0, <2>2, <2>3, AdvancedIsLeast
  <2> QED
    BY <1>0, <2>1, <2>2, <2>4 DEF Waited
<1> QED
  BY <1>1, <1>2, <1>3

\* What the head of a channel does, by its kind.
LEMMA Received ==
  ASSUME StreamInv, NEW s \in Subtask, Receive(s), NEW m, m = Head(channel[s])
  PROVE  /\ channel[s] \in Seq(Packet) /\ channel[s] # <<>> /\ m \in Packet
         /\ channel \in [Subtask -> Seq(Packet)]
         /\ channel' = [channel EXCEPT ![s] = Tail(@)]
         /\ UNCHANGED <<offsets, out, maxTime, disposing, idle, checkpoint, restarts>>
         /\ \/ Record(m) /\ ~ Mark(m) /\ state' = Insert(m.tx, m.count) /\ UNCHANGED valve
            \/ Mark(m) /\ ~ Record(m) /\ TakeMark(s, m.mark) /\ UNCHANGED state
            \/ ~ Mark(m) /\ ~ Record(m) /\ TakeIdle(s) /\ UNCHANGED state
<1>1. /\ channel[s] \in Seq(Packet) /\ channel[s] # <<>>
      /\ channel \in [Subtask -> Seq(Packet)]
  BY DEF Receive, StreamInv, StreamType
<1>2. m \in Packet
  BY <1>1
<1> QED
  BY <1>1, <1>2, Kinds DEF Receive, Record, Mark

LEMMA ReceiveCore ==
  ASSUME StreamAssumption, StreamInv, StreamInv', Clocks, Clocks', Core, NEW s \in Subtask, Receive(s)
  PROVE  Core'
<1>1. PICK m \in Packet : m = Head(channel[s])
  BY Received
<1>2. /\ channel \in [Subtask -> Seq(Packet)] /\ channel[s] # <<>>
      /\ channel' = [channel EXCEPT ![s] = Tail(@)] /\ UNCHANGED <<out, disposing, idle>>
      /\ \/ Record(m) /\ ~ Mark(m) /\ state' = Insert(m.tx, m.count) /\ UNCHANGED valve
         \/ Mark(m) /\ ~ Record(m) /\ TakeMark(s, m.mark) /\ UNCHANGED state
         \/ ~ Mark(m) /\ ~ Record(m) /\ TakeIdle(s) /\ UNCHANGED state
  BY <1>1, Received
<1>3. /\ channel'[s] = Tail(channel[s]) /\ channel[s] \in Seq(Packet) /\ 1 \in DOMAIN channel[s]
      /\ m = channel[s][1]
      /\ \A i \in DOMAIN channel'[s] : i + 1 \in DOMAIN channel[s] /\ channel'[s][i] = channel[s][i + 1]
      /\ \A i \in DOMAIN channel[s] : i = 1 \/ (i - 1 \in DOMAIN channel'[s] /\ channel'[s][i - 1] = channel[s][i])
  BY <1>1, <1>2
<1>4. \A x \in Subtask : x # s => channel'[x] = channel[x]
  BY <1>2
<1>5. arrived' = IF Mark(m) THEN [arrived EXCEPT ![s] = m.mark] ELSE arrived
  BY <1>2 DEF TakeMark, TakeIdle, valve
<1>6. Eligible' = Eligible
  BY <1>2, EligibleSame
<1>7. \A x \in Subtask : arrived[x] \in Int /\ arrived'[x] \in Int
  BY DEF Clocks, Clock, NoTime
<1>8. s \in SteadySubtask => Ordered(s)' /\ arrived[s] <= arrived'[s] /\ (Mark(m) \/ Record(m))
  <2> SUFFICES ASSUME s \in SteadySubtask
               PROVE  Ordered(s)' /\ arrived[s] <= arrived'[s] /\ (Mark(m) \/ Record(m))
    OBVIOUS
  <2>1. arrived'[s] = IF Mark(m) THEN m.mark ELSE arrived[s]
    BY <1>5 DEF Clocks
  <2>2. Ordered(s) /\ disposing'[s] = disposing[s]
    BY <1>2 DEF Core
  <2>3. Mark(m) \/ Record(m)
    BY <1>3, <2>2 DEF Ordered
  <2> QED
    BY <1>1, <1>2, <1>3, <2>1, <2>2, <2>3, TailOrder
<1>9. ASSUME NEW x \in SteadySubtask PROVE Ordered(x)' /\ arrived[x] <= arrived'[x]
  <2>1. CASE x = s
    BY <1>8, <1>9, <2>1
  <2>2. CASE x # s
    <3>1. Ordered(x) /\ channel'[x] = channel[x] /\ arrived'[x] = arrived[x] /\ disposing'[x] = disposing[x]
      BY <1>2, <1>4, <1>5, <1>9, <2>2 DEF Core, Clocks, SteadySubtask
    <3>2. arrived[x] <= arrived'[x]
      BY <1>7, <1>9, <3>1 DEF SteadySubtask
    <3> QED
      BY <3>1, <3>2 DEF Ordered
  <2> QED
    BY <2>1, <2>2
<1>10. \A x \in SteadySubtask : Waited(x)'
  <2>1. Mark(m) => m.mark \in Nat /\ (s \in SteadySubtask => arrived[s] <= m.mark)
    <3>1. Mark(m) => arrived'[s] = m.mark
      BY <1>5 DEF Clocks
    <3> QED
      BY <1>1, <1>8, <3>1, Kinds
  <2>2. \A x \in SteadySubtask : Waited(x)
    BY DEF Core
  <2>3. CASE UNCHANGED valve
    BY <1>2, <2>2, <2>3, ReceiveWaits
  <2>4. CASE Mark(m) /\ TakeMark(s, m.mark)
    BY <1>2, <2>1, <2>2, <2>4, ReceiveWaits
  <2>5. CASE ~ Mark(m) /\ ~ Record(m) /\ TakeIdle(s)
    BY <1>2, <1>8, <2>2, <2>5, ReceiveWaits
  <2> QED
    BY <1>2, <2>3, <2>4, <2>5
<1>11. Record(m) =>
        /\ m.tx \in Tx /\ m.count \in Count /\ m.tx \in Eligible /\ KeysOf[m.tx] \subseteq StateKey
        /\ EventTime[m.tx] \in Nat
        /\ Steady(m.tx) => s \in SteadySubtask /\ arrived[s] - Lateness <= EventTime[m.tx]
  <2>1. Record(m) => m.tx \in Tx /\ m.count \in Count /\ ~ Mark(m)
    BY <1>1, Kinds
  <2>2. Record(m) => m.tx \in Eligible /\ SubtaskOf[m.tx] = s
    BY <1>3 DEF Core, Held
  <2>3. Record(m) /\ Steady(m.tx) => s \in SteadySubtask
    BY <2>2 DEF Steady, SteadySubtask
  <2>4. Record(m) /\ s \in SteadySubtask => arrived[s] - Lateness <= EventTime[m.tx]
    BY <1>3, <2>1 DEF Core, Ordered, NotBefore
  <2> QED
    BY <2>1, <2>2, <2>3, <2>4, Bounds
<1>12. /\ \A k \in StateKey, t \in Tx :
            \/ state'.history[k][t] = state.history[k][t]
            \/ Record(m) /\ t = m.tx /\ k \in KeysOf[t] /\ state'.history[k][t] # Absent
       /\ Record(m) => \A k \in KeysOf[m.tx] : state'.history[k][m.tx] # Absent
       /\ \A k \in StateKey : \A at \in state'.pending[k] :
            at \in state.pending[k] \/ (Record(m) /\ k \in KeysOf[m.tx] /\ at = EventTime[m.tx])
  <2>1. CASE ~ Record(m)
    BY <1>2, <2>1
  <2>2. CASE Record(m)
    <3> DEFINE t == m.tx
    <3> DEFINE c == m.count
    <3>1. state' = Insert(t, c) /\ t \in Tx /\ c \in Count /\ KeysOf[t] \subseteq StateKey /\ state \in StateType
      BY <1>2, <1>11, <2>2 DEF StreamInv, StreamType
    <3> HIDE DEF t, c
    <3>2. /\ state'.history = [k \in StateKey |->
                IF k \in KeysOf[t] THEN [state.history[k] EXCEPT ![t] = c] ELSE state.history[k]]
          /\ state'.pending = [k \in StateKey |->
                IF k \in KeysOf[t] THEN state.pending[k] \cup {EventTime[t]} ELSE state.pending[k]]
      BY <3>1 DEF Insert, StateType
    <3>3. c # Absent
      BY <3>1, Bounds DEF Count, Absent
    <3>4. \A k \in KeysOf[t] : state'.history[k][t] = c
      BY <3>1, <3>2 DEF StateType
    <3>5. \A k \in StateKey, x \in Tx :
            state'.history[k][x] = state.history[k][x] \/ (x = t /\ k \in KeysOf[t])
      BY <3>1, <3>2 DEF StateType
    <3>6. \A k \in StateKey : \A at \in state'.pending[k] :
            at \in state.pending[k] \/ (k \in KeysOf[t] /\ at = EventTime[t])
      BY <3>1, <3>2 DEF StateType
    <3> QED
      BY <2>2, <3>3, <3>4, <3>5, <3>6 DEF t
  <2> QED
    BY <2>1, <2>2
<1>13. Held'
  <2>1. ASSUME NEW x \in Subtask, NEW i \in DOMAIN channel'[x], Record(channel'[x][i])
        PROVE  channel'[x][i].tx \in Eligible' /\ SubtaskOf[channel'[x][i].tx] = x
    <3>1. CASE x = s
      <4>1. i + 1 \in DOMAIN channel[s] /\ channel'[s][i] = channel[s][i + 1]
        BY <1>3, <2>1, <3>1
      <4> QED
        BY <1>6, <2>1, <3>1, <4>1 DEF Core, Held
    <3>2. CASE x # s
      BY <1>4, <1>6, <2>1, <3>2 DEF Core, Held
    <3> QED
      BY <3>1, <3>2
  <2>2. \A k \in StateKey, t \in Tx :
          state'.history[k][t] # Absent => k \in KeysOf[t] /\ t \in Eligible'
    BY <1>6, <1>11, <1>12 DEF Core, Held
  <2> QED
    BY <1>2, <1>6, <2>1, <2>2 DEF Core, Held
<1>14. RowsAreOld'
  <2>1. ASSUME NEW r \in out'.online, NEW x \in SteadySubtask PROVE r.at + Lateness + 1 <= arrived'[x]
    <3>1. r \in out.online /\ r.at \in Nat /\ x \in Subtask
      BY <1>2, <2>1 DEF StreamInv, StreamType, OutType, SteadySubtask
    <3>2. r.at + Lateness + 1 <= arrived[x]
      BY <3>1 DEF Core, RowsAreOld
    <3> QED
      BY <1>7, <1>9, <3>1, <3>2, Numbers
  <2> QED
    BY <1>2, <1>6, <2>1 DEF Core, RowsAreOld
<1>15. \A r \in out'.online : FinalRow(r)'
  BY <1>2, <1>6 DEF Core, FinalRow, DueTo, SteadyGroup
<1>16. ASSUME NEW u \in Eligible', Steady(u) PROVE Counted(u)'
  <2>1. u \in Eligible /\ u \in Tx /\ EventTime[u] \in Nat /\ KeysOf[u] \subseteq StateKey
    BY <1>6, Bounds DEF Eligible
  <2>2. ASSUME NEW k \in KeysOf[u], Evicted(k, u) PROVE Evicted(k, u)'
    <3>1. ASSUME NEW x \in SteadySubtask PROVE EventTime[u] + HistoryTtl + Lateness + 1 < arrived'[x]
      <4>1. x \in Subtask /\ EventTime[u] + HistoryTtl + Lateness + 1 < arrived[x]
        BY <2>2 DEF Evicted, SteadySubtask
      <4> QED
        BY <1>7, <1>9, <2>1, <4>1, Numbers
    <3>2. ASSUME NEW at \in state'.pending[k], SteadyGroup(k, at)' PROVE EventTime[u] + HistoryTtl < at
      <4>0. SteadyGroup(k, at)
        BY <1>6, <3>2 DEF SteadyGroup
      <4>1. CASE at \in state.pending[k]
        BY <2>2, <4>0, <4>1 DEF Evicted
      <4>2. CASE Record(m) /\ k \in KeysOf[m.tx] /\ at = EventTime[m.tx]
        <5>1. Steady(m.tx)
          BY <1>11, <4>0, <4>2 DEF SteadyGroup
        <5>2. EventTime[u] + HistoryTtl + Lateness + 1 < arrived[s]
          BY <1>11, <2>2, <4>2, <5>1 DEF Evicted
        <5>3. EventTime[m.tx] \in Nat /\ arrived[s] - Lateness <= EventTime[m.tx]
          BY <1>11, <4>2, <5>1
        <5> QED
          BY <1>7, <2>1, <4>2, <5>2, <5>3, Numbers
      <4> QED
        BY <1>12, <2>1, <4>1, <4>2
    <3> QED
      BY <3>1, <3>2 DEF Evicted
  <2>3. CASE Underway(u)
    <3>0. PICK x \in Subtask : \E i \in DOMAIN channel[x] : Record(channel[x][i]) /\ channel[x][i].tx = u
      BY <2>3 DEF Underway
    <3>1. PICK i \in DOMAIN channel[x] : Record(channel[x][i]) /\ channel[x][i].tx = u
      BY <3>0
    <3>2. CASE x = s /\ i = 1
      <4>1. Record(m) /\ m.tx = u
        BY <1>3, <3>1, <3>2
      <4> QED
        BY <1>12, <4>1 DEF Counted
    <3>3. CASE x = s /\ i # 1
      <4>1. i - 1 \in DOMAIN channel'[s] /\ channel'[s][i - 1] = channel[s][i]
        BY <1>3, <3>1, <3>3
      <4>2. Underway(u)'
        BY <3>1, <3>3, <4>1 DEF Underway
      <4> QED
        BY <4>2 DEF Counted
    <3>4. CASE x # s
      <4>1. Underway(u)'
        BY <1>4, <3>1, <3>4 DEF Underway
      <4> QED
        BY <4>1 DEF Counted
    <3> QED
      BY <3>2, <3>3, <3>4
  <2>4. CASE ~ Underway(u)
    <3>1. ASSUME NEW k \in KeysOf[u] PROVE state'.history[k][u] # Absent \/ Evicted(k, u)'
      <4>1. state.history[k][u] # Absent \/ Evicted(k, u)
        BY <1>16, <2>1, <2>4 DEF Core, Counted
      <4> QED
        BY <1>12, <2>1, <2>2, <4>1
    <3> QED
      BY <3>1 DEF Counted
  <2> QED
    BY <2>3, <2>4
<1> QED
  BY <1>9, <1>10, <1>13, <1>14, <1>15, <1>16 DEF Core

\* What a timer adds to the topics is about its group.
LEMMA AnsweredTopics ==
  ASSUME StreamInv, NEW k \in StateKey, NEW at \in Nat, NEW o, o = Answered(k, at)
  PROVE  /\ out.online \subseteq o.online
         /\ \A r \in o.online : r \in out.online \/
              \E t \in Group(k, at) : r = [key |-> k, at |-> at, tx |-> t, window |-> Snapshot(k, at)]
         /\ \A a \in Attempt : o.retry[a] > 0 => out.retry[a] > 0 \/ a[1] \in Group(k, at)
         /\ o.dlq \subseteq out.dlq \cup Group(k, at)
<1> DEFINE group == Group(k, at)
<1> DEFINE window == Snapshot(k, at)
<1> DEFINE again == {<<t, state.history[k][t] + 1>> : t \in group}
<1>1. out \in OutType
  BY DEF StreamInv, StreamType
<1>2. CASE ~ Fails(k, window)
  <2> DEFINE rows == {[key |-> k, at |-> at, tx |-> t, window |-> window] : t \in group}
  <2>1. o = [out EXCEPT !.online = @ \cup rows]
    BY <1>2 DEF Answered
  <2>2. \A r \in rows : \E t \in group : r = [key |-> k, at |-> at, tx |-> t, window |-> window]
    OBVIOUS
  <2> HIDE DEF rows
  <2>3. o.online = out.online \cup rows /\ o.retry = out.retry /\ o.dlq = out.dlq
    BY <1>1, <2>1 DEF OutType
  <2> QED
    BY <2>2, <2>3
<1>3. CASE Fails(k, window)
  <2> DEFINE retry == [a \in Attempt |-> IF a \in again THEN out.retry[a] + 1 ELSE out.retry[a]]
  <2> DEFINE dead == {t \in group : state.history[k][t] + 1 > MaxRetries}
  <2> DEFINE failed == {<<k, t>> : t \in group}
  <2>1. o = [out EXCEPT !.retry = retry, !.dlq = @ \cup dead, !.failed = @ \cup failed]
    BY <1>3 DEF Answered
  <2>2. \A a \in Attempt : retry[a] > 0 => out.retry[a] > 0 \/ a \in again
    OBVIOUS
  <2>3. \A a \in again : a[1] \in group
    OBVIOUS
  <2>4. dead \subseteq group
    OBVIOUS
  <2> HIDE DEF retry, failed, dead, again
  <2>5. o.online = out.online /\ o.retry = retry /\ o.dlq = out.dlq \cup dead
    BY <1>1, <2>1 DEF OutType
  <2> QED
    BY <2>2, <2>3, <2>4, <2>5
<1> QED
  BY <1>2, <1>3

\* The group a timer answers is the first of its key, and behind every watermark the clock
\* waited for.
LEMMA FirstDue ==
  ASSUME StreamAssumption, StreamInv, NEW k \in StateKey, Due(k) # {}
  PROVE  LET at == SetMin(Due(k)) IN
         /\ at \in Nat /\ at \in state.pending[k]
         /\ \A s \in Subtask : Waited(s) /\ arrived[s] \in Clock =>
              /\ at + Lateness + 1 <= arrived[s]
              /\ \A later \in state.pending[k] : at <= later
<1> DEFINE at == SetMin(Due(k))
<1>1. state.pending[k] \subseteq Nat /\ Due(k) \subseteq state.pending[k]
  BY DEF StreamInv, StreamType, StateType, Due
<1>2. at \in Due(k) /\ \A x \in Due(k) : at <= x
  BY <1>1, SetMinIsLeast DEF Clock
<1> HIDE DEF at
<1>3. at \in Nat /\ at + Lateness + 1 <= clock
  BY <1>1, <1>2 DEF Due, Timer
<1>4. ASSUME NEW s \in Subtask, Waited(s), arrived[s] \in Clock
      PROVE  /\ at + Lateness + 1 <= arrived[s]
             /\ \A later \in state.pending[k] : at <= later
  <2>1. clock \in Int /\ arrived[s] \in Int /\ clock <= arrived[s]
    BY <1>4 DEF Waited, Clock, NoTime
  <2>2. at + Lateness + 1 <= arrived[s]
    BY <1>3, <2>1, Numbers
  <2>3. ASSUME NEW later \in state.pending[k] PROVE at <= later
    <3>1. CASE later \in Due(k)
      BY <1>2, <3>1
    <3>2. CASE ~ (later + Lateness + 1 <= clock)
      BY <1>1, <1>3, <2>1, <3>2, Numbers
    <3> QED
      BY <3>1, <3>2 DEF Due, Timer
  <2> QED
    BY <2>2, <2>3
<1> QED
  BY <1>1, <1>2, <1>3, <1>4 DEF at

LEMMA FireCore ==
  ASSUME StreamAssumption, StreamInv, Clocks, Core, NEW k \in StateKey, Fire(k)
  PROVE  Core'
<1> DEFINE at == SetMin(Due(k))
<1>1. /\ at \in Nat /\ at \in state.pending[k]
      /\ \A s \in SteadySubtask : /\ at + Lateness + 1 <= arrived[s] /\ arrived[s] \in Int
                                 /\ \A later \in state.pending[k] : at <= later
  <2>1. ASSUME NEW s \in SteadySubtask
        PROVE  s \in Subtask /\ Waited(s) /\ arrived[s] \in Clock /\ arrived[s] \in Int
    BY <2>1 DEF SteadySubtask, Core, Clocks, Clock, NoTime
  <2> QED
    BY <2>1, FirstDue DEF Fire
<1>2. /\ out' = Answered(k, at) /\ UNCHANGED <<disposing, channel, arrived, standing, clock, idle>>
      /\ state' = [state EXCEPT
            !.history[k] = [t \in Tx |-> IF EventTime[t] < at - HistoryTtl THEN Absent ELSE @[t]],
            !.pending[k] = @ \ {at}]
  BY DEF Fire, valve
<1> HIDE DEF at
<1>3. state \in StateType /\ \A t \in Tx : EventTime[t] \in Nat
  BY Bounds DEF StreamInv, StreamType
<1>4. /\ \A x \in StateKey : x # k => state'.history[x] = state.history[x] /\ state'.pending[x] = state.pending[x]
      /\ state'.history[k] = [t \in Tx |-> IF EventTime[t] < at - HistoryTtl THEN Absent ELSE state.history[k][t]]
      /\ state'.pending[k] = state.pending[k] \ {at}
  BY <1>2, <1>3 DEF StateType
<1>5. \A x \in StateKey, t \in Tx : state'.history[x][t] # Absent => state.history[x][t] # Absent
  BY <1>4
<1>6. Eligible' = Eligible
  BY <1>2, AnsweredAccepts, EligibleSame
<1>7. Group(k, at) \subseteq Eligible /\ Group(k, at) \subseteq Tx
  BY DEF Group, InState, Core, Held
<1>8. \A x \in SteadySubtask : Ordered(x)' /\ Waited(x)'
  BY <1>2 DEF Core, Ordered, Waited
<1>9. Held'
  <2>1. \A t \in Tx, n \in 1 .. MaxRetries : out'.retry[<<t, n>>] > 0 => t \in Eligible
    <3> SUFFICES ASSUME NEW t \in Tx, NEW n \in 1 .. MaxRetries, out'.retry[<<t, n>>] > 0
                 PROVE  t \in Eligible
      OBVIOUS
    <3>1. <<t, n>> \in Attempt /\ <<t, n>>[1] = t
      BY Bounds
    <3>2. out.retry[<<t, n>>] > 0 \/ t \in Group(k, at)
      BY <1>1, <1>2, <3>1, AnsweredTopics
    <3> QED
      BY <1>7, <3>2 DEF Core, Held
  <2>2. out'.dlq \ Malformed \subseteq Eligible
    <3>1. out'.dlq \subseteq out.dlq \cup Group(k, at)
      BY <1>1, <1>2, AnsweredTopics
    <3> QED
      BY <1>7, <3>1 DEF Core, Held
  <2>3. \A s \in Subtask : \A i \in DOMAIN channel'[s] :
          Record(channel'[s][i]) => channel'[s][i].tx \in Eligible /\ SubtaskOf[channel'[s][i].tx] = s
    BY <1>2 DEF Core, Held
  <2>4. \A x \in StateKey, t \in Tx : state'.history[x][t] # Absent => x \in KeysOf[t] /\ t \in Eligible
    BY <1>5 DEF Core, Held
  <2> QED
    BY <1>6, <2>1, <2>2, <2>3, <2>4 DEF Held
<1>10. \A r \in out'.online :
         r \in out.online \/ (r.key = k /\ r.at = at /\ r.tx \in Group(k, at) /\ r.window = Snapshot(k, at))
  <2> SUFFICES ASSUME NEW r \in out'.online, r \notin out.online
               PROVE  r.key = k /\ r.at = at /\ r.tx \in Group(k, at) /\ r.window = Snapshot(k, at)
    OBVIOUS
  <2>1. PICK t \in Group(k, at) : r = [key |-> k, at |-> at, tx |-> t, window |-> Snapshot(k, at)]
    BY <1>1, <1>2, AnsweredTopics
  <2> QED
    BY <2>1
<1>11. RowsAreOld'
  BY <1>1, <1>2, <1>6, <1>7, <1>10 DEF Core, RowsAreOld
<1>12. ASSUME NEW r, r.key = k, r.at = at, r.window = Snapshot(k, at) PROVE FinalRow(r)
  <2>1. ASSUME NEW t \in DueTo(r), Steady(t), SteadyGroup(k, at) PROVE t \in Snapshot(k, at)
    <3>0. /\ t \in Eligible /\ k \in KeysOf[t] /\ t \in Tx /\ EventTime[t] \in Nat
          /\ at - Window <= EventTime[t] /\ EventTime[t] < at
      BY <1>3, <1>12, <2>1 DEF Eligible, DueTo
    <3>1. SubtaskOf[t] \in SteadySubtask
      BY <2>1, <3>0, Bounds DEF Steady, SteadySubtask
    <3>2. ~ Underway(t)
      <4> SUFFICES ASSUME NEW s \in Subtask, NEW i \in DOMAIN channel[s],
                          Record(channel[s][i]), channel[s][i].tx = t
                   PROVE  FALSE
        BY DEF Underway
      <4>1. s = SubtaskOf[t] /\ channel[s][i] \in Packet
        <5>1. channel[s] \in Seq(Packet)
          BY DEF StreamInv, StreamType
        <5>2. channel[s][i] \in Packet
          BY <5>1
        <5> QED
          BY <5>2 DEF Core, Held
      <4>2. ~ Mark(channel[s][i])
        BY <4>1, Kinds
      <4>3. arrived[s] - Lateness <= EventTime[t]
        BY <3>1, <4>1, <4>2 DEF Core, Ordered, NotBefore
      <4>4. at + Lateness + 1 <= arrived[s] /\ arrived[s] \in Int
        BY <1>1, <3>1, <4>1
      <4> QED
        BY <1>1, <3>0, <4>3, <4>4, Numbers
    <3>3. ~ Evicted(k, t)
      <4>1. Evicted(k, t) => EventTime[t] + HistoryTtl < at
        BY <1>1, <2>1 DEF Evicted
      <4> QED
        BY <1>1, <3>0, <4>1, Numbers
    <3>4. state.history[k][t] # Absent
      BY <2>1, <3>0, <3>2, <3>3 DEF Core, Counted
    <3> QED
      BY <3>0, <3>4 DEF Snapshot, InState
  <2>2. \A t \in InState(k) : t \in Eligible /\ k \in KeysOf[t]
    BY DEF InState, Core, Held
  <2>3. Snapshot(k, at) \subseteq DueTo(r)
    BY <1>12, <2>2 DEF Snapshot, InState, DueTo
  <2> QED
    BY <1>12, <2>1, <2>3 DEF FinalRow
<1>13. ASSUME NEW r \in out'.online PROVE FinalRow(r)'
  <2>1. FinalRow(r)
    BY <1>10, <1>12 DEF Core
  <2> QED
    BY <1>6, <2>1 DEF FinalRow, DueTo, SteadyGroup
<1>14. ASSUME NEW u \in Eligible', Steady(u) PROVE Counted(u)'
  <2>1. u \in Eligible /\ u \in Tx /\ EventTime[u] \in Nat /\ KeysOf[u] \subseteq StateKey
    BY <1>3, <1>6, Bounds DEF Eligible
  <2>0. SubtaskOf[u] \in SteadySubtask
    BY <1>14, <2>1, Bounds DEF Steady, SteadySubtask
  <2>2. Underway(u) => Underway(u)'
    BY <1>2 DEF Underway
  <2>3. ASSUME NEW x \in KeysOf[u], Evicted(x, u) PROVE Evicted(x, u)'
    <3>1. state'.pending[x] \subseteq state.pending[x]
      BY <1>4, <2>1
    <3> QED
      BY <1>2, <1>6, <2>3, <3>1 DEF Evicted, SteadyGroup
  <2>4. ASSUME NEW x \in KeysOf[u], state.history[x][u] # Absent
        PROVE  state'.history[x][u] # Absent \/ Evicted(x, u)'
    <3>1. CASE x # k
      BY <1>4, <2>1, <2>4, <3>1
    <3>2. CASE x = k /\ ~ (EventTime[u] < at - HistoryTtl)
      BY <1>4, <2>1, <2>4, <3>2
    <3>3. CASE x = k /\ EventTime[u] < at - HistoryTtl
      <4>1. EventTime[u] + HistoryTtl < at
        BY <1>1, <2>1, <3>3, Numbers
      <4>2. ASSUME NEW s \in SteadySubtask PROVE EventTime[u] + HistoryTtl + Lateness + 1 < arrived'[s]
        <5>1. at + Lateness + 1 <= arrived[s] /\ arrived'[s] = arrived[s] /\ arrived[s] \in Int
          BY <1>1, <1>2
        <5> QED
          BY <1>1, <2>1, <4>1, <5>1, Numbers
      <4>3. ASSUME NEW later \in state'.pending[x] PROVE EventTime[u] + HistoryTtl < later
        <5>1. later \in state.pending[k] /\ later \in Nat
          BY <1>3, <1>4, <3>3 DEF StateType
        <5>2. at <= later
          BY <1>1, <2>0, <5>1
        <5> QED
          BY <1>1, <2>1, <4>1, <5>1, <5>2, Numbers
      <4> QED
        BY <4>2, <4>3 DEF Evicted
    <3> QED
      BY <3>1, <3>2, <3>3
  <2> QED
    BY <1>14, <2>1, <2>2, <2>3, <2>4 DEF Core, Counted
<1> QED
  BY <1>8, <1>9, <1>11, <1>13, <1>14 DEF Core

\* A step that leaves the accepted history and the late topic alone.
LEMMA LateQuiet ==
  ASSUME LateOnly, out'.accepted = out.accepted, out'.late = out.late,
         \A t \in Tx : offsets'.raw[t] = 0 => offsets.raw[t] = 0
  PROVE  LateOnly'
BY EligibleSame DEF LateOnly

\* A record enters the late topic as the first copy of its transaction, or has another.
LEMMA ReadNewLate ==
  ASSUME StreamAssumption, StreamInv, Clocks, LateOnly, NEW t \in Tx, ReadNew(t)
  PROVE  LateOnly'
<1>1. PICK d : d = Disposition(disposing[SubtaskOf[t]], EventTime[t])
  OBVIOUS
<1>2. offsets \in OffsetsType /\ offsets.raw[t] \in Nat /\ Copies[t] \in Nat
  BY DEF StreamInv, StreamType, OffsetsType, StreamAssumption
<1>3. /\ offsets.raw[t] < Copies[t] /\ t \notin Malformed /\ Dispose(t, 0) /\ 0 \in Count
      /\ \A x \in Tx : x # t => offsets'.raw[x] = offsets.raw[x]
      /\ offsets'.raw[t] = offsets.raw[t] + 1
  BY <1>2, Bounds DEF ReadNew, Unread, Count, OffsetsType
<1>4. /\ out'.late = IF d = "TOO_LATE" THEN out.late \cup {t} ELSE out.late
      /\ out'.accepted = [out.accepted EXCEPT ![t] = Append(@, d)]
  <2>1. 0 \in Count /\ Dispose(t, 0)
    BY <1>3
  <2>2. out'.accepted = [out.accepted EXCEPT ![t] = Append(@, d)]
    BY <1>1, <2>1, Classified
  <2>3. d = "TOO_LATE" => out'.late = out.late \cup {t}
    BY <1>1, <2>1, Classified
  <2>4. d # "TOO_LATE" => out'.late = out.late
    BY <1>1, <2>1, Classified
  <2> QED
    BY <2>2, <2>3, <2>4
<1>5. out.accepted \in [Tx -> Seq(Answer)]
  BY DEF StreamInv, StreamType, OutType
<1>6. \A x \in Tx : x # t => out'.accepted[x] = out.accepted[x] /\ (x \in Eligible' <=> x \in Eligible)
  <2>1. \A x \in Tx : x # t => out'.accepted[x] = out.accepted[x]
    BY <1>4, <1>5
  <2> QED
    BY <2>1 DEF Eligible
<1>7. ASSUME t \in out'.late, Copies[t] = 1 PROVE t \notin Eligible'
  <2>1. out.accepted[t] = <<>> /\ t \notin out.late
    BY <1>2, <1>3, <1>7 DEF LateOnly
  <2>2. d = "TOO_LATE"
    BY <1>4, <1>7, <2>1
  <2>3. out'.accepted[t] = <<d>>
    BY <1>4, <1>5, <2>1
  <2>4. \A i \in DOMAIN out'.accepted[t] : out'.accepted[t][i] = d
    BY <2>3
  <2> QED
    BY <2>2, <2>4 DEF Eligible
<1>8. ASSUME NEW x \in Tx
      PROVE  /\ offsets'.raw[x] = 0 => out'.accepted[x] = <<>> /\ x \notin out'.late
             /\ x \in out'.late => x \notin Malformed /\ (Copies[x] = 1 => x \notin Eligible')
  <2>1. CASE x = t
    <3>1. offsets'.raw[t] # 0
      BY <1>2, <1>3
    <3> QED
      BY <1>3, <1>7, <2>1, <3>1
  <2>2. CASE x # t
    <3>1. x \in out'.late <=> x \in out.late
      BY <1>4, <2>2
    <3> QED
      BY <1>3, <1>6, <2>2, <3>1 DEF LateOnly
  <2> QED
    BY <2>1, <2>2
<1> QED
  BY <1>8 DEF LateOnly

LEMMA ClocksStep ==
  ASSUME StreamAssumption, StreamInv, Clocks, restarts \in Nat, [Next]_vars
  PROVE  /\ Clocks' /\ restarts' \in Nat
         /\ restarts' = 0 => restarts = 0 /\ ~ Restart
<1>1. CASE UNCHANGED <<arrived, standing, disposing, restarts>> /\ ~ Restart
  BY <1>1 DEF Clocks
<1>2. \A t \in Tx : ReadMalformed(t) \/ ReadDuplicate(t) \/ ReadNew(t) \/ Expire(t) =>
        UNCHANGED <<arrived, standing, disposing, restarts>>
  BY DEF ReadMalformed, ReadDuplicate, ReadNew, Expire, valve
<1>3. \A t \in Tx, n \in 1 .. MaxRetries : ReadRetry(t, n) => UNCHANGED <<arrived, standing, disposing, restarts>>
  BY DEF ReadRetry, valve
<1>4. ASSUME NEW s \in Subtask, Receive(s) PROVE Clocks' /\ restarts' = restarts
  <2>1. PICK m \in Packet : m = Head(channel[s])
    BY <1>4, Received
  <2>2. Mark(m) => m.mark \in Nat
    BY Kinds
  <2>3. /\ UNCHANGED <<disposing, restarts>>
        /\ \/ UNCHANGED valve
           \/ Mark(m) /\ TakeMark(s, m.mark)
           \/ TakeIdle(s)
    BY <1>4, <2>1, Received
  <2>4. CASE UNCHANGED valve
    BY <2>3, <2>4 DEF Clocks, valve
  <2>5. CASE Mark(m) /\ TakeMark(s, m.mark)
    <3>1. /\ arrived' = [arrived EXCEPT ![s] = m.mark]
          /\ standing' = [standing EXCEPT ![s] = IF m.mark >= clock THEN "aligned" ELSE "behind"]
      BY <2>5 DEF TakeMark
    <3>2. arrived' \in [Subtask -> Clock]
      BY <2>2, <2>5, <3>1 DEF Clocks, Clock
    <3>3. standing' \in [Subtask -> {"aligned", "behind", "idle"}]
      BY <3>1 DEF Clocks
    <3> QED
      BY <2>3, <3>2, <3>3 DEF Clocks
  <2>6. CASE TakeIdle(s)
    BY <2>3, <2>6 DEF TakeIdle, Clocks
  <2> QED
    BY <2>3, <2>4, <2>5, <2>6
<1>5. ASSUME NEW s \in Subtask, NEW w \in 0 .. maxTime, Watermark(s, w) PROVE Clocks' /\ restarts' = restarts
  <2>1. w \in Nat /\ disposing' = [disposing EXCEPT ![s] = w] /\ UNCHANGED <<arrived, standing, restarts>>
    BY <1>5 DEF Watermark, valve
  <2> QED
    BY <2>1 DEF Clocks, Clock
<1>11. \A s \in Subtask : Idle(s) => UNCHANGED <<arrived, standing, disposing, restarts>>
  BY DEF Idle, valve
<1>6. \A k \in StateKey : Fire(k) => UNCHANGED <<arrived, standing, disposing, restarts>>
  BY DEF Fire, valve
<1>7. Checkpoint => UNCHANGED <<arrived, standing, disposing, restarts>>
  BY DEF Checkpoint, valve
<1>8. Restart => Clocks' /\ restarts' = restarts + 1
  BY DEF Restart, Restored, Clocks, Clock
<1>9. UNCHANGED vars => UNCHANGED <<arrived, standing, disposing, restarts>>
  BY DEF vars, valve
<1>10. (Clocks' /\ restarts' = restarts) \/ (Restart /\ Clocks' /\ restarts' = restarts + 1)
  <2>1. UNCHANGED <<arrived, standing, disposing, restarts>> => Clocks' /\ restarts' = restarts
    BY DEF Clocks
  <2> QED
    BY <1>2, <1>3, <1>4, <1>5, <1>6, <1>7, <1>8, <1>9, <1>11, <2>1 DEF Next, Streaming
<1> QED
  BY <1>8, <1>10

LEMMA InitFinal ==
  ASSUME StreamAssumption, Init
  PROVE  FinalInv
<1>1. Eligible = {}
  BY DEF Init, Eligible
<1>2. /\ \A s \in Subtask : channel[s] = <<>> /\ arrived[s] = NoTime /\ disposing[s] = NoTime
      /\ out.online = {} /\ out.dlq = {} /\ out.late = {}
      /\ \A t \in Tx : out.accepted[t] = <<>>
      /\ \A k \in StateKey, t \in Tx : state.history[k][t] = Absent
  BY DEF Init
<1>9. idle = {} /\ clock = NoTime /\ \A s \in Subtask : standing[s] = "aligned"
  BY DEF Init
<1>3. \A t \in Tx, n \in 1 .. MaxRetries : ~ (out.retry[<<t, n>>] > 0)
  <2> SUFFICES ASSUME NEW t \in Tx PROVE \A n \in 1 .. MaxRetries : ~ (out.retry[<<t, n>>] > 0)
    OBVIOUS
  <2>1. \A n \in 1 .. MaxRetries : out.retry[<<t, n>>] = 0
    BY Bounds DEF Init
  <2> QED
    BY <2>1
<1>4. \A s \in SteadySubtask : Ordered(s) /\ Waited(s)
  BY <1>2, <1>9 DEF Ordered, Waited, NoTime, Clock, SteadySubtask
<1>5. Held
  BY <1>1, <1>2, <1>3 DEF Held
<1>6. Core
  BY <1>1, <1>2, <1>4, <1>5 DEF Core, RowsAreOld
<1>7. LateOnly
  BY <1>2 DEF LateOnly
<1>8. Clocks /\ restarts \in Nat
  BY DEF Init, Clocks, Clock
<1> QED
  BY <1>6, <1>7, <1>8 DEF FinalInv

LEMMA FinalStep ==
  ASSUME StreamAssumption, StreamInv, StreamInv', FinalInv, [Next]_vars
  PROVE  FinalInv'
<1>1. Clocks' /\ restarts' \in Nat /\ (restarts' = 0 => restarts = 0 /\ ~ Restart)
  BY ClocksStep DEF FinalInv
<1> SUFFICES ASSUME restarts' = 0 PROVE Core' /\ LateOnly'
  BY <1>1 DEF FinalInv
<1>2. Clocks /\ Core /\ LateOnly /\ ~ Restart
  BY <1>1 DEF FinalInv
<1>3. /\ out \in OutType /\ state \in StateType
      /\ offsets \in OffsetsType /\ offsets' \in OffsetsType
  BY DEF StreamInv, StreamType
<1>4. out.dlq \ Malformed \subseteq Eligible
  BY <1>2 DEF Core, Held
<1>5. ASSUME NEW t \in Tx, ReadMalformed(t) PROVE Core' /\ LateOnly'
  <2>1. /\ out'.accepted = out.accepted /\ out'.late = out.late /\ out'.online = out.online
        /\ out'.retry = out.retry /\ out'.dlq = out.dlq \cup {t}
        /\ t \in Malformed /\ UNCHANGED <<state, channel, valve, disposing, idle>>
    BY <1>3, <1>5 DEF ReadMalformed, OutType
  <2>2. \A x \in Tx : offsets'.raw[x] = 0 => offsets.raw[x] = 0
    BY <1>3, <1>5 DEF ReadMalformed, OffsetsType
  <2>3. out'.dlq \ Malformed \subseteq Eligible
    BY <1>4, <2>1
  <2> QED
    BY <1>2, <2>1, <2>2, <2>3, EligibleSame, QuietCore, LateQuiet
<1>6. ASSUME NEW t \in Tx, ReadDuplicate(t) PROVE Core' /\ LateOnly'
  <2>1. UNCHANGED <<out, state, channel, valve, disposing, idle>>
    BY <1>6 DEF ReadDuplicate
  <2>2. \A x \in Tx : offsets'.raw[x] = 0 => offsets.raw[x] = 0
    BY <1>3, <1>6 DEF ReadDuplicate, OffsetsType
  <2> QED
    BY <1>2, <1>4, <2>1, <2>2, EligibleSame, QuietCore, LateQuiet
<1>7. ASSUME NEW t \in Tx, ReadNew(t) PROVE Core' /\ LateOnly'
  <2>1. /\ Dispose(t, 0) /\ 0 \in Count /\ UNCHANGED <<valve, disposing, idle>>
        /\ state'.history = state.history /\ state'.pending = state.pending
    BY <1>3, <1>7, Bounds DEF ReadNew, Count, StateType
  <2>2. Core'
    BY <1>2, <2>1, DisposeCore
  <2> QED
    BY <1>2, <1>7, <2>2, ReadNewLate
<1>8. ASSUME NEW t \in Tx, NEW n \in 1 .. MaxRetries, ReadRetry(t, n) PROVE Core' /\ LateOnly'
  <2>1. Dispose(t, n) /\ n \in Count /\ n # 0 /\ UNCHANGED <<state, valve, disposing, idle>>
    BY <1>8, Bounds DEF ReadRetry, Count
  <2>2. out.retry[<<t, n>>] > 0
    <3>1. <<t, n>> \in Attempt
      BY Bounds
    <3>2. offsets.retry[<<t, n>>] \in Nat /\ out.retry[<<t, n>>] \in Nat
      BY <1>3, <3>1 DEF OffsetsType, OutType
    <3> QED
      BY <1>8, <3>2 DEF ReadRetry
  <2>3. t \in Eligible
    BY <1>2, <2>2 DEF Core, Held
  <2>4. Core'
    BY <1>2, <2>1, <2>3, DisposeCore
  <2>5. out'.accepted = out.accepted /\ out'.late = out.late
    BY <2>1, Classified
  <2>6. offsets'.raw = offsets.raw
    BY <1>3, <1>8 DEF ReadRetry, OffsetsType
  <2> QED
    BY <1>2, <2>4, <2>5, <2>6, LateQuiet
<1>9. ASSUME NEW t \in Tx, Expire(t) PROVE Core' /\ LateOnly'
  <2>1. /\ UNCHANGED <<offsets, out, channel, valve, disposing, idle>>
        /\ state'.history = state.history /\ state'.pending = state.pending
    BY <1>3, <1>9 DEF Expire, StateType
  <2> QED
    BY <1>2, <1>4, <2>1, EligibleSame, QuietCore, LateQuiet
<1>10. ASSUME NEW s \in Subtask, NEW w \in 0 .. maxTime, Watermark(s, w) PROVE Core' /\ LateOnly'
  <2>1. w \in Nat /\ UNCHANGED <<offsets, out>>
    BY <1>10 DEF Watermark
  <2> QED
    BY <1>1, <1>2, <1>10, <2>1, WatermarkCore, LateQuiet
<1>11. ASSUME NEW s \in Subtask, Receive(s) PROVE Core' /\ LateOnly'
  <2>1. UNCHANGED <<offsets, out>>
    BY <1>11 DEF Receive
  <2> QED
    BY <1>1, <1>2, <1>11, <2>1, ReceiveCore, LateQuiet
<1>14. ASSUME NEW s \in Subtask, Idle(s) PROVE Core' /\ LateOnly'
  <2>1. UNCHANGED <<offsets, out>>
    BY <1>14 DEF Idle
  <2> QED
    BY <1>2, <1>14, <2>1, IdleCore, LateQuiet
<1>12. ASSUME NEW k \in StateKey, Fire(k) PROVE Core' /\ LateOnly'
  <2>1. /\ out'.accepted = out.accepted /\ out'.late = out.late /\ UNCHANGED offsets
    BY <1>12, AnsweredAccepts DEF Fire
  <2> QED
    BY <1>2, <1>12, <2>1, FireCore, LateQuiet
<1>13. CASE Checkpoint \/ UNCHANGED vars
  <2>1. UNCHANGED <<offsets, state, out, channel, valve, disposing, idle>>
    BY <1>13 DEF Checkpoint, vars
  <2> QED
    BY <1>2, <1>4, <2>1, EligibleSame, QuietCore, LateQuiet
<1> QED
  BY <1>2, <1>5, <1>6, <1>7, <1>8, <1>9, <1>10, <1>11, <1>12, <1>13, <1>14 DEF Next, Streaming

\* The reason the runs check: watermarks, held state and topics agree until a restart.
THEOREM FinalInvariance ==
  ASSUME StreamAssumption
  PROVE  Spec => []FinalInv
<1>1. Init => FinalInv
  BY InitFinal
<1>2. StreamInv /\ StreamInv' /\ FinalInv /\ [Next]_vars => FinalInv'
  BY FinalStep
<1> QED
  BY <1>1, <1>2, StreamInvariance, PTL DEF Spec

\* A snapshot published before the first restart holds only eligible transactions of its
\* window, and of those of subtasks that never idle every one: not one is missing that is
\* still in a channel, evicted, or read later.  Of a group that holds a record of a subtask
\* that may idle nothing more is said, for it may be answered again after an eviction.
THEOREM SnapshotsStayFinalHolds ==
  ASSUME StreamAssumption
  PROVE  Spec => []SnapshotsStayFinal
<1>1. ASSUME FinalInv, restarts = 0, NEW r \in out.online PROVE FinalRow(r)
  BY <1>1 DEF FinalInv, Core
<1>2. FinalInv => SnapshotsStayFinal
  BY <1>1 DEF SnapshotsStayFinal, SnapshotsAreFinal, FinalRow, DueTo, SteadyGroup, Steady
<1> QED
  BY <1>2, FinalInvariance, PTL

\* Before the first restart, nothing on the late topic that was delivered once is published,
\* counted in a snapshot, or dead.
THEOREM LateStaysOfflineHolds ==
  ASSUME StreamAssumption
  PROVE  Spec => []LateStaysOffline
<1>1. ASSUME StreamInv, FinalInv, restarts = 0 PROVE TooLateStaysOffline
  <2>1. out.late \subseteq Tx
    BY <1>1 DEF StreamInv, StreamType, OutType
  <2> SUFFICES ASSUME NEW t \in out.late, Copies[t] = 1
               PROVE  t \notin out.dlq /\ \A r \in out.online : r.tx # t /\ t \notin r.window
    BY DEF TooLateStaysOffline
  <2>2. t \notin Malformed /\ t \notin Eligible
    BY <1>1, <2>1 DEF FinalInv, LateOnly
  <2>3. t \notin out.dlq
    BY <1>1, <2>2 DEF FinalInv, Core, Held
  <2>4. ASSUME NEW r \in out.online PROVE r.tx # t /\ t \notin r.window
    BY <1>1, <2>2 DEF FinalInv, Core, RowsAreOld, FinalRow, DueTo
  <2> QED
    BY <2>3, <2>4
<1>2. StreamInv /\ FinalInv => LateStaysOffline
  BY <1>1 DEF LateStaysOffline
<1> QED
  BY <1>2, StreamInvariance, FinalInvariance, PTL
-----------------------------------------------------------------------------
(* PublishesEligible, through restarts.  What the job holds was accepted as *)
(* eligible, or is retried; so is what its checkpoint holds, by the         *)
(* accepted history and the retries of the checkpoint, which no restart     *)
(* takes away.                                                              *)

EligibleIn(o) == {t \in Tx : \E i \in DOMAIN o.accepted[t] : o.accepted[t][i] # "TOO_LATE"}
RetriedIn(o) == {t \in Tx : \E n \in 1 .. MaxRetries : o.retry[<<t, n>>] > 0}
Known(o) == EligibleIn(o) \cup RetriedIn(o)

\* All that the managed state `st', or the channels `ch', hold is in `ok'.
Within(st, ok) == \A k \in StateKey, t \in Tx : st.history[k][t] # Absent => t \in ok

SentOn(ch, ok) ==
  \A s \in Subtask : \A i \in DOMAIN ch[s] : Record(ch[s][i]) => ch[s][i].tx \in ok

KnownInv ==
  /\ SentOn(channel, Known(out)) /\ Within(state, Known(out))
  /\ Within(checkpoint.state, Known(checkpoint.out))
  /\ EligibleIn(checkpoint.out) \subseteq EligibleIn(out)
  /\ checkpoint.out.online \subseteq out.online

LEMMA KnownIs ==
  /\ Eligible = EligibleIn(out) /\ Retried = RetriedIn(out)
  /\ Known(out) = Eligible \cup Retried
  BY DEF Eligible, EligibleIn, Retried, RetriedIn, Known

LEMMA KnownKept ==
  ASSUME KnownInv, UNCHANGED checkpoint, EligibleIn(out) \subseteq EligibleIn(out'),
         out.online \subseteq out'.online, SentOn(channel', Known(out')), Within(state', Known(out'))
  PROVE  KnownInv'
<1>1. SentOn(channel, Known(out))' /\ Within(state, Known(out))'
  OBVIOUS
<1>2. Within(checkpoint.state, Known(checkpoint.out))'
  BY DEF KnownInv
<1>3. (EligibleIn(checkpoint.out) \subseteq EligibleIn(out))'
  BY DEF KnownInv
<1> QED
  BY <1>1, <1>2, <1>3 DEF KnownInv

\* More that is known holds what it held.
LEMMA KnownGrows ==
  ASSUME Grown(out, out'), EligibleIn(out) \subseteq EligibleIn(out')
  PROVE  Known(out) \subseteq Known(out')
<1>1. \A t \in Tx, n \in 1 .. MaxRetries : <<t, n>> \in Attempt
  BY DEF Attempt
<1>2. RetriedIn(out) \subseteq RetriedIn(out')
  BY <1>1 DEF Grown, RetriedIn
<1> QED
  BY <1>2 DEF Known

\* A record sent on is accepted as eligible first, or is retried.
LEMMA DisposeKnown ==
  ASSUME StreamAssumption, StreamInv, Clocks, KnownInv, NEW t \in Tx, NEW count \in Count,
         count = 0 \/ t \in RetriedIn(out), Dispose(t, count), state'.history = state.history,
         UNCHANGED checkpoint
  PROVE  KnownInv' /\ UNCHANGED <<out.online, out.dlq>>
<1>1. PICK d : d = Disposition(disposing[SubtaskOf[t]], EventTime[t])
  OBVIOUS
<1>2. out'.online = out.online /\ out'.retry = out.retry /\ out'.dlq = out.dlq
  BY <1>1, Classified
<1>3. /\ EligibleIn(out) \subseteq EligibleIn(out')
      /\ count = 0 /\ d # "TOO_LATE" => t \in EligibleIn(out')
  <2>1. CASE count = 0
    <3>1. /\ d = "TOO_LATE" => Eligible' = Eligible
          /\ d # "TOO_LATE" => Eligible' = Eligible \cup {t}
      BY <1>1, <2>1, EligibleGrows
    <3>2. Eligible' = EligibleIn(out')
      BY DEF Eligible, EligibleIn
    <3> QED
      BY <3>1, <3>2, KnownIs
  <2>2. CASE count # 0
    <3>1. out'.accepted = out.accepted
      BY <1>1, <2>2, Classified
    <3> QED
      BY <2>2, <3>1 DEF EligibleIn
  <2> QED
    BY <2>1, <2>2
<1>4. RetriedIn(out') = RetriedIn(out)
  BY <1>2 DEF RetriedIn
<1>5. Known(out) \subseteq Known(out') /\ (d # "TOO_LATE" => t \in Known(out'))
  BY <1>3, <1>4 DEF Known
<1>6. Within(state', Known(out'))
  BY <1>5 DEF KnownInv, Within
<1>7. channel \in [Subtask -> Seq(Packet)] /\ [tx |-> t, count |-> count] \in Packet
  BY DEF StreamInv, StreamType, Packet
<1>8. SentOn(channel', Known(out'))
  <2>1. CASE d = "TOO_LATE"
    <3>1. channel' = channel
      BY <1>1, <2>1 DEF Dispose
    <3> QED
      BY <1>5, <3>1 DEF KnownInv, SentOn
  <2>2. CASE d # "TOO_LATE"
    <3>1. PICK packet \in Packet :
            /\ packet = [tx |-> t, count |-> count]
            /\ channel' = [channel EXCEPT ![SubtaskOf[t]] = Append(@, packet)]
      BY <1>1, <1>7, <2>2 DEF Dispose
    <3>2. packet.tx = t /\ SubtaskOf[t] \in Subtask
      BY <3>1, Bounds
    <3>3. ASSUME NEW s \in Subtask, NEW i \in DOMAIN channel'[s], Record(channel'[s][i])
          PROVE  channel'[s][i].tx \in Known(out')
      <4>1. channel'[s][i] = packet \/ (i \in DOMAIN channel[s] /\ channel'[s][i] = channel[s][i])
        BY <3>1, <3>2, <3>3, AppendKeeps
      <4> QED
        BY <1>5, <2>2, <3>2, <3>3, <4>1 DEF KnownInv, SentOn
    <3> QED
      BY <3>3 DEF SentOn
  <2> QED
    BY <2>1, <2>2
<1> QED
  BY <1>2, <1>3, <1>6, <1>8, KnownKept

\* A watermark or an idle mark is no record.
LEMMA SignalKnown ==
  ASSUME StreamAssumption, StreamInv, KnownInv, NEW s \in Subtask, NEW packet \in Packet,
         ~ Record(packet), UNCHANGED <<state, out, checkpoint>>,
         channel' = [channel EXCEPT ![s] = Append(@, packet)]
  PROVE  KnownInv' /\ UNCHANGED <<out.online, out.dlq>>
<1>1. ASSUME NEW x \in Subtask, NEW i \in DOMAIN channel'[x], Record(channel'[x][i])
      PROVE  channel'[x][i].tx \in Known(out)
  <2>1. i \in DOMAIN channel[x] /\ channel'[x][i] = channel[x][i]
    BY <1>1, AppendKeeps
  <2> QED
    BY <1>1, <2>1 DEF KnownInv, SentOn
<1>2. SentOn(channel', Known(out'))
  BY <1>1 DEF SentOn
<1> QED
  BY <1>2, KnownKept DEF KnownInv

\* What the feature state takes from a channel was sent on.
LEMMA ReceiveKnown ==
  ASSUME StreamAssumption, StreamInv, KnownInv, NEW s \in Subtask, Receive(s)
  PROVE  KnownInv' /\ UNCHANGED <<out.online, out.dlq>>
<1>1. PICK m \in Packet : m = Head(channel[s])
  BY Received
<1>2. /\ channel \in [Subtask -> Seq(Packet)] /\ channel[s] # <<>>
      /\ channel' = [channel EXCEPT ![s] = Tail(@)] /\ UNCHANGED <<out, checkpoint>>
      /\ (Record(m) /\ state' = Insert(m.tx, m.count)) \/ state' = state
  BY <1>1, Received
<1>3. m = channel[s][1] /\ 1 \in DOMAIN channel[s]
  BY <1>1, <1>2
<1>4. \A i \in DOMAIN channel'[s] : i + 1 \in DOMAIN channel[s] /\ channel'[s][i] = channel[s][i + 1]
  BY <1>2
<1>5. \A x \in Subtask : x # s => channel'[x] = channel[x]
  BY <1>2
<1>6. SentOn(channel', Known(out'))
  BY <1>2, <1>4, <1>5 DEF KnownInv, SentOn
<1>7. ASSUME NEW k \in StateKey, NEW t \in Tx, state'.history[k][t] # Absent PROVE t \in Known(out)
  <2>1. CASE state' = state
    BY <1>7, <2>1 DEF KnownInv, Within
  <2>2. CASE Record(m) /\ state' = Insert(m.tx, m.count)
    <3>1. m.tx \in Known(out)
      BY <1>3, <2>2 DEF KnownInv, SentOn
    <3>2. state.history \in [StateKey -> [Tx -> Count \cup {Absent}]] /\ state \in StateType
      BY DEF StreamInv, StreamType, StateType
    <3>3. t = m.tx \/ state'.history[k][t] = state.history[k][t]
      BY <2>2, <3>2 DEF Insert, StateType
    <3> QED
      BY <1>7, <3>1, <3>3 DEF KnownInv, Within
  <2> QED
    BY <1>2, <2>1, <2>2
<1>8. Within(state', Known(out'))
  BY <1>2, <1>7 DEF Within
<1> QED
  BY <1>2, <1>6, <1>8, KnownKept DEF KnownInv

\* A group and its window are from the history of the key.
LEMMA FireKnown ==
  ASSUME StreamAssumption, StreamInv, KnownInv, NEW k \in StateKey, Fire(k)
  PROVE  KnownInv' /\ PublishesOnly(Known(out))
<1>1. PICK at \in Nat : at = SetMin(Due(k))
  BY FirstDue DEF Fire
<1>2. /\ out' = Answered(k, at) /\ UNCHANGED <<channel, checkpoint>>
      /\ state' = [state EXCEPT
           !.history[k] = [t \in Tx |-> IF EventTime[t] < at - HistoryTtl THEN Absent ELSE @[t]],
           !.pending[k] = @ \ {at}]
  BY <1>1 DEF Fire
<1>3. Group(k, at) \subseteq Known(out) /\ Snapshot(k, at) \subseteq Known(out)
  BY DEF KnownInv, Within, Group, Snapshot, InState
<1>4. out'.accepted = out.accepted /\ Grown(out, out') /\ EligibleIn(out') = EligibleIn(out)
  BY <1>2, AnsweredAccepts, AnsweredKeeps DEF EligibleIn
<1>5. /\ out.online \subseteq out'.online
      /\ \A r \in out'.online : r \in out.online \/
           \E t \in Group(k, at) : r = [key |-> k, at |-> at, tx |-> t, window |-> Snapshot(k, at)]
      /\ out'.dlq \subseteq out.dlq \cup Group(k, at)
  BY <1>2, AnsweredTopics
<1>6. Known(out) \subseteq Known(out')
  BY <1>4, KnownGrows
<1>7. \A x \in StateKey, t \in Tx : state'.history[x][t] # Absent => state.history[x][t] # Absent
  <2>1. state.history \in [StateKey -> [Tx -> Count \cup {Absent}]] /\ state \in StateType
    BY DEF StreamInv, StreamType, StateType
  <2> QED
    BY <1>2, <2>1 DEF StateType
<1>8. Within(state', Known(out')) /\ SentOn(channel', Known(out'))
  BY <1>2, <1>6, <1>7 DEF KnownInv, Within, SentOn
<1>9. PublishesOnly(Known(out))
  <2>1. ASSUME NEW r \in out'.online \ out.online PROVE r.window \cup {r.tx} \subseteq Known(out)
    <3>1. PICK t \in Group(k, at) : r = [key |-> k, at |-> at, tx |-> t, window |-> Snapshot(k, at)]
      BY <1>5, <2>1
    <3>2. r.tx = t /\ r.window = Snapshot(k, at)
      BY <3>1
    <3> QED
      BY <1>3, <3>2
  <2> QED
    BY <1>3, <1>5, <2>1 DEF PublishesOnly
<1> QED
  BY <1>2, <1>4, <1>5, <1>8, <1>9, KnownKept

\* A restart goes back to a state that the topics it leaves know.
LEMMA RestartKnown ==
  ASSUME StreamAssumption, StreamInv, KnownInv, Restart
  PROVE  KnownInv' /\ out'.online \subseteq out.online /\ out'.dlq \subseteq out.dlq
<1>1. /\ state' = checkpoint.state /\ out' \in Surviving /\ checkpoint' = [checkpoint EXCEPT !.out = out']
      /\ \A s \in Subtask : channel'[s] = <<>>
  BY DEF Restart, Restored
<1>2. checkpoint'.state = checkpoint.state /\ checkpoint'.out = out'
  BY <1>1 DEF StreamInv, StreamType
<1>3. /\ \A t \in Tx : out'.accepted[t] \in {out.accepted[t], checkpoint.out.accepted[t]}
      /\ out'.online \subseteq out.online \cup checkpoint.out.online /\ out'.dlq \subseteq out.dlq
      /\ \A a \in Sure : out'.retry[a] > 0
  BY <1>1, Survives
<1>4. EligibleIn(checkpoint.out) \subseteq EligibleIn(out')
  <2> SUFFICES ASSUME NEW t \in EligibleIn(checkpoint.out) PROVE t \in EligibleIn(out')
    OBVIOUS
  <2>1. t \in EligibleIn(out) /\ t \in Tx
    BY DEF KnownInv, EligibleIn
  <2> QED
    BY <1>3, <2>1 DEF EligibleIn
<1>5. RetriedIn(checkpoint.out) \subseteq RetriedIn(out')
  <2>1. \A t \in Tx, n \in 1 .. MaxRetries : checkpoint.out.retry[<<t, n>>] > 0 => <<t, n>> \in Sure
    BY Bounds DEF Sure
  <2> QED
    BY <1>3, <2>1 DEF RetriedIn
<1>6. Within(state', Known(out'))
  BY <1>1, <1>4, <1>5 DEF KnownInv, Within, Known
<1>7. SentOn(channel', Known(out'))
  BY <1>1 DEF SentOn
<1>8. SentOn(channel, Known(out))' /\ Within(state, Known(out))' /\ Within(checkpoint.state, Known(checkpoint.out))'
  BY <1>1, <1>2, <1>6, <1>7
<1>9. /\ (EligibleIn(checkpoint.out) \subseteq EligibleIn(out))'
      /\ (checkpoint.out.online \subseteq out.online)'
  BY <1>2
<1> QED
  BY <1>3, <1>8, <1>9 DEF KnownInv

LEMMA KnownStep ==
  ASSUME StreamAssumption, StreamInv, Clocks, KnownInv, [Next]_vars
  PROVE  KnownInv' /\ PublishesOnly(Eligible \cup Retried)
<1>0. ASSUME out'.online \subseteq out.online, out'.dlq \subseteq out.dlq PROVE PublishesOnly(Eligible \cup Retried)
  BY <1>0 DEF PublishesOnly
<1>1. ASSUME NEW t \in Tx, ReadMalformed(t) PROVE KnownInv' /\ PublishesOnly(Eligible \cup Retried)
  <2>1. /\ out \in OutType /\ t \in Malformed /\ out' = [out EXCEPT !.dlq = @ \cup {t}]
        /\ UNCHANGED <<state, channel, checkpoint>>
    BY <1>1 DEF ReadMalformed, StreamInv, StreamType
  <2>2. /\ out'.accepted = out.accepted /\ out'.online = out.online /\ out'.retry = out.retry
        /\ out'.dlq = out.dlq \cup {t}
    BY <2>1 DEF OutType
  <2>3. EligibleIn(out') = EligibleIn(out) /\ Known(out') = Known(out)
    BY <2>2 DEF EligibleIn, RetriedIn, Known
  <2>4. SentOn(channel', Known(out')) /\ Within(state', Known(out'))
    BY <2>1, <2>3 DEF KnownInv, SentOn, Within
  <2>5. PublishesOnly(Eligible \cup Retried)
    BY <2>1, <2>2 DEF PublishesOnly
  <2> QED
    BY <2>1, <2>2, <2>3, <2>4, <2>5, KnownKept
<1>2. ASSUME NEW t \in Tx, ReadNew(t) PROVE KnownInv' /\ UNCHANGED <<out.online, out.dlq>>
  <2>1. Dispose(t, 0) /\ 0 \in Count /\ UNCHANGED checkpoint /\ state'.history = state.history
    BY <1>2, Bounds DEF ReadNew, Count, StreamInv, StreamType, StateType
  <2> QED
    BY <2>1, DisposeKnown
<1>3. ASSUME NEW t \in Tx, NEW n \in 1 .. MaxRetries, ReadRetry(t, n)
      PROVE  KnownInv' /\ UNCHANGED <<out.online, out.dlq>>
  <2>1. Dispose(t, n) /\ n \in Count /\ UNCHANGED <<state, checkpoint>>
    BY <1>3, Bounds DEF ReadRetry, Count
  <2>2. offsets.retry[<<t, n>>] \in Nat /\ out.retry[<<t, n>>] \in Nat
    BY Bounds DEF StreamInv, StreamType, OffsetsType, OutType
  <2>3. t \in RetriedIn(out)
    BY <1>3, <2>2 DEF ReadRetry, RetriedIn
  <2> QED
    BY <2>1, <2>3, DisposeKnown
<1>4. ASSUME UNCHANGED <<out, channel, checkpoint>>, state'.history = state.history
      PROVE  KnownInv' /\ UNCHANGED <<out.online, out.dlq>>
  <2>1. SentOn(channel', Known(out')) /\ Within(state', Known(out'))
    BY <1>4 DEF KnownInv, SentOn, Within
  <2> QED
    BY <1>4, <2>1, KnownKept
<1>5. ASSUME NEW t \in Tx, ReadDuplicate(t) \/ Expire(t) PROVE KnownInv' /\ UNCHANGED <<out.online, out.dlq>>
  BY <1>4, <1>5 DEF ReadDuplicate, Expire, StreamInv, StreamType, StateType
<1>6. ASSUME NEW s \in Subtask, NEW w \in 0 .. maxTime, Watermark(s, w)
      PROVE  KnownInv' /\ UNCHANGED <<out.online, out.dlq>>
  <2>1. [mark |-> w] \in Packet /\ ~ Record([mark |-> w])
    BY DEF Packet, Record
  <2> QED
    BY <1>6, <2>1, SignalKnown DEF Watermark
<1>7. ASSUME NEW s \in Subtask, Idle(s) PROVE KnownInv' /\ UNCHANGED <<out.online, out.dlq>>
  <2>1. [idle |-> TRUE] \in Packet /\ ~ Record([idle |-> TRUE])
    BY DEF Packet, Record
  <2> QED
    BY <1>7, <2>1, SignalKnown DEF Idle
<1>8. CASE Checkpoint
  <2>1. /\ UNCHANGED <<state, out, channel>>
        /\ checkpoint' = [offsets |-> offsets, state |-> state, out |-> out]
    BY <1>8 DEF Checkpoint
  <2>2. checkpoint'.state = state /\ checkpoint'.out = out
    BY <2>1
  <2>3. SentOn(channel, Known(out))' /\ Within(state, Known(out))' /\ Within(checkpoint.state, Known(checkpoint.out))'
    BY <2>1, <2>2 DEF KnownInv, SentOn, Within
  <2>4. /\ (EligibleIn(checkpoint.out) \subseteq EligibleIn(out))'
        /\ (checkpoint.out.online \subseteq out.online)'
    BY <2>1, <2>2
  <2> QED
    BY <1>0, <2>1, <2>3, <2>4 DEF KnownInv
<1>9. CASE UNCHANGED vars
  BY <1>0, <1>4, <1>9 DEF vars
<1>10. ASSUME NEW k \in StateKey, Fire(k) PROVE KnownInv' /\ PublishesOnly(Eligible \cup Retried)
  BY <1>10, FireKnown, KnownIs
<1>11. CASE Restart
  BY <1>0, <1>11, RestartKnown
<1>12. ASSUME NEW s \in Subtask, Receive(s) PROVE KnownInv' /\ UNCHANGED <<out.online, out.dlq>>
  BY <1>12, ReceiveKnown
<1>13. ASSUME UNCHANGED <<out.online, out.dlq>> PROVE PublishesOnly(Eligible \cup Retried)
  BY <1>0, <1>13
<1> QED
  BY <1>1, <1>2, <1>3, <1>5, <1>6, <1>7, <1>8, <1>9, <1>10, <1>11, <1>12, <1>13 DEF Next, Streaming

\* Through any number of restarts, whatever each sink loses at one, and whoever is idle:
\* what is published, counted or dead is at that time in the accepted history as eligible,
\* or was failed before and is retried.
THEOREM PublishesEligibleHolds ==
  ASSUME StreamAssumption
  PROVE  Spec => PublishesEligible
<1>1. Init => KnownInv
  <2> SUFFICES ASSUME Init PROVE KnownInv
    OBVIOUS
  <2>1. /\ checkpoint.state = state /\ checkpoint.out = out
        /\ \A s \in Subtask : channel[s] = <<>>
        /\ \A k \in StateKey, t \in Tx : state.history[k][t] = Absent
    BY DEF Init
  <2>2. SentOn(channel, Known(out)) /\ Within(state, Known(out))
    BY <2>1 DEF SentOn, Within
  <2> QED
    BY <2>1, <2>2 DEF KnownInv
<1>2. StreamInv /\ FinalInv /\ KnownInv /\ [Next]_vars => KnownInv' /\ [PublishesOnly(Eligible \cup Retried)]_vars
  BY KnownStep DEF FinalInv
<1> QED
  BY <1>1, <1>2, StreamInvariance, FinalInvariance, PTL DEF Spec, PublishesEligible
=============================================================================
