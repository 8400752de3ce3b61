-------------------------- MODULE HistorySinkProofs --------------------------
(***************************************************************************)
(* NothingSkipped for any number of consumers, partitions, messages and    *)
(* faults.  It is not inductive: a commit is safe because everything up to *)
(* the last message of a batch is in an object or in that same buffer, and *)
(* because the batch committed was uploaded.                               *)
(***************************************************************************)
EXTENDS HistorySink, TLAPS

\* Every offset of p before n is in an object or in the buffer s.
Covers(objects, s, p, n) ==
  \A o \in Offset : o < n => Stored(objects, p, o) \/ o \in OffsetsOf(s)

\* What a buffer holds is all that is missing up to its last message ...
BuffersCover(buf, objects) ==
  \A p \in Partition : buf[p] # <<>> => Covers(objects, buf[p], p, Last(buf[p]) + 1)

\* ... and up to the next message fetched.
FetchCovers(buf, asg, pos, objects) ==
  \A p \in asg : Covers(objects, buf[p], p, pos[p])

\* A batch being handled is not empty, and uploaded when it is to be committed.
BatchReady(where, s, p, objects) ==
  /\ where \in {"write", "commit", "flushWrite", "flushCommit"} => s # <<>>
  /\ where \in {"commit", "flushCommit"} => \A o \in OffsetsOf(s) : Stored(objects, p, o)

ConsumerSafe(c) ==
  /\ BuffersCover(buffer[c], written)
  /\ FetchCovers(buffer[c], assigned[c], position[c], written)
  /\ BatchReady(pc[c], buffer[c][batch[c]], batch[c], written)

SinkInv == TypeOK /\ NothingSkipped /\ \A c \in Consumer : ConsumerSafe(c)

-----------------------------------------------------------------------------
(* Sequences and objects.                                                  *)

\* Appending to a buffer adds one offset and makes it the last.
LEMMA AppendedBuffer ==
  ASSUME NEW s \in Seq(Offset), NEW e \in Offset
  PROVE  /\ Append(s, e) \in Seq(Offset) /\ Append(s, e) # <<>>
         /\ Last(Append(s, e)) = e
         /\ OffsetsOf(Append(s, e)) = OffsetsOf(s) \cup {e}
<1>1. Len(Append(s, e)) = Len(s) + 1 /\ Len(s) \in Nat
  OBVIOUS
<1>2. /\ \A i \in 1 .. Len(s) : Append(s, e)[i] = s[i]
      /\ Append(s, e)[Len(s) + 1] = e
  OBVIOUS
<1>3. 1 .. Len(s) + 1 = (1 .. Len(s)) \cup {Len(s) + 1}
  BY <1>1
<1>4. OffsetsOf(Append(s, e)) = OffsetsOf(s) \cup {e}
  BY <1>1, <1>2, <1>3 DEF OffsetsOf
<1> QED
  BY <1>1, <1>2, <1>4 DEF Last

\* The last offset of a buffer is one of it.
LEMMA LastHeld ==
  ASSUME NEW s \in Seq(Offset), s # <<>>
  PROVE  Last(s) \in Offset /\ Last(s) \in OffsetsOf(s)
<1>1. Len(s) \in 1 .. Len(s)
  OBVIOUS
<1> QED
  BY <1>1 DEF Last, OffsetsOf

\* An object holds each offset of the batch it was made of.
LEMMA ObjectHolds ==
  ASSUME NEW objects, NEW p, NEW s, <<p, s>> \in objects, NEW o \in OffsetsOf(s)
  PROVE  Stored(objects, p, o)
  BY DEF Stored

\* More objects cover more.
LEMMA MoreObjects ==
  ASSUME NEW objects, NEW more, objects \subseteq more,
         NEW buf, NEW asg, NEW pos, NEW where, NEW p,
         BuffersCover(buf, objects), FetchCovers(buf, asg, pos, objects),
         BatchReady(where, buf[p], p, objects)
  PROVE  /\ BuffersCover(buf, more) /\ FetchCovers(buf, asg, pos, more)
         /\ BatchReady(where, buf[p], p, more)
<1>1. \A q, o : Stored(objects, q, o) => Stored(more, q, o)
  BY DEF Stored
<1> QED
  BY <1>1 DEF BuffersCover, FetchCovers, BatchReady, Covers

\* An uploaded, covering batch may be committed: everything up to its last offset
\* is in an object.
LEMMA CommitIsSafe ==
  ASSUME SinkInv, NEW c \in Consumer, pc[c] \in {"commit", "flushCommit"}
  PROVE  /\ CommittedUpTo(c) \in [Partition -> 0 .. End]
         /\ \A p \in Partition : \A o \in Offset :
              o < CommittedUpTo(c)[p] => Stored(written, p, o)
<1> DEFINE q == batch[c]  s == buffer[c][q]
<1>1. q \in Partition /\ s \in Seq(Offset) /\ s # <<>>
  BY DEF SinkInv, TypeOK, ConsumerSafe, BatchReady
<1>2. Last(s) \in Offset
  BY <1>1, LastHeld
<1>3. \A o \in Offset : o < Last(s) + 1 => Stored(written, q, o)
  BY <1>1 DEF SinkInv, ConsumerSafe, BuffersCover, BatchReady, Covers
<1>4. CommittedUpTo(c) = [committed EXCEPT ![q] = Last(s) + 1]
  BY DEF CommittedUpTo
<1>5. Last(s) + 1 \in 0 .. End
  BY <1>2, SinkAssumption DEF Offset
<1> QED
  BY <1>1, <1>3, <1>4, <1>5 DEF SinkInv, TypeOK, NothingSkipped

\* A step of c that removes no object, leaves the other consumers alone and commits
\* nothing that is missing keeps the invariant when it keeps c safe.
LEMMA OwnStep ==
  ASSUME SinkInv, TypeOK', NEW c \in Consumer, written \subseteq written',
         \A p \in Partition : \A o \in Offset : o < committed'[p] => Stored(written, p, o),
         \A d \in Consumer : d # c => /\ pc'[d] = pc[d] /\ batch'[d] = batch[d]
                                      /\ buffer'[d] = buffer[d] /\ assigned'[d] = assigned[d]
                                      /\ position'[d] = position[d],
         ConsumerSafe(c)'
  PROVE  SinkInv'
<1>1. NothingSkipped'
  BY DEF NothingSkipped, Stored
<1>2. ASSUME NEW d \in Consumer, d # c PROVE ConsumerSafe(d)'
  <2>1. ConsumerSafe(d)
    BY DEF SinkInv
  <2> QED
    BY <1>2, <2>1, MoreObjects DEF ConsumerSafe
<1> QED
  BY <1>1, <1>2 DEF SinkInv

-----------------------------------------------------------------------------
(* The steps of a consumer.                                                *)

\* A step that touches neither buffers, objects nor offsets need only leave a batch
\* that is ready.
LEMMA ControlStep ==
  ASSUME SinkInv, TypeOK', NEW c \in Consumer,
         UNCHANGED <<buffer, assigned, position, committed, written>>,
         \A d \in Consumer : d # c => pc'[d] = pc[d] /\ batch'[d] = batch[d],
         BatchReady(pc'[c], buffer[c][batch'[c]], batch'[c], written)
  PROVE  SinkInv'
<1>1. ConsumerSafe(c)'
  BY DEF SinkInv, ConsumerSafe
<1>2. \A p \in Partition : \A o \in Offset : o < committed'[p] => Stored(written, p, o)
  BY DEF SinkInv, NothingSkipped
<1> QED
  BY <1>1, <1>2, OwnStep

\* A polled message follows what its consumer's buffer and the objects cover.
LEMMA PollKeeps ==
  ASSUME SinkInv, NEW c \in Consumer, NEW p \in Partition, Poll(c, p)
  PROVE  SinkInv'
<1>1. PICK n \in Offset : n = position[c][p]
  BY SinkAssumption DEF SinkInv, TypeOK, Poll, Offset
<1>2. PICK s \in Seq(Offset) : s = buffer[c][p]
  BY DEF SinkInv, TypeOK
<1>3. /\ Append(s, n) \in Seq(Offset) /\ Append(s, n) # <<>>
      /\ Last(Append(s, n)) = n
      /\ OffsetsOf(Append(s, n)) = OffsetsOf(s) \cup {n}
  BY AppendedBuffer
<1>4. n \in Nat /\ n + 1 \in 0 .. End
  BY SinkAssumption DEF Offset
<1>5. /\ buffer' = [buffer EXCEPT ![c] = [buffer[c] EXCEPT ![p] = Append(s, n)]]
      /\ position' = [position EXCEPT ![c] = [position[c] EXCEPT ![p] = n + 1]]
      /\ batch' = [batch EXCEPT ![c] = p]
      /\ UNCHANGED <<flushed, assigned, member, committed, written, faults>>
  BY <1>1, <1>2 DEF Poll
<1>6. PICK where \in {"write", "poll"} : pc' = [pc EXCEPT ![c] = where]
  BY DEF Poll, Goto
<1>7. TypeOK'
  <2>1. pc' \in [Consumer -> {"poll", "write", "commit", "flush", "flushWrite", "flushCommit", "down"}]
    BY <1>6 DEF SinkInv, TypeOK
  <2>2. buffer' \in [Consumer -> [Partition -> Seq(Offset)]]
    BY <1>3, <1>5 DEF SinkInv, TypeOK
  <2>3. position' \in [Consumer -> [Partition -> 0 .. End]]
    BY <1>4, <1>5 DEF SinkInv, TypeOK
  <2> QED
    BY <1>5, <2>1, <2>2, <2>3 DEF SinkInv, TypeOK
<1>8. /\ buffer'[c][p] = Append(s, n) /\ position'[c][p] = n + 1
      /\ \A q \in Partition \ {p} : buffer'[c][q] = buffer[c][q] /\ position'[c][q] = position[c][q]
      /\ pc'[c] = where /\ batch'[c] = p
  BY <1>5, <1>6 DEF SinkInv, TypeOK
<1>9. Covers(written, Append(s, n), p, n + 1)
  <2>1. Covers(written, s, p, n)
    BY <1>1, <1>2 DEF SinkInv, ConsumerSafe, FetchCovers, Poll
  <2>2. \A o \in Offset : o < n + 1 => o < n \/ o = n
    BY <1>4 DEF Offset
  <2> QED
    BY <2>1, <2>2, <1>3 DEF Covers
<1>10. BuffersCover(buffer'[c], written)
  BY <1>3, <1>8, <1>9 DEF SinkInv, ConsumerSafe, BuffersCover
<1>11. FetchCovers(buffer'[c], assigned[c], position'[c], written)
  <2> SUFFICES ASSUME NEW q \in assigned[c]
               PROVE  Covers(written, buffer'[c][q], q, position'[c][q])
    BY DEF FetchCovers
  <2>1. q \in Partition
    BY DEF SinkInv, TypeOK
  <2>2. CASE q = p
    BY <2>2, <1>8, <1>9
  <2>3. CASE q # p
    BY <2>1, <2>3, <1>8 DEF SinkInv, ConsumerSafe, FetchCovers
  <2> QED
    BY <2>2, <2>3
<1>12. ConsumerSafe(c)'
  BY <1>3, <1>5, <1>8, <1>10, <1>11 DEF ConsumerSafe, BatchReady
<1>13. \A d \in Consumer : d # c => /\ pc'[d] = pc[d] /\ batch'[d] = batch[d]
                                    /\ buffer'[d] = buffer[d] /\ assigned'[d] = assigned[d]
                                    /\ position'[d] = position[d]
  BY <1>5, <1>6 DEF SinkInv, TypeOK
<1> QED
  BY <1>5, <1>7, <1>12, <1>13, OwnStep DEF SinkInv, NothingSkipped

\* A poll that fails and a kill: no batch is handled any more.
LEMMA PollFailsOrKillKeeps ==
  ASSUME SinkInv, NEW c \in Consumer, PollFails(c) \/ Kill(c)
  PROVE  SinkInv'
<1>1. PICK where \in {"flush", "down"} : pc' = [pc EXCEPT ![c] = where]
  BY DEF PollFails, Kill, Goto
<1>2. faults' \in 0 .. MaxFaults
  BY SinkAssumption DEF SinkInv, TypeOK, PollFails, Kill, Fault
<1>3. UNCHANGED <<batch, buffer, flushed, assigned, position, member, committed, written>>
  BY DEF PollFails, Kill
<1>4. TypeOK'
  BY <1>1, <1>2, <1>3 DEF SinkInv, TypeOK
<1>5. pc'[c] = where /\ \A d \in Consumer : d # c => pc'[d] = pc[d]
  BY <1>1 DEF SinkInv, TypeOK
<1> QED
  BY <1>3, <1>4, <1>5, ControlStep DEF BatchReady

\* The finally clause takes a batch that is not empty.
LEMMA FlushKeeps ==
  ASSUME SinkInv, NEW c \in Consumer, NEW p \in Partition, Flush(c, p)
  PROVE  SinkInv'
<1>1. /\ pc' = [pc EXCEPT ![c] = "flushWrite"] /\ batch' = [batch EXCEPT ![c] = p]
      /\ UNCHANGED <<buffer, flushed, assigned, position, member, committed, written, faults>>
  BY DEF Flush, Goto
<1>2. TypeOK'
  BY <1>1 DEF SinkInv, TypeOK
<1>3. /\ pc'[c] = "flushWrite" /\ batch'[c] = p
      /\ \A d \in Consumer : d # c => pc'[d] = pc[d] /\ batch'[d] = batch[d]
  BY <1>1 DEF SinkInv, TypeOK
<1>4. BatchReady("flushWrite", buffer[c][p], p, written)
  BY DEF Flush, BatchReady
<1> QED
  BY <1>1, <1>2, <1>3, <1>4, ControlStep

\* The finally clause ends.
LEMMA CloseKeeps ==
  ASSUME SinkInv, NEW c \in Consumer, Close(c)
  PROVE  SinkInv'
<1>1. /\ pc' = [pc EXCEPT ![c] = "down"] /\ member' \subseteq member
      /\ UNCHANGED <<batch, buffer, flushed, assigned, position, committed, written, faults>>
  BY DEF Close, Goto
<1>2. TypeOK'
  BY <1>1 DEF SinkInv, TypeOK
<1>3. pc'[c] = "down" /\ \A d \in Consumer : d # c => pc'[d] = pc[d]
  BY <1>1 DEF SinkInv, TypeOK
<1> QED
  BY <1>1, <1>2, <1>3, ControlStep DEF BatchReady

\* An upload that may have been stored; it was if the batch is committed next.
LEMMA UploadKeeps ==
  ASSUME SinkInv, NEW c \in Consumer, Write(c) \/ WriteFails(c)
  PROVE  SinkInv'
<1>1. PICK where \in {"commit", "flushCommit", "flush", "down"} :
        /\ pc' = [pc EXCEPT ![c] = where]
        /\ where \in {"commit", "flushCommit"} => Object(c) \in written'
  BY DEF Write, WriteFails, Goto
<1>2. written' \in {written, written \cup {Object(c)}} /\ written \subseteq written'
  BY DEF Write, WriteFails
<1>3. faults' \in 0 .. MaxFaults
  BY SinkAssumption DEF SinkInv, TypeOK, Write, WriteFails, Fault
<1>4. UNCHANGED <<batch, buffer, flushed, assigned, position, member, committed>>
  BY DEF Write, WriteFails
<1>5. pc[c] \in {"write", "flushWrite"}
  BY DEF Write, WriteFails
<1>6. TypeOK'
  <2>1. Object(c) \in Partition \X Seq(Offset)
    BY DEF SinkInv, TypeOK, Object
  <2>2. written' \subseteq Partition \X Seq(Offset)
    BY <1>2, <2>1 DEF SinkInv, TypeOK
  <2>3. pc' \in [Consumer -> {"poll", "write", "commit", "flush", "flushWrite", "flushCommit", "down"}]
    BY <1>1 DEF SinkInv, TypeOK
  <2> QED
    BY <1>3, <1>4, <2>2, <2>3 DEF SinkInv, TypeOK
<1>7. pc'[c] = where /\ \A d \in Consumer : d # c => pc'[d] = pc[d]
  BY <1>1 DEF SinkInv, TypeOK
<1>8. BatchReady(where, buffer[c][batch[c]], batch[c], written')
  <2>1. buffer[c][batch[c]] # <<>>
    BY <1>5 DEF SinkInv, ConsumerSafe, BatchReady
  <2>2. where \in {"commit", "flushCommit"} => <<batch[c], buffer[c][batch[c]]>> \in written'
    BY <1>1 DEF Object
  <2> QED
    BY <2>1, <2>2, ObjectHolds DEF BatchReady
<1>9. ConsumerSafe(c)'
  <2>1. /\ BuffersCover(buffer[c], written')
        /\ FetchCovers(buffer[c], assigned[c], position[c], written')
    BY <1>2, MoreObjects DEF SinkInv, ConsumerSafe
  <2> QED
    BY <2>1, <1>4, <1>7, <1>8 DEF ConsumerSafe
<1> QED
  BY <1>2, <1>4, <1>6, <1>7, <1>9, OwnStep DEF SinkInv, NothingSkipped

\* A committed batch leaves the buffer, or stays in it for the finally clause.
LEMMA CommitKeeps ==
  ASSUME SinkInv, NEW c \in Consumer, Commit(c)
  PROVE  SinkInv'
<1>1. PICK q \in Partition : q = batch[c]
  BY DEF SinkInv, TypeOK
<1>2. /\ committed' \in [Partition -> 0 .. End]
      /\ \A p \in Partition : \A o \in Offset : o < committed'[p] => Stored(written, p, o)
  BY CommitIsSafe DEF Commit
<1>3. \A o \in OffsetsOf(buffer[c][q]) : Stored(written, q, o)
  BY <1>1 DEF SinkInv, ConsumerSafe, BatchReady, Commit
<1>4. PICK where \in {"poll", "flush"} : pc' = [pc EXCEPT ![c] = where]
  BY DEF Commit, Goto
<1>5. /\ buffer' = buffer \/ buffer' = [buffer EXCEPT ![c] = [buffer[c] EXCEPT ![q] = <<>>]]
      /\ flushed' = flushed \/ flushed' = [flushed EXCEPT ![c] = flushed[c] \cup {q}]
  BY <1>1 DEF Commit
<1>6. UNCHANGED <<batch, assigned, position, member, written, faults>>
  BY DEF Commit
<1>7. TypeOK'
  <2>1. buffer' \in [Consumer -> [Partition -> Seq(Offset)]]
    <3>1. CASE buffer' = buffer
      BY <3>1 DEF SinkInv, TypeOK
    <3>2. CASE buffer' = [buffer EXCEPT ![c] = [buffer[c] EXCEPT ![q] = <<>>]]
      <4>1. <<>> \in Seq(Offset) /\ buffer[c] \in [Partition -> Seq(Offset)]
        BY DEF SinkInv, TypeOK
      <4>2. [buffer[c] EXCEPT ![q] = <<>>] \in [Partition -> Seq(Offset)]
        BY <4>1
      <4> QED
        BY <3>2, <4>2 DEF SinkInv, TypeOK
    <3> QED
      BY <3>1, <3>2, <1>5
  <2>2. flushed' \in [Consumer -> SUBSET Partition]
    <3>1. CASE flushed' = flushed
      BY <3>1 DEF SinkInv, TypeOK
    <3>2. CASE flushed' = [flushed EXCEPT ![c] = flushed[c] \cup {q}]
      <4>1. flushed[c] \cup {q} \in SUBSET Partition
        BY DEF SinkInv, TypeOK
      <4> QED
        BY <3>2, <4>1 DEF SinkInv, TypeOK
    <3> QED
      BY <3>1, <3>2, <1>5
  <2>3. pc' \in [Consumer -> {"poll", "write", "commit", "flush", "flushWrite", "flushCommit", "down"}]
    BY <1>4 DEF SinkInv, TypeOK
  <2> QED
    BY <1>2, <1>6, <2>1, <2>2, <2>3 DEF SinkInv, TypeOK
<1>8. /\ pc'[c] = where
      /\ buffer'[c][q] = <<>> \/ buffer'[c][q] = buffer[c][q]
      /\ \A p \in Partition \ {q} : buffer'[c][p] = buffer[c][p]
      /\ \A d \in Consumer : d # c => pc'[d] = pc[d] /\ buffer'[d] = buffer[d]
  BY <1>4, <1>5 DEF SinkInv, TypeOK
<1>9. \A p \in Partition : \A n : Covers(written, buffer[c][p], p, n) => Covers(written, buffer'[c][p], p, n)
  BY <1>3, <1>8 DEF Covers
<1>10. BuffersCover(buffer'[c], written)
  BY <1>8, <1>9 DEF SinkInv, ConsumerSafe, BuffersCover
<1>11. FetchCovers(buffer'[c], assigned[c], position[c], written)
  BY <1>9 DEF SinkInv, TypeOK, ConsumerSafe, FetchCovers
<1>12. ConsumerSafe(c)'
  BY <1>6, <1>8, <1>10, <1>11 DEF ConsumerSafe, BatchReady
<1> QED
  BY <1>2, <1>6, <1>7, <1>8, <1>12, OwnStep

\* A commit that raises may have been executed.
LEMMA CommitFailsKeeps ==
  ASSUME SinkInv, NEW c \in Consumer, CommitFails(c)
  PROVE  SinkInv'
<1>1. committed' = committed \/ committed' = CommittedUpTo(c)
  BY DEF CommitFails
<1>2. /\ committed' \in [Partition -> 0 .. End]
      /\ \A p \in Partition : \A o \in Offset : o < committed'[p] => Stored(written, p, o)
  BY <1>1, CommitIsSafe DEF SinkInv, TypeOK, NothingSkipped, CommitFails
<1>3. UNCHANGED <<batch, buffer, flushed, assigned, position, member, written>>
  BY DEF CommitFails
<1>4. PICK where \in {"flush", "down"} : pc' = [pc EXCEPT ![c] = where]
  BY DEF CommitFails, Goto
<1>5. faults' \in 0 .. MaxFaults
  BY SinkAssumption DEF SinkInv, TypeOK, CommitFails, Fault
<1>6. TypeOK'
  BY <1>2, <1>3, <1>4, <1>5 DEF SinkInv, TypeOK
<1>7. pc'[c] = where /\ \A d \in Consumer : d # c => pc'[d] = pc[d]
  BY <1>4 DEF SinkInv, TypeOK
<1>8. ConsumerSafe(c)'
  BY <1>3, <1>7 DEF SinkInv, ConsumerSafe, BatchReady
<1> QED
  BY <1>2, <1>3, <1>6, <1>7, <1>8, OwnStep

\* A consumer starts with empty buffers and nothing to fetch.
LEMMA StartKeeps ==
  ASSUME SinkInv, NEW c \in Consumer, Start(c)
  PROVE  SinkInv'
<1>1. UNCHANGED <<batch, position, member, committed, written, faults>>
  BY DEF Start
<1>2. TypeOK'
  <2>1. [p \in Partition |-> <<>>] \in [Partition -> Seq(Offset)]
    OBVIOUS
  <2>2. buffer' \in [Consumer -> [Partition -> Seq(Offset)]]
    BY <2>1 DEF SinkInv, TypeOK, Start
  <2> QED
    BY <1>1, <2>2 DEF SinkInv, TypeOK, Start, Goto
<1>3. /\ buffer'[c] = [p \in Partition |-> <<>>] /\ assigned'[c] = {} /\ pc'[c] = "poll"
      /\ \A d \in Consumer : d # c => /\ buffer'[d] = buffer[d] /\ assigned'[d] = assigned[d]
                                      /\ pc'[d] = pc[d]
  BY DEF SinkInv, TypeOK, Start, Goto
<1>4. ConsumerSafe(c)'
  <2>1. \A p \in Partition : buffer'[c][p] = <<>>
    BY <1>3
  <2> QED
    BY <1>3, <2>1 DEF ConsumerSafe, BuffersCover, FetchCovers, BatchReady
<1> QED
  BY <1>1, <1>2, <1>3, <1>4, OwnStep DEF SinkInv, NothingSkipped

\* A consumer that joins fetches from the committed offsets, before which nothing
\* is missing, whatever its buffer still holds.
LEMMA AssignKeeps ==
  ASSUME SinkInv, NEW joined \in SUBSET Consumer, NEW to \in [Partition -> joined],
         Assign(joined, to), faults' \in 0 .. MaxFaults
  PROVE  SinkInv'
<1>1. UNCHANGED <<pc, batch, buffer, flushed, committed, written>>
  BY DEF Assign
<1>2. TypeOK'
  BY <1>1 DEF SinkInv, TypeOK, Assign
<1>3. NothingSkipped'
  BY <1>1 DEF SinkInv, NothingSkipped
<1>4. ASSUME NEW c \in Consumer PROVE ConsumerSafe(c)'
  <2>1. ConsumerSafe(c)
    BY DEF SinkInv
  <2>2. FetchCovers(buffer[c], assigned'[c], position'[c], written)
    <3>1. CASE c \in joined
      <4>1. position'[c] = committed /\ assigned'[c] \subseteq Partition
        BY <3>1, <1>2 DEF Assign, TypeOK
      <4>2. \A p \in Partition : Covers(written, buffer[c][p], p, committed[p])
        BY DEF SinkInv, NothingSkipped, Covers
      <4> QED
        BY <4>1, <4>2 DEF FetchCovers
    <3>2. CASE c \notin joined
      BY <3>2, <2>1 DEF Assign, ConsumerSafe
    <3> QED
      BY <3>1, <3>2
  <2> QED
    BY <2>1, <2>2, <1>1 DEF ConsumerSafe
<1> QED
  BY <1>2, <1>3, <1>4 DEF SinkInv

-----------------------------------------------------------------------------
\* The strengthened invariant of the history sink holds in every state.
THEOREM SinkInvariance == Spec => []SinkInv
<1>1. Init => SinkInv
  <2> SUFFICES ASSUME Init PROVE SinkInv
    OBVIOUS
  <2>1. TypeOK
    <3>1. [p \in Partition |-> <<>>] \in [Partition -> Seq(Offset)]
      OBVIOUS
    <3> QED
      BY <3>1, SinkAssumption DEF Init, TypeOK
  <2>2. NothingSkipped
    BY DEF Init, NothingSkipped, Offset
  <2>3. ASSUME NEW c \in Consumer PROVE ConsumerSafe(c)
    <3>1. /\ assigned[c] = {} /\ pc[c] = "poll"
          /\ \A p \in Partition : buffer[c][p] = <<>>
      BY DEF Init
    <3> QED
      BY <3>1 DEF ConsumerSafe, BuffersCover, FetchCovers, BatchReady
  <2> QED
    BY <2>1, <2>2, <2>3 DEF SinkInv
<1>2. SinkInv /\ [Next]_vars => SinkInv'
  <2> SUFFICES ASSUME SinkInv, [Next]_vars PROVE SinkInv'
    OBVIOUS
  <2>1. ASSUME NEW c \in Consumer, NEW p \in Partition, Poll(c, p) PROVE SinkInv'
    BY <2>1, PollKeeps
  <2>2. ASSUME NEW c \in Consumer, NEW p \in Partition, Flush(c, p) PROVE SinkInv'
    BY <2>2, FlushKeeps
  <2>3. ASSUME NEW c \in Consumer, PollFails(c) \/ Kill(c) PROVE SinkInv'
    BY <2>3, PollFailsOrKillKeeps
  <2>4. ASSUME NEW c \in Consumer, Write(c) \/ WriteFails(c) PROVE SinkInv'
    BY <2>4, UploadKeeps
  <2>5. ASSUME NEW c \in Consumer, Commit(c) PROVE SinkInv'
    BY <2>5, CommitKeeps
  <2>6. ASSUME NEW c \in Consumer, CommitFails(c) PROVE SinkInv'
    BY <2>6, CommitFailsKeeps
  <2>7. ASSUME NEW c \in Consumer, Close(c) PROVE SinkInv'
    BY <2>7, CloseKeeps
  <2>8. ASSUME NEW c \in Consumer, Start(c) PROVE SinkInv'
    BY <2>8, StartKeeps
  <2>9. CASE Recover
    <3>1. PICK joined \in SUBSET Polling : \E to \in [Partition -> joined] : Assign(joined, to)
      BY <2>9 DEF Recover
    <3>2. joined \in SUBSET Consumer /\ faults' \in 0 .. MaxFaults
      BY <3>1, <2>9 DEF Recover, Polling, SinkInv, TypeOK
    <3> QED
      BY <3>1, <3>2, AssignKeeps
  <2>10. CASE Rebalance
    <3>1. PICK joined \in SUBSET Polling : \E to \in [Partition -> joined] : Assign(joined, to)
      BY <2>10 DEF Rebalance
    <3>2. joined \in SUBSET Consumer /\ faults' \in 0 .. MaxFaults
      BY <3>1, <2>10, SinkAssumption DEF Rebalance, Fault, Polling, SinkInv, TypeOK
    <3> QED
      BY <3>1, <3>2, AssignKeeps
  <2>11. CASE UNCHANGED vars
    BY <2>11 DEF SinkInv, TypeOK, NothingSkipped, ConsumerSafe, vars
  <2> QED
    BY <2>1, <2>2, <2>3, <2>4, <2>5, <2>6, <2>7, <2>8, <2>9, <2>10, <2>11 DEF Next
<1> QED
  BY <1>1, <1>2, PTL DEF Spec

\* Every variable of the sink keeps its type.
THEOREM SinkTypeCorrect == Spec => []TypeOK
<1>1. SinkInv => TypeOK
  BY DEF SinkInv
<1> QED
  BY <1>1, SinkInvariance, PTL

\* No message the group has passed is missing from the immutable history: the order
\* of write and commit is enough, with buffers that survive rebalances, consumers
\* that do not know they lost a partition, and flushes of stale batches.
THEOREM NothingIsSkipped == Spec => []NothingSkipped
<1>1. SinkInv => NothingSkipped
  BY DEF SinkInv
<1> QED
  BY <1>1, SinkInvariance, PTL
=============================================================================
