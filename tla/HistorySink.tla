----------------------------- MODULE HistorySink -----------------------------
(***************************************************************************)
(* The writers of accepted streaming history                               *)
(* (data_platform/streaming/sinks/historical_service.py): consumers of one *)
(* group that buffer each partition of the accepted topic, write a full    *)
(* batch as one immutable object and then commit its last offset.  They    *)
(* subscribe without rebalance callbacks, so a buffer outlives the         *)
(* assignment it was filled under; an exception flushes what is buffered,  *)
(* a kill does not.                                                        *)
(***************************************************************************)
EXTENDS Integers, FiniteSets, Sequences

CONSTANTS
  Consumer, Partition,
  BatchSize,     \* --batch-size
  End,           \* bound: messages of each partition
  MaxFaults      \* bound: rebalances, exceptions and kills

ASSUME SinkAssumption ==
  /\ BatchSize \in Nat \ {0} /\ End \in Nat /\ MaxFaults \in Nat
  /\ IsFiniteSet(Consumer) /\ IsFiniteSet(Partition)

VARIABLES
  pc,          \* poll, write, commit; flush, flushWrite, flushCommit (finally); down
  batch,       \* the partition whose batch is handled, when one is
  buffer,      \* buffered: the offsets of each partition's batch, in order
  flushed,     \* the partitions the finally clause is done with
  assigned,    \* the partitions each consumer believes it was assigned
  position,    \* the next offset each consumer fetches
  member,      \* the members of the group's current generation
  committed,   \* the offsets of the group
  written,     \* the objects, <<partition, offsets>>
  faults

vars == <<pc, batch, buffer, flushed, assigned, position, member, committed, written, faults>>

Offset == 0 .. End - 1
Last(s) == s[Len(s)]
OffsetsOf(s) == {s[i] : i \in 1 .. Len(s)}

Init ==
  /\ pc = [c \in Consumer |-> "poll"]
  /\ batch \in [Consumer -> Partition]
  /\ buffer = [c \in Consumer |-> [p \in Partition |-> <<>>]]
  /\ flushed = [c \in Consumer |-> {}]
  /\ assigned = [c \in Consumer |-> {}]
  /\ position = [c \in Consumer |-> [p \in Partition |-> 0]]
  /\ member = {} /\ written = {} /\ faults = 0
  /\ committed = [p \in Partition |-> 0]

Fault == faults < MaxFaults /\ faults' = faults + 1

Goto(c, where) == pc' = [pc EXCEPT ![c] = where]

\* Mutants: the client commits what it polls; a full batch waits for one more.
PollAutoCommit(c, p) ==
  /\ pc[c] = "poll" /\ p \in assigned[c] /\ position[c][p] < End
  /\ buffer' = [buffer EXCEPT ![c][p] = Append(@, position[c][p])]
  /\ position' = [position EXCEPT ![c][p] = @ + 1]
  /\ batch' = [batch EXCEPT ![c] = p]
  /\ Goto(c, IF Len(buffer[c][p]) + 1 >= BatchSize THEN "write" ELSE "poll")
  /\ committed' = [committed EXCEPT ![p] = position[c][p] + 1]
  /\ UNCHANGED <<flushed, assigned, member, written, faults>>

PollOneMore(c, p) ==
  /\ pc[c] = "poll" /\ p \in assigned[c] /\ position[c][p] < End
  /\ buffer' = [buffer EXCEPT ![c][p] = Append(@, position[c][p])]
  /\ position' = [position EXCEPT ![c][p] = @ + 1]
  /\ batch' = [batch EXCEPT ![c] = p]
  /\ Goto(c, IF Len(buffer[c][p]) >= BatchSize THEN "write" ELSE "poll")
  /\ UNCHANGED <<flushed, assigned, member, committed, written, faults>>

\* poll returns the next message of an assigned partition; a full batch is written.
Poll(c, p) ==
  /\ pc[c] = "poll" /\ p \in assigned[c] /\ position[c][p] < End
  /\ buffer' = [buffer EXCEPT ![c][p] = Append(@, position[c][p])]
  /\ position' = [position EXCEPT ![c][p] = @ + 1]
  /\ batch' = [batch EXCEPT ![c] = p]
  /\ Goto(c, IF Len(buffer[c][p]) + 1 >= BatchSize THEN "write" ELSE "poll")
  /\ UNCHANGED <<flushed, assigned, member, committed, written, faults>>

\* poll returns an error.
PollFails(c) ==
  /\ pc[c] = "poll" /\ Fault /\ Goto(c, "flush")
  /\ UNCHANGED <<batch, buffer, flushed, assigned, position, member, committed, written>>

Object(c) == <<batch[c], buffer[c][batch[c]]>>

\* The object is created once, however often it is uploaded: its name carries the
\* digest of its body and a lost precondition is a match.
Write(c) ==
  /\ pc[c] \in {"write", "flushWrite"}
  /\ written' = written \cup {Object(c)}
  /\ Goto(c, IF pc[c] = "write" THEN "commit" ELSE "flushCommit")
  /\ UNCHANGED <<batch, buffer, flushed, assigned, position, member, committed, faults>>

\* The upload raises; it may have been stored.  Raised in finally it ends the process.
WriteFails(c) ==
  /\ pc[c] \in {"write", "flushWrite"} /\ Fault
  /\ written' \in {written, written \cup {Object(c)}}
  /\ Goto(c, IF pc[c] = "write" THEN "flush" ELSE "down")
  /\ UNCHANGED <<batch, buffer, flushed, assigned, position, member, committed>>

\* Mutant: the offset after the last message, given as a message.
CommittedPast(c) == [committed EXCEPT ![batch[c]] = Last(buffer[c][batch[c]]) + 2]

CommittedUpTo(c) == [committed EXCEPT ![batch[c]] = Last(buffer[c][batch[c]]) + 1]

\* A member commits past the last message of the batch.
Commit(c) ==
  /\ pc[c] \in {"commit", "flushCommit"} /\ c \in member
  /\ committed' = CommittedUpTo(c)
  /\ IF pc[c] = "commit"
     THEN /\ buffer' = [buffer EXCEPT ![c][batch[c]] = <<>>]
          /\ Goto(c, "poll") /\ UNCHANGED flushed
     ELSE /\ flushed' = [flushed EXCEPT ![c] = @ \cup {batch[c]}]
          /\ Goto(c, "flush") /\ UNCHANGED buffer
  /\ UNCHANGED <<batch, assigned, position, member, written, faults>>

\* The commit raises: always when the group has gone on without this consumer.
CommitFails(c) ==
  /\ pc[c] \in {"commit", "flushCommit"}
  /\ \/ c \in member /\ Fault /\ committed' \in {committed, CommittedUpTo(c)}
     \/ c \notin member /\ UNCHANGED <<committed, faults>>
  /\ Goto(c, IF pc[c] = "commit" THEN "flush" ELSE "down")
  /\ UNCHANGED <<batch, buffer, flushed, assigned, position, member, written>>

\* The finally clause: each batch that is not empty, then close.
Flush(c, p) ==
  /\ pc[c] = "flush" /\ p \notin flushed[c] /\ buffer[c][p] # <<>>
  /\ batch' = [batch EXCEPT ![c] = p]
  /\ Goto(c, "flushWrite")
  /\ UNCHANGED <<buffer, flushed, assigned, position, member, committed, written, faults>>

Close(c) ==
  /\ pc[c] = "flush"
  /\ \A p \in Partition : p \in flushed[c] \/ buffer[c][p] = <<>>
  /\ Goto(c, "down")
  /\ member' = member \ {c}
  /\ UNCHANGED <<batch, buffer, flushed, assigned, position, committed, written, faults>>

\* The process is killed.
Kill(c) ==
  /\ pc[c] # "down" /\ Fault /\ Goto(c, "down")
  /\ UNCHANGED <<batch, buffer, flushed, assigned, position, member, committed, written>>

\* It is started again, with no buffers and no assignment.
Start(c) ==
  /\ pc[c] = "down" /\ Goto(c, "poll")
  /\ buffer' = [buffer EXCEPT ![c] = [p \in Partition |-> <<>>]]
  /\ flushed' = [flushed EXCEPT ![c] = {}]
  /\ assigned' = [assigned EXCEPT ![c] = {}]
  /\ UNCHANGED <<batch, position, member, committed, written, faults>>

-----------------------------------------------------------------------------
(* The group: code of the broker and of the client library.                *)

\* A rebalance of the consumers that polled in time; they fetch from the group's
\* offsets.  Who did not poll is no longer a member and has not noticed.
Assign(joined, to) ==
  /\ member' = joined
  /\ assigned' = [c \in Consumer |-> IF c \in joined THEN {p \in Partition : to[p] = c}
                                     ELSE assigned[c]]
  /\ position' = [c \in Consumer |-> IF c \in joined THEN committed ELSE position[c]]
  /\ UNCHANGED <<pc, batch, buffer, flushed, committed, written>>

Polling == {c \in Consumer : pc[c] = "poll"}
Orphaned == \E p \in Partition : \A c \in member : p \notin assigned[c] \/ pc[c] = "down"

\* The group rebalances when it must, because a partition has no live member ...
Recover ==
  /\ Orphaned /\ UNCHANGED faults
  /\ \E joined \in SUBSET Polling \ {{}} : \E to \in [Partition -> joined] : Assign(joined, to)

\* ... and when it need not: a member that joins, or polls too late.
Rebalance ==
  /\ Fault
  /\ \E joined \in SUBSET Polling \ {{}} : \E to \in [Partition -> joined] : Assign(joined, to)

Next ==
  \/ \E c \in Consumer :
       \/ \E p \in Partition : Poll(c, p) \/ Flush(c, p)
       \/ PollFails(c) \/ Write(c) \/ WriteFails(c) \/ Commit(c) \/ CommitFails(c)
       \/ Close(c) \/ Kill(c) \/ Start(c)
  \/ Recover \/ Rebalance

Spec == Init /\ [][Next]_vars

FairSpec ==
  /\ Spec /\ WF_vars(Recover)
  /\ \A c \in Consumer :
       /\ \A p \in Partition : WF_vars(Poll(c, p)) /\ WF_vars(Flush(c, p))
       /\ WF_vars(Write(c)) /\ WF_vars(Commit(c)) /\ WF_vars(CommitFails(c) /\ c \notin member)
       /\ WF_vars(Close(c)) /\ WF_vars(Start(c))

-----------------------------------------------------------------------------
TypeOK ==
  /\ pc \in [Consumer -> {"poll", "write", "commit", "flush", "flushWrite", "flushCommit", "down"}]
  /\ batch \in [Consumer -> Partition]
  /\ buffer \in [Consumer -> [Partition -> Seq(Offset)]]
  /\ flushed \in [Consumer -> SUBSET Partition]
  /\ assigned \in [Consumer -> SUBSET Partition]
  /\ position \in [Consumer -> [Partition -> 0 .. End]]
  /\ member \subseteq Consumer
  /\ committed \in [Partition -> 0 .. End]
  /\ written \subseteq Partition \X Seq(Offset)
  /\ faults \in 0 .. MaxFaults

Stored(objects, p, o) == \E s \in objects : s[1] = p /\ o \in OffsetsOf(s[2])

\* "... committing offsets only after successful writes": what the group will not
\* read again is in an object, whoever buffered it and whatever failed since.
NothingSkipped ==
  \A p \in Partition : \A o \in Offset : o < committed[p] => Stored(written, p, o)

\* Everything but a last batch that never fills is written in the end.
AllButTailWritten ==
  \A p \in Partition : <>(Cardinality({o \in Offset : ~Stored(written, p, o)}) < BatchSize)
=============================================================================
