----------------------------- MODULE OnlinePush -----------------------------
(***************************************************************************)
(* The writers of the Feast online store                                   *)
(* (data_platform/streaming/feast/service.py): consumers of one group that *)
(* push each row of the online topic to Feast, which writes it to Redis,   *)
(* and then commit its offset.  Any exception closes the consumer and ends *)
(* the process.                                                            *)
(*                                                                         *)
(* A row is its entity and its feature timestamp.  A partition is not in   *)
(* the order of the timestamps: the Flink job publishes a snapshot that    *)
(* was late or retried after newer ones.                                   *)
(***************************************************************************)
EXTENDS Integers, FiniteSets, Sequences

CONSTANTS
  Consumer, Partition,
  Topic,         \* [Partition -> Seq([entity, at])], all rows of an entity in one
  MaxFaults      \* bound: needless rebalances, exceptions and kills

PushAssumption == \A p \in Partition : \A i \in DOMAIN Topic[p] : Topic[p][i].at \in Nat \ {0}

VARIABLES
  pc,          \* poll, push, commit; down
  message,     \* the <<partition, offset>> each consumer handles, when one is
  assigned,    \* the partitions each consumer believes it was assigned
  position,    \* the next offset each consumer fetches
  member,      \* the members of the group's current generation
  committed,   \* the offsets of the group
  online,      \* the timestamp of the row in Redis of each entity, 0 for none
  faults

vars == <<pc, message, assigned, position, member, committed, online, faults>>

Entity == UNION {{Topic[p][i].entity : i \in DOMAIN Topic[p]} : p \in Partition}

Init ==
  /\ pc = [c \in Consumer |-> "poll"]
  /\ message = [c \in Consumer |-> <<CHOOSE p \in Partition : TRUE, 1>>]
  /\ assigned = [c \in Consumer |-> {}]
  /\ position = [c \in Consumer |-> [p \in Partition |-> 1]]
  /\ member = {} /\ faults = 0
  /\ committed = [p \in Partition |-> 1]
  /\ online = [e \in Entity |-> 0]

Fault == faults < MaxFaults /\ faults' = faults + 1

Goto(c, where) == pc' = [pc EXCEPT ![c] = where]

\* The exception leaves the loop: close() leaves the group.
Raise(c) == Goto(c, "down") /\ member' = member \ {c}

\* Mutant: the client commits what it polls.
PollAutoCommit(c, p) ==
  /\ pc[c] = "poll" /\ p \in assigned[c] /\ position[c][p] <= Len(Topic[p])
  /\ message' = [message EXCEPT ![c] = <<p, position[c][p]>>]
  /\ position' = [position EXCEPT ![c][p] = @ + 1]
  /\ committed' = [committed EXCEPT ![p] = position[c][p] + 1]
  /\ Goto(c, "push")
  /\ UNCHANGED <<assigned, member, online, faults>>

Poll(c, p) ==
  /\ pc[c] = "poll" /\ p \in assigned[c] /\ position[c][p] <= Len(Topic[p])
  /\ message' = [message EXCEPT ![c] = <<p, position[c][p]>>]
  /\ position' = [position EXCEPT ![c][p] = @ + 1]
  /\ Goto(c, "push")
  /\ UNCHANGED <<assigned, member, committed, online, faults>>

PollFails(c) ==
  /\ pc[c] = "poll" /\ Fault /\ Raise(c)
  /\ UNCHANGED <<message, assigned, position, committed, online>>

Row(c) == Topic[message[c][1]][message[c][2]]

\* Feast keeps the row of the latest timestamp.
Overwritten(c) == [online EXCEPT ![Row(c).entity] = IF Row(c).at > @ THEN Row(c).at ELSE @]

Push(c) ==
  /\ pc[c] = "push"
  /\ online' = Overwritten(c)
  /\ Goto(c, "commit")
  /\ UNCHANGED <<message, assigned, position, member, committed, faults>>

\* push() raises: Redis may have the row.
PushFails(c) ==
  /\ pc[c] = "push" /\ Fault /\ Raise(c)
  /\ online' \in {online, Overwritten(c)}
  /\ UNCHANGED <<message, assigned, position, committed>>

CommittedPast(c) == [committed EXCEPT ![message[c][1]] = message[c][2] + 1]

\* Synchronous; accepted of a member of the current generation only.
Commit(c) ==
  /\ pc[c] = "commit" /\ c \in member
  /\ committed' = CommittedPast(c)
  /\ Goto(c, "poll")
  /\ UNCHANGED <<message, assigned, position, member, online, faults>>

CommitFails(c) ==
  /\ pc[c] = "commit" /\ Raise(c)
  /\ \/ c \in member /\ Fault /\ committed' \in {committed, CommittedPast(c)}
     \/ c \notin member /\ UNCHANGED <<committed, faults>>
  /\ UNCHANGED <<message, assigned, position, online>>

Kill(c) ==
  /\ pc[c] # "down" /\ Fault /\ Goto(c, "down")
  /\ UNCHANGED <<message, assigned, position, member, committed, online>>

Start(c) ==
  /\ pc[c] = "down" /\ Goto(c, "poll")
  /\ assigned' = [assigned EXCEPT ![c] = {}]
  /\ UNCHANGED <<message, position, member, committed, online, faults>>

-----------------------------------------------------------------------------
(* The group, as in HistorySink: who is not polling is left behind and has  *)
(* not noticed; who joins fetches from the group's offsets.                *)

Assign ==
  \E joined \in SUBSET {c \in Consumer : pc[c] = "poll"} \ {{}} :
  \E to \in [Partition -> joined] :
    /\ member' = joined
    /\ assigned' = [c \in Consumer |->
         IF c \in joined THEN {p \in Partition : to[p] = c} ELSE assigned[c]]
    /\ position' = [c \in Consumer |-> IF c \in joined THEN committed ELSE position[c]]
    /\ UNCHANGED <<pc, message, committed, online>>

Orphaned == \E p \in Partition : \A c \in member : p \notin assigned[c] \/ pc[c] = "down"

Recover == Orphaned /\ Assign /\ UNCHANGED faults

Rebalance == Fault /\ Assign

Next ==
  \/ \E c \in Consumer : \/ \E p \in Partition : Poll(c, p)
                         \/ PollFails(c) \/ Push(c) \/ PushFails(c)
                         \/ Commit(c) \/ CommitFails(c) \/ Kill(c) \/ Start(c)
  \/ Recover \/ Rebalance

-----------------------------------------------------------------------------
\* A row of the topic, or a newer one of its entity, is online.
IsFresh(row) == online[row.entity] >= row.at

\* Every row is online in the end, or a newer one of its entity, and stays: whatever was
\* killed between the push and the commit, pushed again by another writer, or pushed late
\* by one that lost its partition.
RowsStayOnline ==
  \A p \in Partition : \A i \in DOMAIN Topic[p] : <>[]IsFresh(Topic[p][i])
=============================================================================
