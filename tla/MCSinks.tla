------------------------------ MODULE MCSinks ------------------------------
(* The two consumers of the feature job's topics, explored side by side: the *)
(* history writers and the online writers.  A behaviour is of `setting'.     *)
EXTENDS HistorySink, TLC

CONSTANTS a, b

VARIABLES at, message, holding, next, group, offsets, online, pushFaults, setting

push == <<at, message, holding, next, group, offsets, online, pushFaults>>
all == <<vars, push, setting>>

\* A late row of `a' is published after a newer one.
Row(entity, t) == [entity |-> entity, at |-> t]
First == CHOOSE p \in Partition : TRUE
Rows == [p \in Partition |->
  IF p = First THEN <<Row(a, 2), Row(a, 1), Row(a, 3)>> ELSE <<Row(b, 1)>>]

O == INSTANCE OnlinePush WITH
  Topic <- Rows, pc <- at, assigned <- holding, position <- next, member <- group,
  committed <- offsets, faults <- pushFaults

ASSUME O!PushAssumption

MCInit ==
  /\ setting \in {"history", "online"} /\ Init /\ O!Init
  /\ setting = "online" => \A c \in Consumer : batch[c] = First

MCNext ==
  /\ UNCHANGED setting
  /\ \/ setting = "history" /\ Next /\ UNCHANGED push
     \/ setting = "online" /\ O!Next /\ UNCHANGED vars

\* What goes on by itself: a process that runs, the restart of one that ended, and the
\* broker, which gives a partition nobody reads to a member.
HistoryFairness ==
  LET On == setting = "history" IN
  /\ WF_vars(On /\ Recover)
  /\ \A c \in Consumer :
       /\ \A p \in Partition : WF_vars(On /\ Poll(c, p)) /\ WF_vars(On /\ Flush(c, p))
       /\ WF_vars(On /\ Write(c)) /\ WF_vars(On /\ Commit(c))
       /\ WF_vars(On /\ CommitFails(c) /\ c \notin member)
       /\ WF_vars(On /\ Close(c)) /\ WF_vars(On /\ Start(c))

OnlineFairness ==
  LET On == setting = "online" IN
  /\ WF_push(On /\ O!Recover)
  /\ \A c \in Consumer :
       /\ \A p \in Partition : WF_push(On /\ O!Poll(c, p))
       /\ WF_push(On /\ O!Push(c)) /\ WF_push(On /\ O!Commit(c))
       /\ WF_push(On /\ O!CommitFails(c) /\ c \notin group)
       /\ WF_push(On /\ O!Start(c))

Sinks == MCInit /\ [][MCNext]_all /\ HistoryFairness /\ OnlineFairness

-----------------------------------------------------------------------------
\* Every message but a last batch that never fills is written in the end.
HistoryIsWritten == setting = "history" => AllButTailWritten

\* Every row the job published is online in the end, or a newer one of its entity.
RowsStayOnline == setting = "online" => O!RowsStayOnline
=============================================================================
