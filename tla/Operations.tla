---------------------------- MODULE Operations ----------------------------
(* What operators run on the cloud, explored side by side: the Method-2 DAG,   *)
(* the recovery of its Gold stage, the size remediation and the publication of *)
(* a training snapshot.  Each has its own faults; a behaviour is of `setting'. *)
EXTENDS Remediation

CONSTANTS
  Stages,                                     \* of the DAG
  Steps, RecoveryFaults,                      \* of the recovery of Gold
  Publisher, Name, FilesOf, Marker, NoObject  \* of the snapshot

VARIABLES
  batch, files, torn, equivalent, stepping, done, head, current, dagFaults,
  paused, dagRun, task, launched, attempt, fresh, written, recorded, recovering, recoveryFaults,
  remote, at, created, verified, unanswered,
  setting

dag == <<batch, files, torn, equivalent, stepping, done, head, current, dagFaults>>
recovery == <<paused, dagRun, task, launched, attempt, fresh, written, recorded, recovering,
              recoveryFaults>>
snapshot == <<remote, at, created, verified, unanswered>>
all == <<vars, dag, recovery, snapshot, setting>>

M == INSTANCE Method2 WITH
  Slot <- Operator, proc <- stepping, faults <- dagFaults

G == INSTANCE GoldRecovery WITH
  Controller <- Operator, MaxFaults <- RecoveryFaults, batch <- attempt,
  files <- written, proc <- recovering, faults <- recoveryFaults

T == INSTANCE TrainingSnapshot WITH done <- created

OperationsAssumption ==
  RemediationAssumption /\ M!Method2Assumption /\ G!RecoveryAssumption /\ T!SnapshotAssumption

OperationsInit ==
  /\ setting \in {"dag", "recovery", "remediation", "snapshot"}
  /\ Init /\ M!Init /\ G!Init /\ T!Init
  /\ setting # "dag" => equivalent = M!Stage
  /\ setting # "recovery" => paused

OperationsNext ==
  /\ UNCHANGED setting
  /\ \/ setting = "dag" /\ M!Next /\ UNCHANGED <<vars, recovery, snapshot>>
     \/ setting = "recovery" /\ G!Next /\ UNCHANGED <<vars, dag, snapshot>>
     \/ setting = "remediation" /\ Next /\ UNCHANGED <<dag, recovery, snapshot>>
     \/ setting = "snapshot" /\ T!Next /\ UNCHANGED <<vars, dag, recovery>>

Works == setting = "dag" /\ (M!Clear \/ \E s \in Operator : M!Start(s) \/ M!Step(s))
Ends == setting = "dag" /\ \E b \in M!Batch : M!BatchEnds(b)

\* The fairness of Method2, for the behaviours that are of it.
DagFairness == WF_dag(Works) /\ WF_dag(Ends)

OperationsSpec == OperationsInit /\ [][OperationsNext]_all /\ DagFairness /\ Fairness

-----------------------------------------------------------------------------
\* One paid batch at a time, in the DAG and in its recovery.
OneAttempt == M!OneActiveBatch /\ G!OneActiveBatch

\* The chain completes when failed tasks are cleared, unless a batch failed or was not
\* this run's, a file is incomplete or the outputs differ.
ChainCompletes == setting = "dag" => M!Completes

\* Airflow never launches the paid Gold chain during a recovery.
NoPaidLaunch == G!NoPaidLaunch

\* A task and the DagRun are a success in Airflow only after what they stand for.
SuccessIsWhole == G!ReconciledIsTrue /\ G!SuccessIsWhole

\* Only outputs the gates have seen equal win, and Gold follows the Silver winner.
WinnersAreDue == M!WinnersAreEarned /\ M!GoldFollowsSilver

\* The marker of a training snapshot lists files that are there, and stay.
CompletionIsTrue == T!CompletionIsTrue

\* A task of the DAG fails for good only with the batch it stands for.
FailsOnlyWithItsBatch == M!FailsOnlyWithItsBatch
=============================================================================
