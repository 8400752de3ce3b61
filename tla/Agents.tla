------------------------------- MODULE Agents -------------------------------
(* The processes of the agents, explored side by side: the Specialist's cache, *)
(* the in-memory store and the Coordinator's tasks.  A behaviour is of         *)
(* `setting'.                                                                  *)
EXTENDS SpecialistCache, Naturals

CONSTANTS
  Owner, Fingerprint, Lease, CompletedTtl, MaxTime,   \* of the stores
  Task, Threads                                       \* of the Coordinator's executor

VARIABLES
  now, redis, mem, held, replies, parted,
  taskAt, cancelled, known, thread, canceller, reports, early,
  setting

stores == <<now, redis, mem, held, replies, parted>>
tasks == <<taskAt, cancelled, known, thread, canceller, reports, early>>
all == <<vars, stores, tasks, setting>>

S == INSTANCE StoreParity

T == INSTANCE CoordinatorTasks WITH at <- taskAt

\* Of the stores: ProgrammaticCoordinator.__init__ refuses other durations.
AgentsAssumption == CacheAssumption /\ Lease \in Nat \ {0} /\ CompletedTtl \in Nat \ {0}

AgentsInit ==
  /\ setting \in {"specialist", "store", "tasks"}
  /\ Init /\ S!Init /\ T!Init

AgentsNext ==
  /\ UNCHANGED setting
  /\ \/ setting = "specialist" /\ Next /\ UNCHANGED <<stores, tasks>>
     \/ setting = "store" /\ S!Next /\ UNCHANGED <<vars, tasks>>
     \/ setting = "tasks" /\ T!Next /\ UNCHANGED <<vars, stores>>

AgentsSpec == AgentsInit /\ [][AgentsNext]_all

-----------------------------------------------------------------------------
\* The two stores answer alike until one of their two known differences was met.
SameUntilParted == S!SameUntilParted

\* No handler delegates for a task that was reported before its check.
ReportedEarlyIsNotDelegated == T!ReportedEarlyIsNotDelegated
=============================================================================
