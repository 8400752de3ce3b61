------------------------------ MODULE Method2 ------------------------------
(***************************************************************************)
(* The DP2 Method-2 DAG: Airflow runs the actions of ops/gcp/dp2_method2.py *)
(* as one chain of tasks without retries.  For each stage, Silver then Gold, *)
(* and each profile, a paid Dataproc batch computes the output and a second  *)
(* one scans it; evidence is written and a winner selected.                 *)
(*                                                                         *)
(* A task is a process that Airflow may lose: the process then lives on     *)
(* while the task counts as failed, and an operator may clear the task.     *)
(***************************************************************************)
EXTENDS Integers, Sequences

CONSTANTS
  Stages,        \* the stages in the order of the chain
  Slot,          \* bound: processes that may run at once
  MaxFaults      \* bound: lost, killed and failed clients, failed requests, failed and foreign batches

Nobody == "nobody"

Method2Assumption ==
  /\ Stages \in {<<"silver">>, <<"silver", "gold">>}
  /\ Slot # {} /\ Nobody \notin Slot /\ MaxFaults \in Nat

Profile == {"baseline", "optimized"}
Stage == {Stages[i] : i \in DOMAIN Stages}

-----------------------------------------------------------------------------
(* The chain.                                                              *)

Task(stage, action, profile) == [stage |-> stage, action |-> action, profile |-> profile]

StageChain(s) ==
  <<Task(s, "prepare", "baseline"),
    Task(s, "quota", "baseline"), Task(s, "submit", "baseline"), Task(s, "verify", "baseline"),
    Task(s, "quota", "optimized"), Task(s, "submit", "optimized"), Task(s, "verify", "optimized"),
    Task(s, "summary", "baseline"), Task(s, "summary", "optimized"),
    Task(s, "evidence", "baseline"), Task(s, "evidence", "optimized"),
    Task(s, "finalize", "baseline")>>

chain == IF Len(Stages) = 1 THEN StageChain(Stages[1])
         ELSE StageChain(Stages[1]) \o StageChain(Stages[2])

\* A batch is named by what it computes; the two kinds have distinct IDs.
Batch == Stage \X Profile \X {"compute", "scan"}

BatchOf(t) == <<t.stage, t.profile, IF t.action = "summary" THEN "scan" ELSE "compute">>

\* Files that are created once.  The artifacts of one profile's evidence are two here:
\* those copied from the cloud and those computed from them.
Pair(s) == <<s, "both", "pair">>
Winner(s) == <<s, "both", "winner">>
Copied(s, p) == <<s, p, "copied">>
Evidence(s, p) == <<s, p, "evidence">>

VARIABLES
  batch,       \* the Dataproc batch of each ID
  files,       \* files that are whole
  torn,        \* files a killed process has left incomplete
  equivalent,  \* stages whose two outputs are equivalent
  proc,        \* the processes: the position of the task and where it is
  done,        \* number of successful tasks: the head of the chain is the next one
  head,        \* "waiting", "running" or "failed"
  current,     \* the process Airflow waits for
  faults

vars == <<batch, files, torn, equivalent, proc, done, head, current, faults>>
airflow == <<done, head, current>>

Idle == [at |-> 0, pc |-> "idle"]

Init ==
  /\ batch = [b \in Batch |-> "absent"]
  /\ files = {} /\ torn = {} /\ equivalent \in SUBSET Stage
  /\ proc = [s \in Slot |-> Idle]
  /\ done = 0 /\ head = "waiting" /\ current = Nobody
  /\ faults = 0

Fault == faults < MaxFaults /\ faults' = faults + 1

-----------------------------------------------------------------------------
(* Airflow.                                                                *)

FirstStep(t) == IF t.action \in {"submit", "summary"} THEN "look" ELSE t.action

Start(s) ==
  /\ head = "waiting" /\ done < Len(chain) /\ proc[s] = Idle
  /\ proc' = [proc EXCEPT ![s] = [at |-> done + 1, pc |-> FirstStep(chain[done + 1])]]
  /\ head' = "running" /\ current' = s
  /\ UNCHANGED <<batch, files, torn, equivalent, done, faults>>

\* A process ends: its result counts only if Airflow still waits for it.
Exit(s, success) ==
  /\ proc' = [proc EXCEPT ![s] = Idle]
  /\ IF current = s
     THEN /\ current' = Nobody
          /\ head' = IF success THEN "waiting" ELSE "failed"
          /\ done' = IF success THEN done + 1 ELSE done
     ELSE UNCHANGED airflow

Goto(s, pc) == proc' = [proc EXCEPT ![s].pc = pc] /\ UNCHANGED airflow

\* The heartbeat of a process is lost.
Lose ==
  /\ head = "running" /\ Fault
  /\ head' = "failed" /\ current' = Nobody
  /\ UNCHANGED <<batch, files, torn, equivalent, proc, done>>

\* The operator clears the failed task.
Clear ==
  /\ head = "failed"
  /\ head' = "waiting"
  /\ UNCHANGED <<batch, files, torn, equivalent, proc, done, current, faults>>

-----------------------------------------------------------------------------
(* Batches.                                                                *)

Active == {b \in Batch : batch[b] = "active"}

At(s, pc) == proc[s].pc = pc
TaskOf(s) == chain[proc[s].at]

\* The batch whose end the quota gate asks for; that of the Bronze stage has ended.
Predecessor(t) ==
  CASE t.action = "summary" -> {<<t.stage, t.profile, "compute">>}
    [] t.action = "quota" /\ t.profile = "optimized" -> {<<t.stage, "baseline", "compute">>}
    [] t.action = "quota" /\ t.profile = "baseline" /\ t.stage = "gold" ->
         {<<"silver", p, "compute">> : p \in Profile}
    [] OTHER -> {}

\* The quota suffices for one batch: the gate waits for it, or times out.
Quota(s) ==
  /\ At(s, "quota")
  /\ LET open == Active = {} /\ \A b \in Predecessor(TaskOf(s)) : batch[b] # "absent" IN
     \/ open /\ TaskOf(s).action = "quota" /\ Exit(s, TRUE)
     \/ open /\ TaskOf(s).action = "summary" /\ Goto(s, "submit")
     \/ ~open /\ Exit(s, FALSE)
  /\ UNCHANGED <<batch, files, torn, equivalent, faults>>

\* Mutant: an attempt that exists is refused.
AdoptNone(s, absent) ==
  LET state == batch[BatchOf(TaskOf(s))] IN
  \/ state = "absent" /\ absent
  \/ state # "absent" /\ Exit(s, FALSE)

\* An attempt of this identity is awaited, described again and again, and adopted when it
\* succeeded; RequestFails is the description that fails.
Adopt(s, absent) ==
  LET state == batch[BatchOf(TaskOf(s))] IN
  \/ state = "absent" /\ absent
  \/ state = "succeeded" /\ Exit(s, TRUE)
  \/ state \in {"failed", "foreign"} /\ Exit(s, FALSE)

Look(s) ==
  /\ At(s, "look")
  /\ Adopt(s, Goto(s, IF TaskOf(s).action = "summary" THEN "quota" ELSE "submit"))
  /\ UNCHANGED <<batch, files, torn, equivalent, faults>>

\* The submitter refuses an ID or an output that exists, and so does Dataproc.
Submit(s) ==
  /\ At(s, "submit")
  /\ LET b == BatchOf(TaskOf(s)) IN
     IF batch[b] = "absent"
     THEN batch' = [batch EXCEPT ![b] = "active"] /\ Goto(s, "client")
     ELSE UNCHANGED batch /\ Goto(s, "relook")
  /\ UNCHANGED <<files, torn, equivalent, faults>>

\* The client waits for its batch.
Client(s) ==
  /\ At(s, "client")
  /\ \/ batch[BatchOf(TaskOf(s))] = "succeeded" /\ Exit(s, TRUE)
     \/ batch[BatchOf(TaskOf(s))] = "failed" /\ Goto(s, "relook")
  /\ UNCHANGED <<batch, files, torn, equivalent, faults>>

\* The client fails, before the batch is created or after.
ClientFails(s) ==
  /\ proc[s].pc \in {"submit", "client"} /\ Fault
  /\ Goto(s, "relook")
  /\ UNCHANGED <<batch, files, torn, equivalent>>

\* Mutant: a client's failure is the task's.
GiveUp(s) ==
  /\ At(s, "relook")
  /\ Exit(s, FALSE)
  /\ UNCHANGED <<batch, files, torn, equivalent, faults>>

Relook(s) ==
  /\ At(s, "relook")
  /\ Adopt(s, Exit(s, FALSE))
  /\ UNCHANGED <<batch, files, torn, equivalent, faults>>

\* A request of the task's own fails: Dataproc cannot say what became of the batch, has
\* lost it or does not answer the gate, or the output cannot be listed.
RequestFails(s) ==
  /\ proc[s].pc \in {"look", "relook", "quota", "verify", "evidence"} /\ Fault
  /\ Exit(s, FALSE)
  /\ UNCHANGED <<batch, files, torn, equivalent>>

BatchEnds(b) ==
  /\ batch[b] = "active"
  /\ \/ batch' = [batch EXCEPT ![b] = "succeeded"] /\ UNCHANGED faults
     \/ batch' = [batch EXCEPT ![b] = "failed"] /\ Fault
  /\ UNCHANGED <<files, torn, equivalent, proc, airflow>>

ForeignBatch(b) ==
  /\ batch[b] = "absent" /\ Fault
  /\ batch' = [batch EXCEPT ![b] = "foreign"]
  /\ UNCHANGED <<files, torn, equivalent, proc, airflow>>

-----------------------------------------------------------------------------
(* Evidence.                                                               *)

\* A file that is there is compared; one that is incomplete cannot be read.
Create(s, f, then) ==
  IF f \in torn THEN Exit(s, FALSE) /\ UNCHANGED files ELSE files' = files \cup {f} /\ then

\* Gold is paired only on the winner of Silver.
Prepare(s) ==
  /\ At(s, "prepare")
  /\ LET t == TaskOf(s) IN
     IF t.stage = "gold" /\ Winner("silver") \notin files
     THEN Exit(s, FALSE) /\ UNCHANGED files
     ELSE Create(s, Pair(t.stage), Exit(s, TRUE))
  /\ UNCHANGED <<batch, torn, equivalent, faults>>

Verify(s) ==
  /\ At(s, "verify")
  /\ Exit(s, batch[BatchOf(TaskOf(s))] = "succeeded")
  /\ UNCHANGED <<batch, files, torn, equivalent, faults>>

\* The summary of the scan, the description of the batch and its metrics.
Copy(s) ==
  /\ At(s, "evidence")
  /\ LET t == TaskOf(s) IN
     IF \A k \in {"compute", "scan"} : batch[<<t.stage, t.profile, k>>] = "succeeded"
     THEN Create(s, Copied(t.stage, t.profile), Goto(s, "compute"))
     ELSE Exit(s, FALSE) /\ UNCHANGED files
  /\ UNCHANGED <<batch, torn, equivalent, faults>>

Compute(s) ==
  /\ At(s, "compute")
  /\ LET t == TaskOf(s) IN Create(s, Evidence(t.stage, t.profile), Exit(s, TRUE))
  /\ UNCHANGED <<batch, torn, equivalent, faults>>

\* Mutant: outputs that differ are compared all the same.
FinalizeUnequal(s) ==
  /\ At(s, "finalize")
  /\ LET t == TaskOf(s) IN
     IF \A p \in Profile : Evidence(t.stage, p) \in files
     THEN Create(s, Winner(t.stage), Exit(s, TRUE))
     ELSE Exit(s, FALSE) /\ UNCHANGED files
  /\ UNCHANGED <<batch, torn, equivalent, faults>>

Finalize(s) ==
  /\ At(s, "finalize")
  /\ LET t == TaskOf(s) IN
     IF t.stage \in equivalent /\ \A p \in Profile : Evidence(t.stage, p) \in files
     THEN Create(s, Winner(t.stage), Exit(s, TRUE))
     ELSE Exit(s, FALSE) /\ UNCHANGED files
  /\ UNCHANGED <<batch, torn, equivalent, faults>>

\* The file the process is about to create.
Writing(s) ==
  CASE At(s, "prepare") -> {Pair(TaskOf(s).stage)}
    [] At(s, "evidence") -> {Copied(TaskOf(s).stage, TaskOf(s).profile)}
    [] At(s, "compute") -> {Evidence(TaskOf(s).stage, TaskOf(s).profile)}
    [] At(s, "finalize") -> {Winner(TaskOf(s).stage)}
    [] OTHER -> {}

\* A process is killed, in the middle of a write perhaps.
Kill(s) ==
  /\ proc[s] # Idle /\ Fault
  /\ torn' \in {torn, torn \cup (Writing(s) \ files)}
  /\ Exit(s, FALSE)
  /\ UNCHANGED <<batch, files, equivalent>>

Step(s) ==
  \/ Quota(s) \/ Look(s) \/ Submit(s) \/ Client(s) \/ Relook(s)
  \/ Prepare(s) \/ Verify(s) \/ Copy(s) \/ Compute(s) \/ Finalize(s)

Next ==
  \/ \E s \in Slot : Start(s) \/ Step(s) \/ ClientFails(s) \/ RequestFails(s) \/ Kill(s)
  \/ Lose \/ Clear
  \/ \E b \in Batch : BatchEnds(b) \/ ForeignBatch(b)

\* The scheduler schedules, processes run, a failed task is cleared; batches end.
Fairness ==
  /\ WF_vars(Clear \/ \E s \in Slot : Start(s) \/ Step(s))
  /\ WF_vars(\E b \in Batch : BatchEnds(b))

Spec == Init /\ [][Next]_vars /\ Fairness

-----------------------------------------------------------------------------
TypeOK ==
  /\ batch \in [Batch -> {"absent", "active", "succeeded", "failed", "foreign"}]
  /\ torn \cap files = {} /\ equivalent \subseteq Stage
  /\ \A s \in Slot : proc[s].at \in 0 .. Len(chain)
  /\ done \in 0 .. Len(chain) /\ head \in {"waiting", "running", "failed"}
  /\ current \in Slot \cup {Nobody} /\ faults \in 0 .. MaxFaults

\* "Strictly sequential profiles mean only one active DP2 ingestion at a time", nor a
\* scan beside it: whatever clients are lost and tasks cleared.
OneActiveBatch == \A b, d \in Active : b = d

\* "Gold pair creation is downstream of the formal Silver equivalence + immutable Silver
\* Winner gate": no Gold batch is paid for before, and no winner is selected of a stage
\* with a batch that did not succeed.
WinnersAreEarned ==
  \A s \in Stage : Winner(s) \in files =>
    s \in equivalent /\ \A b \in Batch : b[1] = s => batch[b] = "succeeded"

GoldFollowsSilver ==
  \A b \in Batch : b[1] = "gold" /\ batch[b] \notin {"absent", "foreign"} =>
    Winner("silver") \in files

\* "Adopt that exact attempt rather than fail after Spark succeeds": whatever happened to
\* its client before, a task that has submitted fails only when its batch did, or at a
\* fault of that very step: it is killed or lost, or Dataproc could not be asked.
SubmitterFails(s) ==
  /\ proc[s].pc \in {"client", "relook"} /\ proc'[s] = Idle
  /\ current = s /\ head' = "failed" /\ faults' = faults

FailsOnlyWithItsBatch ==
  [][\A s \in Slot : SubmitterFails(s) =>
       batch[BatchOf(TaskOf(s))] \in {"absent", "failed", "foreign"}]_vars

\* The chain completes when its failed tasks are cleared, unless a batch failed or was not
\* this run's, a file is incomplete or the outputs differ.
Completes ==
  <>(\/ done = Len(chain)
     \/ torn # {} \/ equivalent # Stage
     \/ \E b \in Batch : batch[b] \in {"failed", "foreign"})
=============================================================================
