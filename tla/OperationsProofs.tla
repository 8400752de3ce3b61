-------------------------- MODULE OperationsProofs --------------------------
(***************************************************************************)
(* What operators run on the cloud, proved for any number of terminals,     *)
(* steps, faults, files and requests: the recovery of Gold, the Method-2    *)
(* DAG and the publication of a training snapshot each with its inductive   *)
(* invariant, and at the end the invariants of the whole.                   *)
(***************************************************************************)
EXTENDS Operations, SequenceTheorems, TLAPS

-----------------------------------------------------------------------------
(* The recovery of Gold.  What a command has read remains true while other  *)
(* commands run: tasks only become successes, evidence is only added and a  *)
(* batch that succeeded stays.  A step is begun when all before it are      *)
(* successes, so the batches before it have succeeded when it submits its   *)
(* own, and none after it was submitted.                                    *)

SilverPc == {"pause", "patchSilver", "readSilver", "holdSilver", "recordSilver"}
StepPc == {"quota", "describe", "submit", "wait", "verify", "evidence", "finalize",
           "patch", "hold", "finish", "record"}
Command == [pc : {"idle"} \cup SilverPc \cup StepPc, task : G!Task, seen : {"none", "success", "failed", "queued"}]
BatchState == {"absent", "active", "succeeded", "failed"}

RecoveryTypes ==
  /\ paused \in BOOLEAN /\ launched \in BOOLEAN
  /\ dagRun \in {"failed", "queued", "success"} /\ task \subseteq G!Task
  /\ attempt \in [G!Batch -> BatchState]
  /\ recovering \in [Operator -> Command]

\* What a step stands for has happened.
Effect(i) ==
  /\ Steps[i].action \in {"submit", "verify", "evidence"} =>
       attempt[<<Steps[i].profile, "compute">>] = "succeeded"
  /\ Steps[i].action \in {"summary", "evidence"} =>
       attempt[<<Steps[i].profile, "scan">>] = "succeeded"
  /\ Steps[i].action = "finalize" => "winner" \in written

Before(i) == \A j \in G!Step : j < i => j \in task
Submits(i) == Steps[i].action \in {"submit", "summary"}

\* A command r is where its step, or the reconciliation, allows it to be.
CommandSafe(r) ==
  /\ r.pc = "patchSilver" => paused
  /\ r.pc \in StepPc => r.task \in G!Step /\ Before(r.task)
  /\ r.pc = "quota" => Steps[r.task].action = "quota"
  /\ r.pc \in {"describe", "submit", "wait"} => Submits(r.task)
  /\ r.pc = "verify" => Steps[r.task].action = "verify"
  /\ r.pc = "evidence" => Steps[r.task].action = "evidence"
  /\ r.pc = "finalize" => Steps[r.task].action = "finalize"
  /\ r.pc = "patch" => Effect(r.task)
  /\ r.pc = "quota" /\ r.seen = "success" => r.task \in task
  /\ r.pc \in {"hold", "finish", "record"} => r.task \in task
  /\ r.pc = "finish" => r.task = G!Last

\* A batch was submitted by a step whose predecessors are done.
StartedBatch(b) == \E k \in G!Step : Submits(k) /\ G!BatchOf(k) = b /\ Before(k)

Truthful ==
  /\ G!Silver \in task => paused
  /\ ~launched
  /\ dagRun = "success" => G!Last \in task

TasksSafe == \A i \in G!Step \cap task : Effect(i) /\ Before(i)

BatchesSafe ==
  /\ \A b \in G!Batch : attempt[b] # "absent" => StartedBatch(b)
  /\ \A b, d \in G!Batch : attempt[b] = "active" /\ attempt[d] = "active" => b = d

RecoveryInv ==
  /\ RecoveryTypes /\ Truthful /\ TasksSafe /\ BatchesSafe
  /\ \A c \in Operator : CommandSafe(recovering[c])

-----------------------------------------------------------------------------
LEMMA GoldStepFacts ==
  ASSUME G!RecoveryAssumption
  PROVE  /\ G!Last \in Nat \ {0} /\ G!Step = 1 .. G!Last /\ G!Last \in G!Step
         /\ \A i \in G!Step : /\ i \in Nat \ {0} /\ i \in G!Task /\ i - 1 \in G!Task
                           /\ Steps[i].action \in G!Action /\ G!BatchOf(i) \in G!Batch
         /\ G!Silver \in G!Task /\ G!Silver \notin G!Step
<1>1. G!Last \in Nat \ {0} /\ G!Step = 1 .. G!Last
  BY DEF G!RecoveryAssumption, G!Last, G!Step
<1>2. ASSUME NEW i \in G!Step PROVE i - 1 \in G!Task
  BY <1>1 DEF G!Task, G!Prepare
<1>3. ASSUME NEW i \in G!Step PROVE Steps[i] \in [action : G!Action, profile : {"baseline", "optimized"}]
  BY <1>1, ElementOfSeq DEF G!RecoveryAssumption, G!Last
<1> QED
  BY <1>1, <1>2, <1>3 DEF G!Task, G!Silver, G!BatchOf, G!Batch

\* What is true of a command, a task or a batch stays true while tasks, files and the
\* successes of batches are kept.
RecoveryKept ==
  /\ paused => paused'
  /\ task \subseteq task' /\ written \subseteq written'
  /\ \A b \in G!Batch : attempt[b] = "succeeded" => attempt'[b] = "succeeded"

LEMMA EffectKept ==
  ASSUME G!RecoveryAssumption, RecoveryKept, NEW i \in G!Step, Effect(i)
  PROVE  Effect(i)'
<1>1. <<Steps[i].profile, "compute">> \in G!Batch /\ <<Steps[i].profile, "scan">> \in G!Batch
  BY DEF G!Batch
<1> QED
  BY <1>1 DEF RecoveryKept, Effect

LEMMA BeforeKept ==
  ASSUME G!RecoveryAssumption, RecoveryKept, NEW i, Before(i)
  PROVE  Before(i)'
  BY DEF RecoveryKept, Before

LEMMA CommandKept ==
  ASSUME G!RecoveryAssumption, RecoveryKept, NEW r, CommandSafe(r)
  PROVE  CommandSafe(r)'
<1>1. r.pc \in StepPc => r.task \in G!Step /\ Before(r.task)'
  BY BeforeKept DEF CommandSafe
<1>2. r.pc = "patch" => Effect(r.task)'
  BY EffectKept DEF CommandSafe, StepPc
<1> QED
  BY <1>1, <1>2 DEF CommandSafe, RecoveryKept

LEMMA TasksKept ==
  ASSUME G!RecoveryAssumption, RecoveryKept, TasksSafe, task' \subseteq task \cup {G!Silver}
  PROVE  TasksSafe'
  BY EffectKept, BeforeKept, GoldStepFacts DEF TasksSafe

LEMMA OthersKept ==
  ASSUME G!RecoveryAssumption, RecoveryInv, RecoveryKept, NEW d \in Operator, recovering'[d] = recovering[d]
  PROVE  CommandSafe(recovering[d])'
<1>1. PICK r : r = recovering[d]
  OBVIOUS
<1>2. CommandSafe(r)'
  BY <1>1, CommandKept DEF RecoveryInv
<1> QED
  BY <1>1, <1>2 DEF CommandSafe, Before, Effect, Submits

\* A step of one command that keeps what is true of the others.
LEMMA ChangeStep ==
  ASSUME G!RecoveryAssumption, RecoveryInv, RecoveryKept, NEW c \in Operator, NEW r \in Command,
         recovering' = [recovering EXCEPT ![c] = r], CommandSafe(r)',
         RecoveryTypes', Truthful', TasksSafe', BatchesSafe'
  PROVE  RecoveryInv'
<1>1. ASSUME NEW d \in Operator PROVE CommandSafe(recovering[d])'
  <2>1. CASE d = c
    BY <2>1 DEF RecoveryInv, RecoveryTypes
  <2>2. CASE d # c
    BY <2>2, OthersKept DEF RecoveryInv, RecoveryTypes
  <2> QED
    BY <2>1, <2>2
<1> QED
  BY <1>1 DEF RecoveryInv

\* It changes no batch.
LEMMA CommandStep ==
  ASSUME G!RecoveryAssumption, RecoveryInv, RecoveryKept, NEW c \in Operator, NEW r \in Command,
         recovering' = [recovering EXCEPT ![c] = r], CommandSafe(r)',
         UNCHANGED attempt, RecoveryTypes', Truthful', TasksSafe'
  PROVE  RecoveryInv'
<1>1. ASSUME NEW b \in G!Batch, attempt'[b] # "absent" PROVE StartedBatch(b)'
  BY <1>1, BeforeKept DEF RecoveryInv, BatchesSafe, StartedBatch
<1>2. BatchesSafe'
  BY <1>1 DEF RecoveryInv, BatchesSafe
<1> QED
  BY <1>2, ChangeStep

\* A step of one command that changes no batch, task or file.
LEMMA QuietStep ==
  ASSUME G!RecoveryAssumption, RecoveryInv, NEW c \in Operator, NEW r \in Command,
         recovering' = [recovering EXCEPT ![c] = r], CommandSafe(r),
         UNCHANGED <<paused, task, launched, attempt, written>>,
         dagRun' \in {dagRun, "failed"} \/ (dagRun' = "success" /\ G!Last \in task)
  PROVE  RecoveryInv'
<1>1. RecoveryKept
  BY DEF RecoveryKept
<1>2. RecoveryTypes'
  BY DEF RecoveryInv, RecoveryTypes
<1>3. Truthful'
  BY DEF RecoveryInv, Truthful
<1>4. TasksSafe'
  BY <1>1, TasksKept DEF RecoveryInv
<1>5. CommandSafe(r)'
  BY <1>1, CommandKept
<1> QED
  BY <1>1, <1>2, <1>3, <1>4, <1>5, CommandStep

LEMMA IdleSafe ==
  ASSUME G!RecoveryAssumption PROVE G!Idle \in Command /\ CommandSafe(G!Idle)
  BY DEF G!Idle, Command, G!Task, CommandSafe, StepPc, SilverPc

\* The command ends.
LEMMA EndStep ==
  ASSUME G!RecoveryAssumption, RecoveryInv, NEW c \in Operator, G!End(c),
         UNCHANGED <<paused, task, launched, attempt, written, dagRun>>
  PROVE  RecoveryInv'
  BY IdleSafe, QuietStep DEF G!End

\* A command goes on to `pc'.
LEMMA GotoIsRecord ==
  ASSUME RecoveryInv, NEW c \in Operator, NEW pc \in SilverPc \cup StepPc, G!Goto(c, pc)
  PROVE  \E r \in Command :
           /\ recovering' = [recovering EXCEPT ![c] = r]
           /\ r.pc = pc /\ r.task = recovering[c].task /\ r.seen = recovering[c].seen
<1>1. recovering[c] \in Command
  BY DEF RecoveryInv, RecoveryTypes
<1>2. PICK r : r = [recovering[c] EXCEPT !.pc = pc]
  OBVIOUS
<1>3. r \in Command /\ r.pc = pc /\ r.task = recovering[c].task /\ r.seen = recovering[c].seen
  BY <1>1, <1>2 DEF Command
<1>4. recovering' = [recovering EXCEPT ![c] = r]
  BY <1>2 DEF G!Goto
<1> QED
  BY <1>3, <1>4

\* A command goes on, with no other change but of the DagRun.
LEMMA GotoStep ==
  ASSUME G!RecoveryAssumption, RecoveryInv, NEW c \in Operator,
         NEW pc \in SilverPc \cup StepPc, G!Goto(c, pc),
         \A r \in Command : r.pc = pc /\ r.task = recovering[c].task /\ r.seen = recovering[c].seen =>
           CommandSafe(r),
         UNCHANGED <<paused, task, launched, attempt, written>>,
         dagRun' \in {dagRun, "failed"} \/ (dagRun' = "success" /\ G!Last \in task)
  PROVE  RecoveryInv'
  BY GotoIsRecord, QuietStep

\* Evidence is written and the command ends or goes on.
LEMMA WriteStep ==
  ASSUME G!RecoveryAssumption, RecoveryInv, NEW c \in Operator, NEW r \in Command,
         recovering' = [recovering EXCEPT ![c] = r],
         UNCHANGED <<paused, dagRun, task, launched, attempt>>, written \subseteq written',
         CommandSafe(r)'
  PROVE  RecoveryInv'
<1>1. RecoveryKept
  BY DEF RecoveryKept
<1>2. RecoveryTypes' /\ Truthful'
  BY DEF RecoveryInv, RecoveryTypes, Truthful
<1>3. TasksSafe'
  BY <1>1, TasksKept DEF RecoveryInv
<1> QED
  BY <1>1, <1>2, <1>3, CommandStep

LEMMA EndRecordStep ==
  ASSUME G!RecoveryAssumption, RecoveryInv, NEW c \in Operator, G!End(c),
         UNCHANGED <<paused, dagRun, task, launched, attempt>>, written \subseteq written'
  PROVE  RecoveryInv'
<1>1. CommandSafe(G!Idle)'
  BY DEF G!Idle, CommandSafe, StepPc, SilverPc
<1> QED
  BY <1>1, IdleSafe, WriteStep DEF G!End

LEMMA BeginStep ==
  ASSUME G!RecoveryAssumption, RecoveryInv, NEW c \in Operator,
         NEW pc \in {"pause", "quota", "describe", "verify", "evidence", "finalize"}, NEW t \in G!Task,
         G!Begin(c, pc, t), UNCHANGED <<paused, task, launched, attempt, written, dagRun>>,
         pc # "pause" =>
           /\ t \in G!Step /\ Before(t)
           /\ IF pc = "describe" THEN Submits(t) ELSE Steps[t].action = pc
  PROVE  RecoveryInv'
<1> DEFINE r == [pc |-> pc, task |-> t, seen |-> IF t \in task THEN "success" ELSE "none"]
<1>1. r \in Command
  BY DEF Command, SilverPc, StepPc
<1>2. recovering' = [recovering EXCEPT ![c] = r]
  BY DEF G!Begin
<1>3. CommandSafe(r)
  BY DEF CommandSafe, StepPc
<1> HIDE DEF r
<1> QED
  BY <1>1, <1>2, <1>3, QuietStep

LEMMA ReconcileStep ==
  ASSUME G!RecoveryAssumption, RecoveryInv, NEW c \in Operator, G!StartReconcile(c) \/ G!Reconcile(c)
  PROVE  RecoveryInv'
<1>1. CASE G!StartReconcile(c)
  BY <1>1, GoldStepFacts, BeginStep DEF G!StartReconcile, G!airflow, G!cloud, G!evidence
<1>2. CASE G!Pause(c)
  <2>1. G!Goto(c, "patchSilver") /\ UNCHANGED <<dagRun, task, launched, attempt, written>> /\ paused' = TRUE
    BY <1>2 DEF G!Pause, G!cloud, G!evidence
  <2>2. PICK r \in Command : r.pc = "patchSilver" /\ recovering' = [recovering EXCEPT ![c] = r]
    BY <2>1, GotoIsRecord DEF SilverPc
  <2>3. RecoveryKept
    BY <2>1 DEF RecoveryKept
  <2>4. CommandSafe(r)'
    BY <2>1, <2>2 DEF CommandSafe, SilverPc, StepPc
  <2>5. RecoveryTypes' /\ Truthful'
    BY <2>1, <2>2 DEF RecoveryInv, RecoveryTypes, Truthful
  <2>6. TasksSafe'
    BY <2>1, <2>3, TasksKept DEF RecoveryInv
  <2> QED
    BY <2>1, <2>2, <2>3, <2>4, <2>5, <2>6, CommandStep
<1>3. CASE G!PatchSilver(c)
  <2>1. /\ G!Goto(c, "readSilver") /\ UNCHANGED <<paused, launched, attempt, written>>
        /\ task' = task \cup {G!Silver} /\ paused
        /\ dagRun' \in {dagRun, IF dagRun = "failed" THEN "queued" ELSE dagRun}
    BY <1>3 DEF G!PatchSilver, G!Patched, G!cloud, G!evidence, G!At, RecoveryInv, CommandSafe
  <2>2. PICK r \in Command : r.pc = "readSilver" /\ recovering' = [recovering EXCEPT ![c] = r]
    BY <2>1, GotoIsRecord DEF SilverPc
  <2>3. RecoveryKept
    BY <2>1 DEF RecoveryKept
  <2>4. CommandSafe(r)'
    BY <2>1, <2>2 DEF CommandSafe, SilverPc, StepPc
  <2>5. RecoveryTypes' /\ Truthful'
    BY <2>1, <2>2, GoldStepFacts DEF RecoveryInv, RecoveryTypes, Truthful
  <2>6. TasksSafe'
    BY <2>1, <2>3, TasksKept DEF RecoveryInv
  <2> QED
    BY <2>1, <2>2, <2>3, <2>4, <2>5, <2>6, CommandStep
<1>4. CASE G!ReadSilver(c)
  <2>1. CASE G!End(c)
    BY <1>4, <2>1, EndStep DEF G!ReadSilver, G!airflow, G!cloud, G!evidence
  <2>2. CASE recovering' = [recovering EXCEPT ![c] = [@ EXCEPT !.pc = "holdSilver", !.seen = dagRun]]
    <3>1. PICK r : r = [recovering[c] EXCEPT !.pc = "holdSilver", !.seen = dagRun]
      OBVIOUS
    <3>2. r \in Command /\ r.pc = "holdSilver"
      BY <3>1 DEF Command, SilverPc, RecoveryInv, RecoveryTypes
    <3>3. recovering' = [recovering EXCEPT ![c] = r]
      BY <2>2, <3>1
    <3>4. CommandSafe(r)
      BY <3>2 DEF CommandSafe, StepPc
    <3> QED
      BY <1>4, <3>2, <3>3, <3>4, QuietStep DEF G!ReadSilver, G!airflow, G!cloud, G!evidence
  <2> QED
    BY <1>4, <2>1, <2>2 DEF G!ReadSilver
<1>5. CASE G!HoldSilver(c)
  <2>1. \A r \in Command : r.pc = "recordSilver" => CommandSafe(r)
    BY DEF CommandSafe, StepPc
  <2> QED
    BY <1>5, <2>1, GotoStep DEF G!HoldSilver, SilverPc, G!cloud, G!evidence
<1>6. CASE G!RecordSilver(c)
  <2>1. UNCHANGED <<paused, dagRun, task, launched, attempt>> /\ written \subseteq written' /\ G!End(c)
    BY <1>6 DEF G!RecordSilver, G!airflow, G!cloud
  <2> QED
    BY <2>1, EndRecordStep
<1> QED
  BY <1>1, <1>2, <1>3, <1>4, <1>5, <1>6 DEF G!Reconcile



\* The steps of Gold that decide from what they read where they go on.
LEMMA AttemptStep ==
  ASSUME G!RecoveryAssumption, RecoveryInv, NEW c \in Operator,
         G!Quota(c) \/ G!Describe(c) \/ G!Wait(c) \/ G!Check(c)
  PROVE  RecoveryInv'
<1>1. CommandSafe(recovering[c]) /\ recovering[c] \in Command
  BY DEF RecoveryInv, RecoveryTypes
<1>2. ASSUME recovering[c].pc \in StepPc
      PROVE  G!StepOf(c) \in G!Step /\ Before(G!StepOf(c)) /\ Steps[G!StepOf(c)].action \in G!Action
  BY <1>1, <1>2, GoldStepFacts DEF CommandSafe, G!StepOf
<1>3. CASE G!End(c)
  BY <1>3, EndStep DEF G!Quota, G!Describe, G!Wait, G!Check, G!airflow, G!cloud, G!evidence
<1>4. ASSUME G!Goto(c, "patch"), Effect(G!StepOf(c)), recovering[c].pc \in StepPc,
             UNCHANGED <<paused, task, launched, attempt, written, dagRun>>
      PROVE  RecoveryInv'
  <2>1. \A r \in Command : r.pc = "patch" /\ r.task = recovering[c].task => CommandSafe(r)
    BY <1>2, <1>4 DEF CommandSafe, StepPc, G!StepOf
  <2> QED
    BY <1>4, <2>1, GotoStep DEF StepPc
<1>5. CASE G!Quota(c)
  <2>1. Steps[G!StepOf(c)].action = "quota" /\ recovering[c].pc = "quota"
    BY <1>1, <1>5 DEF G!Quota, G!At, CommandSafe, G!StepOf
  <2>2. CASE G!Goto(c, "record") /\ recovering[c].seen = "success"
    <3>1. \A r \in Command : r.pc = "record" /\ r.task = recovering[c].task => CommandSafe(r)
      BY <1>1, <1>2, <2>1, <2>2 DEF CommandSafe, StepPc, G!StepOf
    <3> QED
      BY <1>5, <2>2, <3>1, GotoStep DEF G!Quota, G!airflow, G!evidence, StepPc
  <2>3. CASE G!Goto(c, "patch")
    BY <1>4, <1>5, <2>1, <2>3 DEF G!Quota, Effect, G!airflow, G!evidence, StepPc
  <2> QED
    BY <1>3, <1>5, <2>2, <2>3 DEF G!Quota, G!If
<1>6. ASSUME G!State(c) = "succeeded", Submits(G!StepOf(c)), recovering[c].pc \in StepPc
      PROVE  Effect(G!StepOf(c))
  BY <1>6 DEF Submits, G!State, G!BatchOf, Effect
<1>7. CASE G!Describe(c)
  <2>1. Submits(G!StepOf(c)) /\ recovering[c].pc = "describe"
    BY <1>1, <1>7 DEF G!Describe, G!At, CommandSafe, G!StepOf
  <2>2. CASE G!Goto(c, "submit")
    <3>1. \A r \in Command : r.pc = "submit" /\ r.task = recovering[c].task => CommandSafe(r)
      BY <1>2, <2>1 DEF CommandSafe, StepPc, G!StepOf
    <3> QED
      BY <1>7, <2>2, <3>1, GotoStep DEF G!Describe, G!airflow, G!cloud, G!evidence, StepPc
  <2>3. CASE G!Goto(c, "patch") /\ G!State(c) = "succeeded"
    BY <1>4, <1>6, <1>7, <2>1, <2>3 DEF G!Describe, G!airflow, G!cloud, G!evidence, StepPc
  <2>4. G!State(c) \in BatchState
    BY <1>2, <2>1, GoldStepFacts DEF RecoveryInv, RecoveryTypes, G!State, StepPc
  <2> QED
    BY <1>3, <1>7, <2>2, <2>3, <2>4 DEF G!Describe, BatchState
<1>8. CASE G!Wait(c)
  <2>1. Submits(G!StepOf(c)) /\ recovering[c].pc = "wait"
    BY <1>1, <1>8 DEF G!Wait, G!At, CommandSafe, G!StepOf
  <2>2. CASE G!Goto(c, "patch") /\ G!State(c) = "succeeded"
    BY <1>4, <1>6, <1>8, <2>1, <2>2 DEF G!Wait, G!airflow, G!cloud, G!evidence, StepPc
  <2> QED
    BY <1>3, <1>8, <2>2 DEF G!Wait, G!If
<1>9. CASE G!Check(c)
  <2>1. recovering[c].pc \in {"verify", "evidence"} /\ Steps[G!StepOf(c)].action = recovering[c].pc
    BY <1>1, <1>9 DEF G!Check, CommandSafe, G!StepOf
  <2>2. CASE /\ G!Goto(c, "patch") /\ attempt[<<Steps[G!StepOf(c)].profile, "compute">>] = "succeeded"
             /\ G!At(c, "evidence") => attempt[<<Steps[G!StepOf(c)].profile, "scan">>] = "succeeded"
    <3>1. Effect(G!StepOf(c))
      BY <2>1, <2>2 DEF Effect, G!At
    <3> QED
      BY <1>4, <1>9, <2>1, <2>2, <3>1 DEF G!Check, G!airflow, G!cloud, G!evidence, StepPc
  <2> QED
    BY <1>3, <1>9, <2>2 DEF G!Check, G!If
<1> QED
  BY <1>5, <1>7, <1>8, <1>9

LEMMA PublishStep ==
  ASSUME G!RecoveryAssumption, RecoveryInv, NEW c \in Operator,
         G!Finalize(c) \/ G!Patch(c) \/ G!Hold(c) \/ G!Finish(c) \/ G!Record(c) \/ G!Kill(c)
  PROVE  RecoveryInv'
<1>1. CommandSafe(recovering[c]) /\ recovering[c] \in Command
  BY DEF RecoveryInv, RecoveryTypes
<1>2. CASE G!Finalize(c)
  <2>1. /\ recovering[c].task \in G!Step /\ Before(recovering[c].task) /\ Steps[recovering[c].task].action = "finalize"
        /\ G!Goto(c, "patch") /\ written' = written \cup {"winner"}
        /\ UNCHANGED <<paused, dagRun, task, launched, attempt>>
    BY <1>1, <1>2 DEF G!Finalize, G!At, CommandSafe, StepPc, G!airflow, G!cloud
  <2>2. PICK r \in Command : r.pc = "patch" /\ r.task = recovering[c].task /\ recovering' = [recovering EXCEPT ![c] = r]
    BY <2>1, GotoIsRecord DEF StepPc
  <2>3. Before(r.task)' /\ Effect(r.task)'
    BY <2>1, <2>2 DEF Before, Effect
  <2>4. CommandSafe(r)'
    BY <2>1, <2>2, <2>3 DEF CommandSafe, StepPc
  <2> QED
    BY <2>1, <2>2, <2>4, WriteStep
<1>3. CASE G!Patch(c)
  <2>1. PICK i \in G!Step : i = recovering[c].task
    BY <1>1, <1>3 DEF G!Patch, G!At, CommandSafe, StepPc
  <2>2. /\ Before(i) /\ Effect(i)
        /\ G!Goto(c, "hold") /\ task' = task \cup {i}
        /\ dagRun' \in {dagRun, IF dagRun = "failed" THEN "queued" ELSE dagRun}
        /\ UNCHANGED <<paused, launched, attempt, written>>
    BY <1>1, <1>3, <2>1 DEF G!Patch, G!Patched, G!At, CommandSafe, StepPc, G!StepOf, G!cloud, G!evidence
  <2>3. PICK r \in Command : r.pc = "hold" /\ r.task = i /\ recovering' = [recovering EXCEPT ![c] = r]
    BY <2>1, <2>2, GotoIsRecord DEF StepPc
  <2>4. RecoveryKept
    BY <2>2 DEF RecoveryKept
  <2>5. Effect(i)' /\ Before(i)'
    BY <2>2, <2>4, EffectKept, BeforeKept
  <2>6. CommandSafe(r)'
    BY <2>2, <2>3, <2>5 DEF CommandSafe, StepPc
  <2>7. RecoveryTypes' /\ Truthful'
    BY <2>2, <2>3, GoldStepFacts DEF RecoveryInv, RecoveryTypes, Truthful
  <2>8. TasksSafe'
    BY <2>2, <2>4, <2>5, EffectKept, BeforeKept DEF RecoveryInv, TasksSafe
  <2> QED
    BY <2>2, <2>3, <2>4, <2>6, <2>7, <2>8, CommandStep
<1>4. CASE G!Hold(c)
  <2>1. /\ recovering[c].task \in G!Step /\ Before(recovering[c].task) /\ recovering[c].task \in task
        /\ G!Goto(c, G!AfterHold(c)) /\ dagRun' = "failed"
        /\ UNCHANGED <<paused, task, launched, attempt, written>>
    BY <1>1, <1>4 DEF G!Hold, G!At, CommandSafe, StepPc, G!cloud, G!evidence
  <2>2. PICK pc \in {"finish", "record"} : pc = G!AfterHold(c) /\ (pc = "finish" => recovering[c].task = G!Last)
    BY DEF G!AfterHold, G!StepOf
  <2>3. \A r \in Command : r.pc = pc /\ r.task = recovering[c].task => CommandSafe(r)
    BY <2>1, <2>2 DEF CommandSafe, StepPc
  <2> QED
    BY <2>1, <2>2, <2>3, GotoStep DEF StepPc
<1>5. CASE G!Finish(c)
  <2>1. /\ recovering[c].task \in G!Step /\ Before(recovering[c].task) /\ recovering[c].task \in task
        /\ recovering[c].task = G!Last /\ G!Goto(c, "record") /\ dagRun' = "success"
        /\ UNCHANGED <<paused, task, launched, attempt, written>>
    BY <1>1, <1>5 DEF G!Finish, G!At, CommandSafe, StepPc, G!cloud, G!evidence
  <2>2. \A r \in Command : r.pc = "record" /\ r.task = recovering[c].task => CommandSafe(r)
    BY <2>1 DEF CommandSafe, StepPc
  <2> QED
    BY <2>1, <2>2, GotoStep DEF StepPc
<1>6. CASE G!Record(c)
  BY <1>6, EndStep DEF G!Record, G!airflow, G!cloud
<1>7. CASE G!Kill(c)
  BY <1>7, EndStep DEF G!Kill, G!airflow, G!cloud, G!evidence
<1> QED
  BY <1>2, <1>3, <1>4, <1>5, <1>6, <1>7

\* A submission: no other attempt is active, because the batches of the steps before it have
\* succeeded and no step after it was begun.
LEMMA AloneAtSubmission ==
  ASSUME G!RecoveryAssumption, RecoveryInv, NEW i \in G!Step, Submits(i), Before(i),
         attempt[G!BatchOf(i)] = "absent", NEW d \in G!Batch
  PROVE  attempt[d] # "active"
<1> SUFFICES ASSUME attempt[d] = "active" PROVE FALSE
  OBVIOUS
<1>1. PICK k \in G!Step : Submits(k) /\ G!BatchOf(k) = d /\ Before(k)
  BY DEF RecoveryInv, BatchesSafe, StartedBatch
<1>2. ASSUME NEW j \in G!Step, j \in task, Submits(j) PROVE attempt[G!BatchOf(j)] = "succeeded"
  BY <1>2 DEF RecoveryInv, TasksSafe, Effect, Submits, G!BatchOf
<1>3. k # i
  BY <1>1
<1>4. k < i \/ i < k
  BY <1>3, GoldStepFacts
<1>5. CASE k < i
  BY <1>1, <1>2, <1>5 DEF Before
<1>6. CASE i < k
  BY <1>1, <1>2, <1>6 DEF Before
<1> QED
  BY <1>4, <1>5, <1>6

LEMMA GoldSubmitStep ==
  ASSUME G!RecoveryAssumption, RecoveryInv, NEW c \in Operator, G!Submit(c)
  PROVE  RecoveryInv'
<1>1. PICK i \in G!Step : i = recovering[c].task /\ Submits(i) /\ Before(i)
  BY DEF G!Submit, G!At, RecoveryInv, CommandSafe, StepPc
<1>2. \A r \in Command : r.pc = "wait" /\ r.task = i => CommandSafe(r)
  BY <1>1 DEF CommandSafe, StepPc
<1>3. CASE UNCHANGED attempt
  <2>1. G!End(c) \/ G!Goto(c, "wait")
    BY <1>3 DEF G!Submit
  <2> QED
    BY <1>1, <1>2, <1>3, <2>1, EndStep, GotoStep DEF G!Submit, G!airflow, G!evidence, StepPc
<1>4. CASE /\ attempt[G!BatchOf(i)] = "absent" /\ attempt' = [attempt EXCEPT ![G!BatchOf(i)] = "active"]
           /\ G!Goto(c, "wait")
  <2>1. PICK r \in Command : r.pc = "wait" /\ r.task = i /\ recovering' = [recovering EXCEPT ![c] = r]
    BY <1>1, <1>4, GotoIsRecord DEF StepPc
  <2>2. UNCHANGED <<paused, dagRun, task, launched, written>>
    BY DEF G!Submit, G!airflow, G!evidence
  <2>3. RecoveryKept
    BY <1>4, <2>2, GoldStepFacts DEF RecoveryKept, RecoveryInv, RecoveryTypes
  <2>4. RecoveryTypes' /\ Truthful'
    BY <1>4, <2>1, <2>2 DEF RecoveryInv, RecoveryTypes, Truthful, BatchState
  <2>5. TasksSafe'
    BY <2>2, <2>3, TasksKept DEF RecoveryInv
  <2>6. BatchesSafe'
    <3>1. ASSUME NEW b \in G!Batch, attempt'[b] # "absent" PROVE StartedBatch(b)'
      <4>1. StartedBatch(b)
        BY <1>1, <1>4, <3>1 DEF RecoveryInv, RecoveryTypes, BatchesSafe, StartedBatch
      <4> QED
        BY <2>3, <4>1, BeforeKept DEF StartedBatch
    <3>2. \A b \in G!Batch : attempt'[b] = "active" => b = G!BatchOf(i)
      BY <1>1, <1>4, AloneAtSubmission DEF RecoveryInv, RecoveryTypes
    <3> QED
      BY <3>1, <3>2 DEF BatchesSafe
  <2>7. CommandSafe(r)'
    BY <1>2, <2>1, <2>3, CommandKept
  <2> QED
    BY <2>1, <2>3, <2>4, <2>5, <2>6, <2>7, ChangeStep
<1> QED
  BY <1>1, <1>3, <1>4 DEF G!Submit, G!State, G!StepOf

LEMMA EndsStep ==
  ASSUME G!RecoveryAssumption, RecoveryInv, NEW b \in G!Batch, G!BatchEnds(b)
  PROVE  RecoveryInv'
<1>1. /\ attempt[b] = "active" /\ UNCHANGED <<paused, dagRun, task, launched, written, recovering>>
      /\ \E s \in {"succeeded", "failed"} : attempt' = [attempt EXCEPT ![b] = s]
  BY DEF G!BatchEnds, G!airflow, G!evidence
<1>2. RecoveryKept
  BY <1>1 DEF RecoveryKept, RecoveryInv, RecoveryTypes
<1>3. RecoveryTypes' /\ Truthful'
  BY <1>1 DEF RecoveryInv, RecoveryTypes, Truthful, BatchState
<1>4. TasksSafe'
  BY <1>1, <1>2, TasksKept DEF RecoveryInv
<1>5. BatchesSafe'
  <2>1. ASSUME NEW d \in G!Batch, attempt'[d] # "absent" PROVE StartedBatch(d)'
    <3>1. StartedBatch(d)
      BY <1>1, <2>1 DEF RecoveryInv, RecoveryTypes, BatchesSafe
    <3> QED
      BY <1>2, <3>1, BeforeKept DEF StartedBatch
  <2>2. \A d \in G!Batch : attempt'[d] = "active" => attempt[d] = "active"
    BY <1>1 DEF RecoveryInv, RecoveryTypes
  <2> QED
    BY <2>1, <2>2 DEF RecoveryInv, BatchesSafe
<1>6. ASSUME NEW d \in Operator PROVE CommandSafe(recovering[d])'
  BY <1>1, <1>2, OthersKept
<1> QED
  BY <1>3, <1>4, <1>5, <1>6 DEF RecoveryInv

LEMMA RecoveryInit ==
  ASSUME G!RecoveryAssumption, G!Init
  PROVE  RecoveryInv
<1>1. RecoveryTypes
  BY IdleSafe, GoldStepFacts DEF G!Init, RecoveryTypes, BatchState, G!Task, G!Silver, G!Prepare
<1>2. Truthful /\ TasksSafe /\ BatchesSafe
  BY GoldStepFacts DEF G!Init, Truthful, TasksSafe, BatchesSafe, G!Silver, G!Prepare
<1>3. \A c \in Operator : CommandSafe(recovering[c])
  BY IdleSafe DEF G!Init
<1> QED
  BY <1>1, <1>2, <1>3 DEF RecoveryInv

LEMMA RecoveryNext ==
  ASSUME G!RecoveryAssumption, RecoveryInv, [G!Next]_(G!vars)
  PROVE  RecoveryInv'
<1>1. ASSUME UNCHANGED <<paused, dagRun, task, launched, attempt, written, recovering>> PROVE RecoveryInv'
  BY <1>1 DEF RecoveryInv, RecoveryTypes, Truthful, TasksSafe, BatchesSafe, CommandSafe, Effect, Before,
              StartedBatch, Submits
<1>2. ~G!Launch
  BY DEF RecoveryInv, Truthful, G!Launch
<1>3. ASSUME NEW c \in Operator, G!PlanGold(c) PROVE RecoveryInv'
  <2>1. /\ UNCHANGED <<paused, dagRun, task, launched, attempt, recovering>> /\ written \subseteq written'
    BY <1>3 DEF G!PlanGold, G!airflow, G!cloud
  <2>2. RecoveryKept
    BY <2>1 DEF RecoveryKept
  <2>3. RecoveryTypes' /\ Truthful'
    BY <2>1 DEF RecoveryInv, RecoveryTypes, Truthful
  <2>4. TasksSafe'
    BY <2>1, <2>2, TasksKept DEF RecoveryInv
  <2>5. BatchesSafe'
    BY <2>1 DEF RecoveryInv, BatchesSafe, StartedBatch, Before
  <2>6. ASSUME NEW d \in Operator PROVE CommandSafe(recovering[d])'
    BY <2>1, <2>2, OthersKept
  <2> QED
    BY <2>3, <2>4, <2>5, <2>6 DEF RecoveryInv
<1>4. ASSUME NEW c \in Operator, NEW i \in G!Step, G!StartStep(c, i) PROVE RecoveryInv'
  <2>1. Before(i)
    <3>1. i - 1 \in task
      BY <1>4 DEF G!StartStep, G!Gate
    <3>2. ASSUME NEW j \in G!Step, j < i PROVE j = i - 1 \/ (i - 1 \in G!Step /\ j < i - 1)
      BY <3>2, GoldStepFacts
    <3> QED
      BY <3>1, <3>2 DEF Before, RecoveryInv, TasksSafe
  <2>2. /\ G!Begin(c, G!StepStart(i), i) /\ i \in G!Task
        /\ UNCHANGED <<paused, dagRun, task, launched, attempt, written>>
    BY <1>4, GoldStepFacts DEF G!StartStep, G!airflow, G!cloud, G!evidence
  <2>3. PICK pc \in {"quota", "describe", "verify", "evidence", "finalize"} :
          pc = G!StepStart(i) /\ IF pc = "describe" THEN Submits(i) ELSE Steps[i].action = pc
    BY GoldStepFacts DEF G!StepStart, Submits, G!Action
  <2> QED
    BY <2>1, <2>2, <2>3, BeginStep
<1>5. ASSUME NEW c \in Operator, G!Run(c) \/ G!Kill(c) PROVE RecoveryInv'
  BY <1>5, AttemptStep, GoldSubmitStep, PublishStep DEF G!Run
<1>6. ASSUME NEW p \in fresh, G!Expire(p) PROVE RecoveryInv'
  BY <1>1, <1>6 DEF G!Expire, G!airflow, G!evidence
<1>7. CASE UNCHANGED G!vars
  BY <1>1, <1>7 DEF G!vars
<1> QED
  BY <1>2, <1>3, <1>4, <1>5, <1>6, <1>7, ReconcileStep, EndsStep DEF G!Next

LEMMA RecoverySound ==
  ASSUME G!RecoveryAssumption, RecoveryInv
  PROVE  G!NoPaidLaunch /\ G!ReconciledIsTrue /\ G!OneActiveBatch /\ G!SuccessIsWhole
<1>1. G!NoPaidLaunch
  BY DEF RecoveryInv, Truthful, G!NoPaidLaunch
<1>2. G!ReconciledIsTrue
  BY DEF RecoveryInv, TasksSafe, Effect, G!ReconciledIsTrue
<1>3. G!OneActiveBatch
  BY DEF RecoveryInv, BatchesSafe, G!Active, G!OneActiveBatch
<1>4. G!SuccessIsWhole
  <2> SUFFICES ASSUME dagRun = "success" PROVE G!Step \subseteq task /\ "winner" \in written
    BY DEF G!SuccessIsWhole
  <2>1. G!Last \in task /\ G!Last \in G!Step /\ Steps[G!Last].action = "finalize"
    BY GoldStepFacts DEF RecoveryInv, Truthful, G!RecoveryAssumption
  <2>2. Effect(G!Last) /\ Before(G!Last)
    BY <2>1 DEF RecoveryInv, TasksSafe
  <2>3. \A j \in G!Step : j = G!Last \/ j < G!Last
    BY GoldStepFacts
  <2> QED
    BY <2>1, <2>2, <2>3 DEF Effect, Before
<1> QED
  BY <1>1, <1>2, <1>3, <1>4

-----------------------------------------------------------------------------
(* The Method-2 DAG.  Batches have positions in the chain: those of          *)
(* successful tasks have succeeded, the head's may exist, none after it was *)
(* submitted, whichever lost processes are still at work.                   *)

DagAction == {"prepare", "quota", "submit", "verify", "summary", "evidence", "finalize"}
DagTask == [stage : {"silver", "gold"}, action : DagAction, profile : M!Profile]
Submitter(t) == t.action \in {"submit", "summary"}

\* The position in the chain of the task that submits a batch.
Position(b) ==
  (IF b[1] = "silver" THEN 0 ELSE 12)
    + (IF b[3] = "compute" THEN IF b[2] = "baseline" THEN 3 ELSE 6
       ELSE IF b[2] = "baseline" THEN 8 ELSE 9)

SubmitPc == {"look", "submit", "client", "relook"}
EvidencePc == {"evidence", "compute"}
Process == [at : 0 .. Len(M!chain),
            pc : {"idle", "quota", "prepare", "verify", "finalize"} \cup SubmitPc \cup EvidencePc]

DagTypes ==
  /\ batch \in [M!Batch -> {"absent", "active", "succeeded", "failed", "foreign"}]
  /\ stepping \in [Operator -> Process]
  /\ done \in 0 .. Len(M!chain) /\ head \in {"waiting", "running", "failed"}
  /\ current \in Operator \cup {M!Nobody} /\ dagFaults \in Nat

\* A process is at a task that was the head of the chain, and does what the task asks for.
ProcessSafe(r) ==
  r.pc # "idle" =>
    /\ r.at \in 1 .. Len(M!chain) /\ r.at <= done + 1
    /\ r.pc \in SubmitPc => Submitter(M!chain[r.at])
    /\ r.pc = "quota" => M!chain[r.at].action \in {"quota", "summary"}
    /\ r.pc \in EvidencePc => M!chain[r.at].action = "evidence"
    /\ r.pc \in {"prepare", "verify", "finalize"} => M!chain[r.at].action = r.pc

HeadSafe ==
  current # M!Nobody =>
    head = "running" /\ stepping[current].pc # "idle" /\ stepping[current].at = done + 1

\* Batches are submitted in the order of the chain, each when those before it succeeded.
InOrder ==
  \A b \in M!Batch :
    /\ batch[b] \notin {"absent", "foreign"} => Position(b) <= done + 1
    /\ Position(b) <= done => batch[b] = "succeeded"

Earned(s) == s \in equivalent /\ \A b \in M!Batch : b[1] = s => batch[b] = "succeeded"

WinnersSafe ==
  /\ \A s \in M!Stage : M!Winner(s) \in files => Earned(s)
  /\ done >= 12 => M!Winner("silver") \in files

DagInv ==
  /\ DagTypes /\ HeadSafe /\ InOrder /\ WinnersSafe
  /\ \A s \in Operator : ProcessSafe(stepping[s])

-----------------------------------------------------------------------------
LEMMA StageFacts ==
  ASSUME NEW s \in {"silver", "gold"}
  PROVE  /\ M!StageChain(s) \in Seq(DagTask) /\ Len(M!StageChain(s)) = 12
         /\ M!StageChain(s)[1] = M!Task(s, "prepare", "baseline")
         /\ M!StageChain(s)[2] = M!Task(s, "quota", "baseline")
         /\ M!StageChain(s)[3] = M!Task(s, "submit", "baseline")
         /\ M!StageChain(s)[4] = M!Task(s, "verify", "baseline")
         /\ M!StageChain(s)[5] = M!Task(s, "quota", "optimized")
         /\ M!StageChain(s)[6] = M!Task(s, "submit", "optimized")
         /\ M!StageChain(s)[7] = M!Task(s, "verify", "optimized")
         /\ M!StageChain(s)[8] = M!Task(s, "summary", "baseline")
         /\ M!StageChain(s)[9] = M!Task(s, "summary", "optimized")
         /\ M!StageChain(s)[10] = M!Task(s, "evidence", "baseline")
         /\ M!StageChain(s)[11] = M!Task(s, "evidence", "optimized")
         /\ M!StageChain(s)[12] = M!Task(s, "finalize", "baseline")
<1>1. \A a \in DagAction, p \in M!Profile : M!Task(s, a, p) \in DagTask
  BY DEF M!Task, DagTask
<1>2. M!StageChain(s) \in Seq(DagTask)
  BY <1>1 DEF M!StageChain, DagAction, M!Profile
<1> QED
  BY <1>2 DEF M!StageChain

LEMMA TwoStages ==
  ASSUME NEW one \in Seq(DagTask), NEW two \in Seq(DagTask), Len(one) = 12, Len(two) = 12
  PROVE  /\ Len(one \o two) = 24
         /\ \A i \in 1 .. 12 : (one \o two)[i] = one[i]
         /\ \A i \in 13 .. 24 : (one \o two)[i] = two[i - 12]
<1>1. /\ Len(one \o two) = Len(one) + Len(two)
      /\ \A i \in 1 .. Len(one) + Len(two) :
           (one \o two)[i] = IF i <= Len(one) THEN one[i] ELSE two[i - Len(one)]
  BY ConcatProperties
<1>2. ASSUME NEW i \in 1 .. 12 PROVE i \in 1 .. Len(one) + Len(two) /\ i <= Len(one)
  OBVIOUS
<1>3. ASSUME NEW i \in 13 .. 24 PROVE i \in 1 .. Len(one) + Len(two) /\ ~(i <= Len(one)) /\ Len(one) = 12
  OBVIOUS
<1>4. Len(one \o two) = 24
  BY <1>1
<1> QED
  BY <1>1, <1>2, <1>3, <1>4

LEMMA ChainAt ==
  ASSUME M!Method2Assumption
  PROVE  /\ Len(M!chain) \in {12, 24} /\ Len(M!chain) = 12 * Len(Stages)
         /\ "silver" \in M!Stage /\ M!Stage \subseteq {"silver", "gold"}
         /\ Len(M!chain) = 24 => "gold" \in M!Stage
         /\ \A i \in 1 .. 12 : M!chain[i] = M!StageChain("silver")[i]
         /\ \A i \in 13 .. Len(M!chain) : M!chain[i] = M!StageChain("gold")[i - 12]
<1>1. CASE Stages = <<"silver">>
  <2>1. Len(Stages) = 1 /\ Stages[1] = "silver"
    BY <1>1
  <2>2. M!Stage = {"silver"}
    BY <1>1 DEF M!Stage
  <2>3. M!chain = M!StageChain("silver")
    BY <2>1 DEF M!chain
  <2>4. Len(M!chain) = 12
    BY <2>3, StageFacts
  <2>5. \A i \in 13 .. Len(M!chain) : FALSE
    BY <2>4
  <2>6. \A i \in 1 .. 12 : M!chain[i] = M!StageChain("silver")[i]
    BY <2>3
  <2>7. Len(M!chain) # 24 /\ Len(M!chain) = 12 * Len(Stages)
    BY <2>1, <2>4
  <2> QED
    BY <2>2, <2>4, <2>5, <2>6, <2>7
<1>2. CASE Stages = <<"silver", "gold">>
  <2>1. Len(Stages) = 2 /\ Stages[1] = "silver" /\ Stages[2] = "gold"
    BY <1>2
  <2>2. M!Stage = {"silver", "gold"}
    BY <1>2 DEF M!Stage
  <2>3. M!chain = M!StageChain("silver") \o M!StageChain("gold")
    BY <2>1 DEF M!chain
  <2>4. M!StageChain("silver") \in Seq(DagTask) /\ Len(M!StageChain("silver")) = 12
    BY StageFacts
  <2>5. M!StageChain("gold") \in Seq(DagTask) /\ Len(M!StageChain("gold")) = 12
    BY StageFacts
  <2>6. Len(M!chain) = 24
    BY <2>3, <2>4, <2>5, TwoStages
  <2>7. \A i \in 1 .. 12 : M!chain[i] = M!StageChain("silver")[i]
    BY <2>3, <2>4, <2>5, TwoStages
  <2>8. \A i \in 13 .. 24 : M!chain[i] = M!StageChain("gold")[i - 12]
    BY <2>3, <2>4, <2>5, TwoStages
  <2> QED
    BY <2>1, <2>2, <2>6, <2>7, <2>8
<1> QED
  BY <1>1, <1>2 DEF M!Method2Assumption

\* What is at position k of a stage.
StageTask(s, k, t) ==
  /\ t.stage = s
  /\ k \in {1, 2, 3, 4, 8, 10, 12} => t.profile = "baseline"
  /\ k \in {5, 6, 7, 9, 11} => t.profile = "optimized"
  /\ t.action = CASE k = 1 -> "prepare" [] k \in {2, 5} -> "quota" [] k \in {3, 6} -> "submit"
                   [] k \in {4, 7} -> "verify" [] k \in {8, 9} -> "summary"
                   [] k \in {10, 11} -> "evidence" [] OTHER -> "finalize"

LEMMA StageTasks ==
  ASSUME NEW s \in {"silver", "gold"}, NEW k \in 1 .. 12
  PROVE  M!StageChain(s)[k] \in DagTask /\ StageTask(s, k, M!StageChain(s)[k])
<1>1. \/ k = 1 \/ k = 2 \/ k = 3 \/ k = 4 \/ k = 5 \/ k = 6 \/ k = 7 \/ k = 8 \/ k = 9
      \/ k = 10 \/ k = 11 \/ k = 12
  OBVIOUS
<1>2. M!StageChain(s)[k] \in DagTask
  BY StageFacts, ElementOfSeq
<1> QED
  BY <1>1, <1>2, StageFacts DEF StageTask, M!Task

LEMMA TaskAt ==
  ASSUME M!Method2Assumption, NEW i \in 1 .. Len(M!chain)
  PROVE  \E s \in M!Stage, k \in 1 .. 12 :
           /\ i = k + (IF s = "silver" THEN 0 ELSE 12)
           /\ M!chain[i] \in DagTask /\ StageTask(s, k, M!chain[i])
<1>1. Len(M!chain) \in {12, 24} /\ "silver" \in M!Stage /\ (Len(M!chain) = 24 => "gold" \in M!Stage)
  BY ChainAt
<1>2. i \in 1 .. 12 \/ (Len(M!chain) = 24 /\ i \in 13 .. Len(M!chain) /\ i - 12 \in 1 .. 12)
  <2>1. CASE Len(M!chain) = 12
    BY <2>1
  <2>2. CASE Len(M!chain) = 24
    <3>1. i \in 1 .. 24
      BY <2>2
    <3>2. i \in 1 .. 12 \/ (i \in 13 .. 24 /\ i - 12 \in 1 .. 12)
      BY <3>1
    <3> QED
      BY <2>2, <3>2
  <2> QED
    BY <1>1, <2>1, <2>2
<1>3. CASE i \in 1 .. 12
  <2>1. M!chain[i] = M!StageChain("silver")[i]
    BY <1>3, ChainAt
  <2>2. M!chain[i] \in DagTask /\ StageTask("silver", i, M!chain[i])
    BY <1>3, <2>1, StageTasks
  <2> QED
    BY <1>1, <1>3, <2>2
<1>4. CASE Len(M!chain) = 24 /\ i \in 13 .. Len(M!chain) /\ i - 12 \in 1 .. 12
  <2>1. M!chain[i] = M!StageChain("gold")[i - 12]
    BY <1>4, ChainAt
  <2>2. M!chain[i] \in DagTask /\ StageTask("gold", i - 12, M!chain[i])
    BY <1>4, <2>1, StageTasks
  <2>3. i = (i - 12) + (IF "gold" = "silver" THEN 0 ELSE 12)
    BY <1>4
  <2> QED
    BY <1>1, <1>4, <2>2, <2>3
<1> QED
  BY <1>2, <1>3, <1>4

LEMMA BatchFields ==
  ASSUME M!Method2Assumption, NEW b \in M!Batch
  PROVE  b[1] \in M!Stage /\ b[2] \in M!Profile /\ b[3] \in {"compute", "scan"} /\ b = <<b[1], b[2], b[3]>>
         /\ M!Stage \subseteq {"silver", "gold"} /\ Position(b) \in Nat
<1>1. M!Stage \subseteq {"silver", "gold"}
  BY ChainAt
<1> QED
  BY <1>1 DEF M!Batch, Position

LEMMA SubmittedAt ==
  ASSUME M!Method2Assumption, NEW i \in 1 .. Len(M!chain)
  PROVE  /\ M!chain[i] \in DagTask /\ M!chain[i].stage \in M!Stage
         /\ Submitter(M!chain[i]) => M!BatchOf(M!chain[i]) \in M!Batch /\ Position(M!BatchOf(M!chain[i])) = i
<1>1. PICK s \in M!Stage, k \in 1 .. 12 :
        /\ i = k + (IF s = "silver" THEN 0 ELSE 12)
        /\ M!chain[i] \in DagTask /\ StageTask(s, k, M!chain[i])
  BY TaskAt
<1>2. M!chain[i].stage = s /\ M!chain[i].profile \in M!Profile
  BY <1>1 DEF StageTask, DagTask
<1>3. M!BatchOf(M!chain[i]) \in M!Batch
  BY <1>2 DEF M!BatchOf, M!Batch
<1>4. s \in {"silver", "gold"}
  BY ChainAt
<1>5. ASSUME Submitter(M!chain[i]) PROVE Position(M!BatchOf(M!chain[i])) = i
  <2>1. k \in {3, 6, 8, 9}
    BY <1>1, <1>5 DEF StageTask, Submitter
  <2> QED
    BY <1>1, <1>2, <1>4, <2>1 DEF StageTask, Position, M!BatchOf
<1> QED
  BY <1>1, <1>2, <1>3, <1>5

LEMMA FinalizedAt ==
  ASSUME M!Method2Assumption, NEW i \in 1 .. Len(M!chain)
  PROVE  /\ M!chain[i].action = "finalize" =>
              \A b \in M!Batch : b[1] = M!chain[i].stage => Position(b) < i
         /\ i = 12 => M!chain[i].action = "finalize" /\ M!chain[i].stage = "silver"
<1>1. PICK s \in M!Stage, k \in 1 .. 12 :
        /\ i = k + (IF s = "silver" THEN 0 ELSE 12)
        /\ M!chain[i] \in DagTask /\ StageTask(s, k, M!chain[i])
  BY TaskAt
<1>2. s \in {"silver", "gold"}
  BY ChainAt
<1>3. M!chain[i].action = "finalize" => k = 12
  BY <1>1 DEF StageTask
<1>4. ASSUME k = 12, NEW b \in M!Batch, b[1] = s PROVE Position(b) < i
  BY <1>1, <1>2, <1>4, BatchFields DEF Position
<1>5. i = 12 => s = "silver" /\ k = 12
  BY <1>1, <1>2
<1>6. k = 12 => M!chain[i].action = "finalize"
  BY <1>1 DEF StageTask
<1> QED
  BY <1>1, <1>3, <1>4, <1>5, <1>6 DEF StageTask

LEMMA Positions ==
  ASSUME M!Method2Assumption, NEW b \in M!Batch, NEW d \in M!Batch
  PROVE  /\ Position(b) = Position(d) => b = d
         /\ b[1] = "gold" => Position(b) > 12
         /\ b[1] = "silver" => Position(b) < 12
<1>1. /\ b[1] \in {"silver", "gold"} /\ b[2] \in M!Profile /\ b[3] \in {"compute", "scan"}
      /\ b = <<b[1], b[2], b[3]>>
  BY BatchFields
<1>2. /\ d[1] \in {"silver", "gold"} /\ d[2] \in M!Profile /\ d[3] \in {"compute", "scan"}
      /\ d = <<d[1], d[2], d[3]>>
  BY BatchFields
<1>3. ASSUME Position(b) = Position(d) PROVE b[1] = d[1] /\ b[2] = d[2] /\ b[3] = d[3]
  BY <1>1, <1>2, <1>3 DEF Position, M!Profile
<1> QED
  BY <1>1, <1>2, <1>3 DEF Position

LEMMA GoldIsSecond ==
  ASSUME M!Method2Assumption, "gold" \in M!Stage
  PROVE  Len(M!chain) = 24
<1>1. Stages = <<"silver", "gold">>
  BY DEF M!Method2Assumption, M!Stage
<1>2. Len(Stages) = 2
  BY <1>1
<1> QED
  BY <1>2, ChainAt

LEMMA PositionSubmits ==
  ASSUME M!Method2Assumption, NEW b \in M!Batch
  PROVE  /\ Position(b) \in 1 .. Len(M!chain) /\ Submitter(M!chain[Position(b)])
         /\ M!BatchOf(M!chain[Position(b)]) = b
<1>1. /\ b[1] \in M!Stage /\ b[1] \in {"silver", "gold"} /\ b[2] \in M!Profile /\ b[3] \in {"compute", "scan"}
      /\ b = <<b[1], b[2], b[3]>>
  BY BatchFields
<1>2. PICK k \in 1 .. 12 :
        /\ k = 3 \/ k = 6 \/ k = 8 \/ k = 9
        /\ Position(b) = k + (IF b[1] = "silver" THEN 0 ELSE 12)
  BY <1>1 DEF Position, M!Profile
<1>3. Len(M!chain) = 12 \/ Len(M!chain) = 24
  BY ChainAt
<1>4. b[1] = "gold" => Len(M!chain) = 24
  BY <1>1, GoldIsSecond
<1>5. Position(b) \in 1 .. Len(M!chain)
  <2>1. CASE b[1] = "silver"
    <3>1. Position(b) \in 1 .. 12
      BY <1>2, <2>1
    <3>2. Len(M!chain) = 12 => Position(b) \in 1 .. Len(M!chain)
      BY <3>1
    <3>3. Len(M!chain) = 24 => Position(b) \in 1 .. Len(M!chain)
      BY <3>1
    <3> QED
      BY <1>3, <3>2, <3>3
  <2>2. CASE b[1] = "gold"
    <3>1. Position(b) \in 1 .. 24
      BY <1>2, <2>2
    <3> QED
      BY <1>4, <2>2, <3>1
  <2> QED
    BY <1>1, <2>1, <2>2
<1>6. PICK s \in M!Stage, j \in 1 .. 12 :
        /\ Position(b) = j + (IF s = "silver" THEN 0 ELSE 12)
        /\ M!chain[Position(b)] \in DagTask /\ StageTask(s, j, M!chain[Position(b)])
  BY <1>5, TaskAt
<1>7. j = k
  <2>1. s = "silver" \/ s = "gold"
    BY ChainAt
  <2> QED
    BY <1>1, <1>2, <1>6, <2>1
<1>8. Submitter(M!chain[Position(b)])
  BY <1>2, <1>6, <1>7 DEF StageTask, Submitter
<1>9. M!BatchOf(M!chain[Position(b)]) = b
  BY <1>5, <1>8, SubmittedAt, Positions
<1> QED
  BY <1>5, <1>8, <1>9

-----------------------------------------------------------------------------
\* A process is where it may be as long as the chain only goes on.
LEMMA OthersStay ==
  ASSUME M!Method2Assumption, DagInv, done' \in Nat, done <= done', NEW t \in Operator, stepping'[t] = stepping[t]
  PROVE  ProcessSafe(stepping[t])'
<1>1. stepping[t] \in Process /\ ProcessSafe(stepping[t]) /\ done \in Nat
  BY DEF DagInv, DagTypes
<1>2. stepping[t].at \in Nat
  BY <1>1 DEF Process
<1> QED
  BY <1>1, <1>2 DEF ProcessSafe

\* A process ends: when it has succeeded, so has what its task stands for.
LEMMA ExitStep ==
  ASSUME M!Method2Assumption, DagInv, NEW s \in Operator, NEW ok \in BOOLEAN, M!Exit(s, ok),
         stepping[s].pc # "idle", UNCHANGED <<batch, equivalent>>, files \subseteq files', dagFaults' \in Nat,
         \A x \in M!Stage : M!Winner(x) \in files' => M!Winner(x) \in files \/ Earned(x),
         ok /\ Submitter(M!TaskOf(s)) => batch[M!BatchOf(M!TaskOf(s))] = "succeeded",
         ok /\ M!TaskOf(s).action = "finalize" => M!Winner(M!TaskOf(s).stage) \in files'
  PROVE  DagInv'
<1>1. PICK i \in 1 .. Len(M!chain) : i = stepping[s].at /\ i <= done + 1
  BY DEF DagInv, ProcessSafe
<1>2. Len(M!chain) \in Nat /\ done \in Nat /\ done <= Len(M!chain)
  <2>1. Len(M!chain) = 12 \/ Len(M!chain) = 24
    BY ChainAt
  <2> QED
    BY <2>1 DEF DagInv, DagTypes
<1>3. /\ stepping' = [stepping EXCEPT ![s] = M!Idle]
      /\ \/ current = s /\ ok /\ current' = M!Nobody /\ head' = "waiting" /\ done' = done + 1
         \/ current = s /\ ~ok /\ current' = M!Nobody /\ head' = "failed" /\ done' = done
         \/ current # s /\ UNCHANGED <<current, head, done>>
  BY DEF M!Exit, M!airflow
<1>4. current = s => i = done + 1
  BY <1>1 DEF DagInv, HeadSafe, M!Method2Assumption
<1>5. done' \in 0 .. Len(M!chain) /\ done <= done'
  BY <1>1, <1>2, <1>3, <1>4
<1>6. DagTypes'
  <2>1. M!Idle \in Process
    BY <1>2 DEF M!Idle, Process
  <2>2. stepping' \in [Operator -> Process]
    BY <1>3, <2>1 DEF DagInv, DagTypes
  <2>3. head' \in {"waiting", "running", "failed"} /\ current' \in Operator \cup {M!Nobody}
    BY <1>3 DEF DagInv, DagTypes
  <2> QED
    BY <1>5, <2>2, <2>3 DEF DagInv, DagTypes
<1>7. HeadSafe'
  BY <1>3 DEF DagInv, DagTypes, HeadSafe
<1>8. InOrder'
  <2> SUFFICES ASSUME NEW b \in M!Batch
               PROVE  /\ batch[b] \notin {"absent", "foreign"} => Position(b) <= done' + 1
                      /\ Position(b) <= done' => batch[b] = "succeeded"
    BY DEF InOrder
  <2>1. Position(b) \in Nat
    BY BatchFields
  <2>2. ASSUME Position(b) <= done', ~(Position(b) <= done) PROVE batch[b] = "succeeded"
    <3>1. current = s /\ ok /\ Position(b) = i
      BY <1>2, <1>3, <1>4, <2>1, <2>2
    <3> QED
      BY <1>1, <3>1, PositionSubmits DEF M!TaskOf
  <2> QED
    BY <1>2, <1>5, <2>1, <2>2 DEF DagInv, InOrder
<1>9. WinnersSafe'
  <2>1. \A x \in M!Stage : M!Winner(x)' = M!Winner(x) /\ (Earned(x)' <=> Earned(x))
    BY DEF M!Winner, Earned
  <2>2. ASSUME done' >= 12 PROVE M!Winner("silver") \in files'
    <3>1. CASE done >= 12
      BY <3>1 DEF DagInv, WinnersSafe
    <3>2. CASE ~(done >= 12)
      <4>1. ok /\ i = 12
        BY <1>2, <1>3, <1>4, <2>2, <3>2
      <4> QED
        BY <1>1, <4>1, FinalizedAt DEF M!TaskOf
    <3> QED
      BY <3>1, <3>2
  <2> QED
    BY <2>1, <2>2 DEF DagInv, WinnersSafe, M!Winner
<1>10. ASSUME NEW t \in Operator PROVE ProcessSafe(stepping[t])'
  <2>1. CASE t = s
    BY <1>3, <2>1 DEF ProcessSafe, M!Idle, DagInv, DagTypes
  <2>2. CASE t # s
    BY <1>3, <1>5, <2>2, OthersStay DEF DagInv, DagTypes
  <2> QED
    BY <2>1, <2>2
<1> QED
  BY <1>6, <1>7, <1>8, <1>9, <1>10 DEF DagInv

\* A process goes on with its task.
LEMMA OnStep ==
  ASSUME M!Method2Assumption, DagInv, NEW s \in Operator, NEW pc \in SubmitPc \cup {"quota", "compute"}, M!Goto(s, pc),
         stepping[s].pc # "idle",
         CASE pc = "compute" -> M!TaskOf(s).action = "evidence"
           [] pc = "quota" -> M!TaskOf(s).action = "summary"
           [] OTHER -> Submitter(M!TaskOf(s)),
         batch' \in [M!Batch -> {"absent", "active", "succeeded", "failed", "foreign"}], InOrder',
         \A x \in M!Stage : Earned(x) => Earned(x)',
         \A x \in M!Stage : M!Winner(x) \in files' => M!Winner(x) \in files,
         files \subseteq files', dagFaults' \in Nat
  PROVE  DagInv'
<1>1. stepping[s] \in Process /\ ProcessSafe(stepping[s]) /\ UNCHANGED <<done, head, current>>
  BY DEF DagInv, DagTypes, M!Goto, M!airflow
<1>2. PICK r : r = [stepping[s] EXCEPT !.pc = pc]
  OBVIOUS
<1>3. r \in Process /\ r.pc = pc /\ r.at = stepping[s].at
  BY <1>1, <1>2 DEF Process, SubmitPc, EvidencePc
<1>4. stepping' = [stepping EXCEPT ![s] = r]
  BY <1>2 DEF M!Goto
<1>5. DagTypes'
  BY <1>1, <1>3, <1>4 DEF DagInv, DagTypes
<1>6. HeadSafe'
  BY <1>1, <1>3, <1>4 DEF DagInv, DagTypes, HeadSafe, SubmitPc, M!Method2Assumption
<1>7. WinnersSafe'
  BY <1>1 DEF DagInv, WinnersSafe, M!Winner
<1>8. ASSUME NEW t \in Operator PROVE ProcessSafe(stepping[t])'
  <2>1. CASE t = s
    <3>1. stepping'[s] = r
      BY <1>4 DEF DagInv, DagTypes
    <3>2. ProcessSafe(r)
      BY <1>1, <1>3 DEF ProcessSafe, M!TaskOf, SubmitPc, EvidencePc
    <3> QED
      BY <1>1, <2>1, <3>1, <3>2 DEF ProcessSafe
  <2>2. CASE t # s
    BY <1>1, <1>4, <2>2, OthersStay DEF DagInv, DagTypes
  <2> QED
    BY <2>1, <2>2
<1> QED
  BY <1>5, <1>6, <1>7, <1>8 DEF DagInv

\* Facts of a process at work that every step uses.
LEMMA AtWork ==
  ASSUME M!Method2Assumption, DagInv, NEW s \in Operator, stepping[s].pc # "idle"
  PROVE  /\ stepping[s].at \in 1 .. Len(M!chain) /\ stepping[s].at <= done + 1 /\ M!TaskOf(s) \in DagTask
         /\ M!TaskOf(s).stage \in M!Stage
         /\ stepping[s].pc \in SubmitPc =>
              /\ Submitter(M!TaskOf(s)) /\ M!BatchOf(M!TaskOf(s)) \in M!Batch
              /\ Position(M!BatchOf(M!TaskOf(s))) = stepping[s].at
         /\ stepping[s].pc = "quota" => M!TaskOf(s).action \in {"quota", "summary"}
         /\ stepping[s].pc \in EvidencePc => M!TaskOf(s).action = "evidence"
         /\ stepping[s].pc \in {"prepare", "verify", "finalize"} => M!TaskOf(s).action = stepping[s].pc
<1>1. ProcessSafe(stepping[s])
  BY DEF DagInv
<1>2. stepping[s].at \in 1 .. Len(M!chain)
  BY <1>1 DEF ProcessSafe
<1> QED
  BY <1>1, <1>2, SubmittedAt DEF ProcessSafe, M!TaskOf

\* The end of a step that does not succeed, or that writes no winner and submits nothing.
LEMMA PlainExit ==
  ASSUME M!Method2Assumption, DagInv, NEW s \in Operator, NEW ok \in BOOLEAN, M!Exit(s, ok),
         stepping[s].pc # "idle", UNCHANGED <<batch, equivalent>>,
         dagFaults' \in Nat, files \subseteq files',
         \A x \in M!Stage : M!Winner(x) \in files' => M!Winner(x) \in files,
         ok => M!TaskOf(s).action \notin {"submit", "summary", "finalize"}
  PROVE  DagInv'
  BY ExitStep DEF Submitter

\* The end of a submission.
LEMMA AttemptExit ==
  ASSUME M!Method2Assumption, DagInv, NEW s \in Operator, NEW ok \in BOOLEAN, M!Exit(s, ok),
         stepping[s].pc \in SubmitPc, UNCHANGED <<batch, equivalent, files>>, dagFaults' \in Nat,
         ok => batch[M!BatchOf(M!TaskOf(s))] = "succeeded"
  PROVE  DagInv'
<1>1. Submitter(M!TaskOf(s)) /\ stepping[s].pc # "idle"
  BY AtWork DEF SubmitPc
<1>2. M!TaskOf(s).action # "finalize"
  BY <1>1 DEF Submitter
<1> QED
  BY <1>1, <1>2, ExitStep

LEMMA QuietOn ==
  ASSUME M!Method2Assumption, DagInv, NEW s \in Operator, NEW pc \in SubmitPc \cup {"quota", "compute"}, M!Goto(s, pc),
         stepping[s].pc # "idle",
         CASE pc = "compute" -> M!TaskOf(s).action = "evidence"
           [] pc = "quota" -> M!TaskOf(s).action = "summary"
           [] OTHER -> Submitter(M!TaskOf(s)),
         UNCHANGED <<batch, equivalent>>, files \subseteq files', dagFaults' \in Nat,
         \A x \in M!Stage : M!Winner(x) \in files' => M!Winner(x) \in files
  PROVE  DagInv'
<1>1. InOrder'
  BY DEF DagInv, InOrder, M!Goto, M!airflow
<1>2. \A x \in M!Stage : Earned(x) => Earned(x)'
  BY DEF Earned
<1>3. batch' \in [M!Batch -> {"absent", "active", "succeeded", "failed", "foreign"}]
  BY DEF DagInv, DagTypes
<1> QED
  BY <1>1, <1>2, <1>3, OnStep

\* Attempts: what exists is adopted, and ends the task with success only when it succeeded.
LEMMA SubmitterStep ==
  ASSUME M!Method2Assumption, DagInv, NEW s \in Operator,
         M!Quota(s) \/ M!Look(s) \/ M!Client(s) \/ M!Relook(s) \/ M!ClientFails(s)
  PROVE  DagInv'
<1>1. dagFaults \in Nat /\ dagFaults + 1 \in Nat
  BY DEF DagInv, DagTypes
<1>2. CASE M!Quota(s)
  <2>1. stepping[s].pc = "quota" /\ UNCHANGED <<batch, files, equivalent, dagFaults>>
    BY <1>2 DEF M!Quota, M!At
  <2>2. M!TaskOf(s).action \in {"quota", "summary"}
    BY <2>1, AtWork
  <2>3. CASE M!Exit(s, FALSE)
    BY <1>1, <2>1, <2>3, PlainExit
  <2>4. CASE M!Exit(s, TRUE) /\ M!TaskOf(s).action = "quota"
    BY <1>1, <2>1, <2>4, PlainExit
  <2>5. CASE M!Goto(s, "submit") /\ M!TaskOf(s).action = "summary"
    BY <1>1, <2>1, <2>5, QuietOn DEF Submitter, SubmitPc
  <2> QED
    BY <1>2, <2>3, <2>4, <2>5 DEF M!Quota
<1>3. ASSUME NEW pc \in {"submit", "client", "relook"}, M!Goto(s, pc), stepping[s].pc \in SubmitPc,
             UNCHANGED <<batch, files, equivalent>>, dagFaults' \in Nat
      PROVE  DagInv'
  <2>1. Submitter(M!TaskOf(s)) /\ stepping[s].pc # "idle"
    BY <1>3, AtWork DEF SubmitPc
  <2> QED
    BY <1>3, <2>1, QuietOn DEF SubmitPc
<1>4. CASE M!Look(s)
  <2>1. stepping[s].pc = "look" /\ UNCHANGED <<batch, files, equivalent, dagFaults>>
    BY <1>4 DEF M!Look, M!At
  <2>2. CASE M!Exit(s, TRUE) /\ batch[M!BatchOf(M!TaskOf(s))] = "succeeded"
    BY <1>1, <2>1, <2>2, AttemptExit DEF SubmitPc
  <2>3. CASE M!Exit(s, FALSE)
    BY <1>1, <2>1, <2>3, AttemptExit DEF SubmitPc
  <2>4. CASE M!Goto(s, "submit")
    BY <1>1, <1>3, <2>1, <2>4 DEF SubmitPc
  <2>5. CASE M!Goto(s, "quota") /\ M!TaskOf(s).action = "summary"
    BY <1>1, <2>1, <2>5, QuietOn
  <2> QED
    BY <1>4, <2>2, <2>3, <2>4, <2>5 DEF M!Look, M!Adopt
<1>5. CASE M!Client(s)
  <2>1. stepping[s].pc = "client" /\ UNCHANGED <<batch, files, equivalent, dagFaults>>
    BY <1>5 DEF M!Client, M!At
  <2>2. CASE M!Exit(s, TRUE) /\ batch[M!BatchOf(M!TaskOf(s))] = "succeeded"
    BY <1>1, <2>1, <2>2, AttemptExit DEF SubmitPc
  <2>3. CASE M!Goto(s, "relook")
    BY <1>1, <1>3, <2>1, <2>3 DEF SubmitPc
  <2> QED
    BY <1>5, <2>2, <2>3 DEF M!Client
<1>6. CASE M!Relook(s)
  <2>1. stepping[s].pc = "relook" /\ UNCHANGED <<batch, files, equivalent, dagFaults>>
    BY <1>6 DEF M!Relook, M!At
  <2>2. CASE M!Exit(s, TRUE) /\ batch[M!BatchOf(M!TaskOf(s))] = "succeeded"
    BY <1>1, <2>1, <2>2, AttemptExit DEF SubmitPc
  <2>3. CASE M!Exit(s, FALSE)
    BY <1>1, <2>1, <2>3, AttemptExit DEF SubmitPc
  <2> QED
    BY <1>6, <2>2, <2>3 DEF M!Relook, M!Adopt
<1>7. CASE M!ClientFails(s)
  <2>1. stepping[s].pc \in {"submit", "client"} /\ UNCHANGED <<batch, files, equivalent>> /\ dagFaults' = dagFaults + 1
    BY <1>7 DEF M!ClientFails, M!Fault
  <2> QED
    BY <1>1, <1>3, <1>7, <2>1 DEF M!ClientFails, SubmitPc
<1> QED
  BY <1>2, <1>4, <1>5, <1>6, <1>7

\* The batch of the head of the chain is submitted: by then no other is active.
LEMMA SubmitStep ==
  ASSUME M!Method2Assumption, DagInv, NEW s \in Operator, M!Submit(s)
  PROVE  DagInv'
<1> DEFINE b == M!BatchOf(M!TaskOf(s))
<1>1. /\ stepping[s].pc = "submit" /\ UNCHANGED <<files, equivalent, dagFaults>> /\ dagFaults \in Nat
  BY DEF M!Submit, M!At, DagInv, DagTypes
<1>2. /\ Submitter(M!TaskOf(s)) /\ b \in M!Batch /\ Position(b) = stepping[s].at
      /\ stepping[s].at \in Nat /\ stepping[s].at <= done + 1 /\ done \in Nat
  BY <1>1, AtWork DEF SubmitPc, DagInv, DagTypes
<1>3. CASE UNCHANGED batch /\ M!Goto(s, "relook")
  BY <1>1, <1>2, <1>3, QuietOn DEF SubmitPc
<1>4. CASE batch[b] = "absent" /\ batch' = [batch EXCEPT ![b] = "active"] /\ M!Goto(s, "client")
  <2> HIDE DEF b
  <2>1. batch' \in [M!Batch -> {"absent", "active", "succeeded", "failed", "foreign"}]
    BY <1>2, <1>4 DEF DagInv, DagTypes
  <2>2. \A d \in M!Batch : batch[d] = "succeeded" => batch'[d] = "succeeded"
    BY <1>2, <1>4 DEF DagInv, DagTypes
  <2>3. \A d \in M!Batch : batch'[d] # batch[d] => d = b
    BY <1>2, <1>4 DEF DagInv, DagTypes
  <2>4. done' = done
    BY <1>4 DEF M!Goto, M!airflow
  <2>5. InOrder'
    BY <1>2, <1>4, <2>2, <2>3, <2>4 DEF DagInv, InOrder
  <2>6. \A x \in M!Stage : Earned(x) => Earned(x)'
    BY <1>1, <2>2 DEF Earned
  <2> QED
    BY <1>1, <1>2, <1>4, <2>1, <2>5, <2>6, OnStep DEF SubmitPc
<1> QED
  BY <1>3, <1>4 DEF M!Submit

\* Evidence: no file but a winner's has its name, and a winner's is written when it is earned.
LEMMA EvidenceStep ==
  ASSUME M!Method2Assumption, DagInv, NEW s \in Operator, M!Prepare(s) \/ M!Verify(s) \/ M!Copy(s) \/ M!Compute(s)
  PROVE  DagInv'
<1>1. UNCHANGED <<batch, equivalent, dagFaults>> /\ dagFaults \in Nat
  BY DEF M!Prepare, M!Verify, M!Copy, M!Compute, DagInv, DagTypes
<1>2. CASE M!Verify(s)
  <2>1. stepping[s].pc = "verify" /\ UNCHANGED files
    BY <1>2 DEF M!Verify, M!At
  <2>2. M!TaskOf(s).action = "verify"
    BY <2>1, AtWork
  <2>3. PICK ok \in BOOLEAN : M!Exit(s, ok)
    BY <1>2 DEF M!Verify
  <2> QED
    BY <1>1, <2>1, <2>2, <2>3, PlainExit
<1>3. ASSUME NEW f, f[3] # "winner", files' = files \cup {f}
      PROVE  files \subseteq files' /\ \A x \in M!Stage : M!Winner(x) \in files' => M!Winner(x) \in files
  BY <1>3 DEF M!Winner
<1>4. CASE M!Prepare(s)
  <2>1. stepping[s].pc = "prepare"
    BY <1>4 DEF M!Prepare, M!At
  <2>2. M!TaskOf(s).action = "prepare"
    BY <2>1, AtWork
  <2>3. CASE M!Exit(s, FALSE) /\ UNCHANGED files
    BY <1>1, <2>1, <2>3, PlainExit
  <2>4. CASE M!Exit(s, TRUE) /\ files' = files \cup {M!Pair(M!TaskOf(s).stage)}
    BY <1>1, <1>3, <2>1, <2>2, <2>4, PlainExit DEF M!Pair
  <2> QED
    BY <1>4, <2>3, <2>4 DEF M!Prepare, M!Create
<1>5. CASE M!Copy(s)
  <2>1. stepping[s].pc = "evidence"
    BY <1>5 DEF M!Copy, M!At
  <2>2. M!TaskOf(s).action = "evidence"
    BY <2>1, AtWork DEF EvidencePc
  <2>3. CASE M!Exit(s, FALSE) /\ UNCHANGED files
    BY <1>1, <2>1, <2>3, PlainExit
  <2>4. CASE M!Goto(s, "compute") /\ files' = files \cup {M!Copied(M!TaskOf(s).stage, M!TaskOf(s).profile)}
    BY <1>1, <1>3, <2>1, <2>2, <2>4, QuietOn DEF M!Copied
  <2> QED
    BY <1>5, <2>3, <2>4 DEF M!Copy, M!Create
<1>6. CASE M!Compute(s)
  <2>1. stepping[s].pc = "compute"
    BY <1>6 DEF M!Compute, M!At
  <2>2. M!TaskOf(s).action = "evidence"
    BY <2>1, AtWork DEF EvidencePc
  <2>3. CASE M!Exit(s, FALSE) /\ UNCHANGED files
    BY <1>1, <2>1, <2>3, PlainExit
  <2>4. CASE M!Exit(s, TRUE) /\ files' = files \cup {M!Evidence(M!TaskOf(s).stage, M!TaskOf(s).profile)}
    BY <1>1, <1>3, <2>1, <2>2, <2>4, PlainExit DEF M!Evidence
  <2> QED
    BY <1>6, <2>3, <2>4 DEF M!Compute, M!Create
<1> QED
  BY <1>2, <1>4, <1>5, <1>6

LEMMA FinalizeStep ==
  ASSUME M!Method2Assumption, DagInv, NEW s \in Operator, M!Finalize(s)
  PROVE  DagInv'
<1>1. stepping[s].pc = "finalize" /\ UNCHANGED <<batch, equivalent, dagFaults>> /\ dagFaults \in Nat
  BY DEF M!Finalize, M!At, DagInv, DagTypes
<1>2. /\ M!TaskOf(s).action = "finalize" /\ M!TaskOf(s).stage \in M!Stage
      /\ stepping[s].at \in 1 .. Len(M!chain) /\ stepping[s].at <= done + 1
  BY <1>1, AtWork
<1>3. CASE M!Exit(s, FALSE) /\ UNCHANGED files
  BY <1>1, <1>3, PlainExit
<1>4. CASE /\ M!Exit(s, TRUE) /\ files' = files \cup {M!Winner(M!TaskOf(s).stage)}
           /\ M!TaskOf(s).stage \in equivalent
  <2>1. ASSUME NEW b \in M!Batch, b[1] = M!TaskOf(s).stage PROVE batch[b] = "succeeded"
    <3>1. Position(b) \in Nat /\ done \in Nat /\ stepping[s].at \in Nat
      BY <1>2, BatchFields DEF DagInv, DagTypes
    <3>2. Position(b) < stepping[s].at
      BY <1>2, <2>1, FinalizedAt DEF M!TaskOf
    <3>3. Position(b) <= done
      BY <1>2, <3>1, <3>2
    <3> QED
      BY <3>3 DEF DagInv, InOrder
  <2>2. Earned(M!TaskOf(s).stage)
    BY <1>4, <2>1 DEF Earned
  <2>3. \A x \in M!Stage : M!Winner(x) \in files' => M!Winner(x) \in files \/ Earned(x)
    BY <1>4, <2>2 DEF M!Winner
  <2>4. ~Submitter(M!TaskOf(s))
    BY <1>2 DEF Submitter
  <2> QED
    BY <1>1, <1>4, <2>3, <2>4, ExitStep
<1> QED
  BY <1>3, <1>4 DEF M!Finalize, M!Create

LEMMA KillStep ==
  ASSUME M!Method2Assumption, DagInv, NEW s \in Operator, M!Kill(s)
  PROVE  DagInv'
<1>1. stepping[s] # M!Idle /\ UNCHANGED <<batch, files, equivalent>> /\ dagFaults' = dagFaults + 1 /\ M!Exit(s, FALSE)
  BY DEF M!Kill, M!Fault
<1>2. dagFaults' \in Nat
  BY <1>1 DEF DagInv, DagTypes
<1>3. CASE stepping[s].pc # "idle"
  BY <1>1, <1>2, <1>3, PlainExit
<1>4. CASE stepping[s].pc = "idle"
  <2>1. current # s
    BY <1>4 DEF DagInv, HeadSafe, M!Method2Assumption
  <2>2. UNCHANGED <<done, head, current>> /\ stepping' = [stepping EXCEPT ![s] = M!Idle]
    BY <1>1, <2>1 DEF M!Exit, M!airflow
  <2>3. M!Idle \in Process
    BY ChainAt DEF M!Idle, Process
  <2>4. DagTypes' /\ HeadSafe'
    BY <1>1, <1>2, <2>1, <2>2, <2>3 DEF DagInv, DagTypes, HeadSafe
  <2>5. InOrder' /\ WinnersSafe'
    BY <1>1, <2>2 DEF DagInv, InOrder, WinnersSafe, Earned, M!Winner
  <2>6. ASSUME NEW t \in Operator PROVE ProcessSafe(stepping[t])'
    <3>1. CASE t = s
      BY <2>2, <3>1 DEF ProcessSafe, M!Idle, DagInv, DagTypes
    <3>2. CASE t # s
      BY <2>2, <3>2, OthersStay DEF DagInv, DagTypes
    <3> QED
      BY <3>1, <3>2
  <2> QED
    BY <2>4, <2>5, <2>6 DEF DagInv
<1> QED
  BY <1>3, <1>4

\* A process whose request fails ends like one that is killed outside a write.
LEMMA RequestFailsStep ==
  ASSUME M!Method2Assumption, DagInv, NEW s \in Operator, M!RequestFails(s)
  PROVE  DagInv'
<1>1. stepping[s].pc # M!Idle.pc
  BY DEF M!RequestFails, M!Idle
<1>2. M!Kill(s)
  BY <1>1 DEF M!RequestFails, M!Kill
<1> QED
  BY <1>2, KillStep

\* Airflow starts the head of the chain, loses its process, or is told to try again.
LEMMA AirflowStep ==
  ASSUME M!Method2Assumption, DagInv, (\E s \in Operator : M!Start(s)) \/ M!Lose \/ M!Clear
  PROVE  DagInv'
<1>1. InOrder' /\ WinnersSafe'
  BY DEF M!Start, M!Lose, M!Clear, DagInv, InOrder, WinnersSafe, Earned, M!Winner
<1>2. done \in Nat /\ UNCHANGED done
  BY DEF M!Start, M!Lose, M!Clear, DagInv, DagTypes
<1>3. CASE M!Lose \/ M!Clear
  <2>1. UNCHANGED stepping /\ dagFaults' \in Nat
    BY <1>3 DEF M!Lose, M!Clear, M!Fault, DagInv, DagTypes
  <2>2. DagTypes'
    BY <1>3, <2>1 DEF M!Lose, M!Clear, DagInv, DagTypes
  <2>3. HeadSafe'
    BY <1>3 DEF M!Lose, M!Clear, DagInv, HeadSafe
  <2> QED
    BY <1>1, <1>2, <2>1, <2>2, <2>3, OthersStay DEF DagInv
<1>4. ASSUME NEW s \in Operator, M!Start(s) PROVE DagInv'
  <2>1. done + 1 \in 1 .. Len(M!chain)
    BY <1>2, <1>4, ChainAt DEF M!Start, DagInv, DagTypes
  <2>2. M!chain[done + 1] \in DagTask
    BY <2>1, SubmittedAt
  <2>3. PICK r : r = [at |-> done + 1, pc |-> M!FirstStep(M!chain[done + 1])]
    OBVIOUS
  <2>4. r \in Process /\ r.pc # "idle" /\ r.at = done + 1
    BY <2>1, <2>2, <2>3 DEF Process, M!FirstStep, DagTask, DagAction, SubmitPc, EvidencePc
  <2>5. ProcessSafe(r)
    BY <1>2, <2>1, <2>2, <2>3, <2>4 DEF ProcessSafe, M!FirstStep, DagTask, DagAction, SubmitPc, EvidencePc, Submitter
  <2>6. /\ stepping' = [stepping EXCEPT ![s] = r] /\ head' = "running" /\ current' = s
        /\ UNCHANGED <<batch, dagFaults>>
    BY <1>4, <2>3 DEF M!Start
  <2>7. DagTypes'
    BY <1>2, <2>4, <2>6 DEF DagInv, DagTypes
  <2>8. HeadSafe'
    BY <1>2, <2>4, <2>6 DEF DagInv, DagTypes, HeadSafe
  <2>9. ASSUME NEW t \in Operator PROVE ProcessSafe(stepping[t])'
    <3>1. CASE t = s
      <4>1. stepping'[s] = r
        BY <2>6 DEF DagInv, DagTypes
      <4> QED
        BY <1>2, <2>5, <3>1, <4>1 DEF ProcessSafe
    <3>2. CASE t # s
      BY <1>2, <2>6, <3>2, OthersStay DEF DagInv, DagTypes
    <3> QED
      BY <3>1, <3>2
  <2> QED
    BY <1>1, <2>7, <2>8, <2>9 DEF DagInv
<1> QED
  BY <1>3, <1>4

LEMMA DagBatchStep ==
  ASSUME M!Method2Assumption, DagInv, NEW b \in M!Batch, M!BatchEnds(b) \/ M!ForeignBatch(b)
  PROVE  DagInv'
<1>1. PICK s \in {"succeeded", "failed", "foreign"} :
        /\ batch' = [batch EXCEPT ![b] = s] /\ batch[b] \in {"absent", "active"}
        /\ batch[b] = "absent" => s = "foreign"
  BY DEF M!BatchEnds, M!ForeignBatch
<1>2. UNCHANGED <<files, equivalent, stepping, done, head, current>> /\ dagFaults' \in Nat
  BY DEF M!BatchEnds, M!ForeignBatch, M!Fault, M!airflow, DagInv, DagTypes
<1>3. DagTypes' /\ HeadSafe'
  BY <1>1, <1>2 DEF DagInv, DagTypes, HeadSafe
<1>4. \A d \in M!Batch : d # b => batch'[d] = batch[d]
  BY <1>1 DEF DagInv, DagTypes
<1>5. batch[b] # "succeeded" /\ batch'[b] = s
  BY <1>1 DEF DagInv, DagTypes
<1>6. InOrder'
  BY <1>1, <1>2, <1>4, <1>5 DEF DagInv, InOrder
<1>7. WinnersSafe'
  BY <1>2, <1>4, <1>5 DEF DagInv, WinnersSafe, Earned, M!Winner
<1>8. \A t \in Operator : ProcessSafe(stepping[t])'
  BY <1>2, OthersStay DEF DagInv, DagTypes
<1> QED
  BY <1>3, <1>6, <1>7, <1>8 DEF DagInv

LEMMA DagInit ==
  ASSUME M!Method2Assumption, M!Init
  PROVE  DagInv
<1>1. M!Idle \in Process /\ Len(M!chain) \in Nat
  BY ChainAt DEF M!Idle, Process
<1>2. DagTypes /\ HeadSafe
  BY <1>1 DEF M!Init, DagTypes, HeadSafe
<1>3. ASSUME NEW b \in M!Batch PROVE ~(Position(b) <= 0) /\ batch[b] = "absent"
  BY PositionSubmits DEF M!Init
<1>4. InOrder /\ WinnersSafe
  BY <1>3 DEF M!Init, InOrder, WinnersSafe
<1>5. \A s \in Operator : ProcessSafe(stepping[s])
  BY DEF M!Init, ProcessSafe, M!Idle
<1> QED
  BY <1>2, <1>4, <1>5 DEF DagInv

LEMMA DagNext ==
  ASSUME M!Method2Assumption, DagInv, [M!Next]_(M!vars)
  PROVE  DagInv'
<1>1. CASE UNCHANGED M!vars
  BY <1>1 DEF M!vars, DagInv, DagTypes, HeadSafe, InOrder, WinnersSafe, Earned, M!Winner, ProcessSafe
<1>2. ASSUME NEW s \in Operator, M!Step(s) PROVE DagInv'
  BY <1>2, SubmitterStep, SubmitStep, EvidenceStep, FinalizeStep DEF M!Step
<1> QED
  BY <1>1, <1>2, SubmitterStep, KillStep, RequestFailsStep, AirflowStep, DagBatchStep DEF M!Next

LEMMA DagSound ==
  ASSUME M!Method2Assumption, DagInv
  PROVE  M!OneActiveBatch /\ M!WinnersAreEarned /\ M!GoldFollowsSilver
<1>1. M!OneActiveBatch
  <2>1. \A b \in M!Active : b \in M!Batch /\ Position(b) = done + 1
    BY BatchFields DEF DagInv, DagTypes, InOrder, M!Active
  <2> QED
    BY <2>1, Positions DEF M!OneActiveBatch
<1>2. M!WinnersAreEarned
  BY DEF DagInv, WinnersSafe, Earned, M!WinnersAreEarned
<1>3. M!GoldFollowsSilver
  <2> SUFFICES ASSUME NEW b \in M!Batch, b[1] = "gold", batch[b] \notin {"absent", "foreign"}
               PROVE  M!Winner("silver") \in files
    BY DEF M!GoldFollowsSilver
  <2>1. Position(b) <= done + 1 /\ Position(b) > 12 /\ Position(b) \in Nat /\ done \in Nat
    BY Positions, BatchFields DEF DagInv, DagTypes, InOrder
  <2> QED
    BY <2>1 DEF DagInv, WinnersSafe
<1> QED
  BY <1>1, <1>2, <1>3

\* A submitter ends without success only through a batch that is not there, failed or foreign,
\* unless a process was lost or killed
\* or its own request failed in that step.
LEMMA SubmitterEnds ==
  ASSUME M!Method2Assumption, DagInv, [M!Next]_(M!vars), NEW s \in Operator, M!SubmitterFails(s)
  PROVE  batch[M!BatchOf(M!TaskOf(s))] \in {"absent", "failed", "foreign"}
<1>1. /\ stepping[s].pc \in {"client", "relook"} /\ stepping'[s] = M!Idle /\ current = s /\ head' = "failed"
      /\ dagFaults' = dagFaults /\ dagFaults \in Nat
  BY DEF M!SubmitterFails, DagInv, DagTypes
<1>2. stepping'[s] # stepping[s] /\ stepping'[s].pc = "idle"
  BY <1>1 DEF M!Idle
<1>3. ~UNCHANGED stepping
  BY <1>2
<1>4. ~UNCHANGED M!vars /\ ~M!Lose /\ ~M!Clear /\ \A b \in M!Batch : ~M!BatchEnds(b) /\ ~M!ForeignBatch(b)
  BY <1>3 DEF M!vars, M!Lose, M!Clear, M!BatchEnds, M!ForeignBatch
<1>5. PICK t \in Operator : M!Start(t) \/ M!Step(t) \/ M!ClientFails(t) \/ M!RequestFails(t) \/ M!Kill(t)
  BY <1>4 DEF M!Next
<1>6. ~M!Start(t) /\ ~M!ClientFails(t) /\ ~M!RequestFails(t) /\ ~M!Kill(t)
  <2>1. ~M!Fault
    BY <1>1 DEF M!Fault
  <2> QED
    BY <1>1, <2>1 DEF M!Start, M!ClientFails, M!RequestFails, M!Kill
<1>7. t = s
  <2>1. \E r : stepping' = [stepping EXCEPT ![t] = r]
    BY <1>5, <1>6 DEF M!Step, M!Quota, M!Look, M!Submit, M!Client, M!Relook, M!Prepare, M!Verify, M!Copy, M!Compute, M!Finalize,
                      M!Adopt, M!Create, M!Exit, M!Goto
  <2> QED
    BY <1>2, <2>1 DEF DagInv, DagTypes
<1>8. M!Client(s) \/ M!Relook(s)
  BY <1>1, <1>5, <1>6, <1>7 DEF M!Step, M!Quota, M!Look, M!Submit, M!Prepare, M!Verify, M!Copy, M!Compute, M!Finalize, M!At
<1>9. ~M!Exit(s, TRUE)
  BY <1>1 DEF M!Exit
<1>10. \A pc \in {"relook"} : ~M!Goto(s, pc)
  BY <1>1, <1>2 DEF M!Goto, DagInv, DagTypes, Process
<1>11. ~M!Client(s)
  BY <1>9, <1>10 DEF M!Client
<1> QED
  BY <1>8, <1>9, <1>11 DEF M!Relook, M!Adopt

-----------------------------------------------------------------------------
(* The training snapshot.  An object, once created, is never replaced, so    *)
(* the files a run has read back stay its own; a marker, though it may be   *)
(* executed late, was sent only when all files of its run had been read     *)
(* back.                                                                    *)

\* Runs that have sent their marker have read back every file.
MarkerSent(p) ==
  \/ at[p] \in {"mark", "readMarker", "listFinal", "verifyFinal", "published"}
  \/ <<p, Marker>> \in unanswered
  \/ remote[Marker] = p

RunSafe(p) ==
  /\ \A i \in 1..created[p] : remote[FilesOf[p][i]] = p
  /\ at[p] = "read" => created[p] < T!Count(p)
  /\ at[p] = "verify" => created[p] = T!Count(p)
  /\ MarkerSent(p) => created[p] = T!Count(p)
  /\ at[p] = "published" => remote[Marker] = p

SnapshotInv == T!TypeOK /\ \A p \in Publisher : RunSafe(p)

\* No object is replaced.
ObjectsKept == \A n \in Name \cup {Marker} : remote[n] # NoObject => remote'[n] = remote[n]

-----------------------------------------------------------------------------
LEMMA FilesAreNames ==
  ASSUME T!SnapshotAssumption, NEW p \in Publisher
  PROVE  /\ T!Count(p) \in Nat
         /\ \A i \in 1..T!Count(p) : FilesOf[p][i] \in Name /\ FilesOf[p][i] # Marker
  BY DEF T!SnapshotAssumption, T!Count

\* A step of one run that replaces nothing, and makes no other run's marker.
LEMMA OneRunStep ==
  ASSUME T!SnapshotAssumption, SnapshotInv, T!TypeOK', ObjectsKept, NEW p \in Publisher, RunSafe(p)',
         \A q \in Publisher \ {p} :
           /\ at'[q] = at[q] /\ created'[q] = created[q]
           /\ <<q, Marker>> \in unanswered' => <<q, Marker>> \in unanswered
           /\ remote'[Marker] = q => remote[Marker] = q
  PROVE  SnapshotInv'
<1>1. ASSUME NEW q \in Publisher \ {p} PROVE RunSafe(q)'
  <2>1. created[q] \in Nat /\ created[q] <= T!Count(q) /\ T!Count(q) \in Nat
    BY FilesAreNames DEF SnapshotInv, T!TypeOK
  <2>2. \A i \in 1..created[q] : remote'[FilesOf[q][i]] = q
    BY <1>1, <2>1, FilesAreNames DEF SnapshotInv, RunSafe, ObjectsKept, T!SnapshotAssumption
  <2>3. remote[Marker] = q => remote'[Marker] = q
    BY DEF ObjectsKept, T!SnapshotAssumption
  <2>4. MarkerSent(q)' => MarkerSent(q)
    BY <1>1 DEF MarkerSent
  <2> QED
    BY <1>1, <2>2, <2>3, <2>4 DEF SnapshotInv, RunSafe, T!Count
<1> QED
  BY <1>1 DEF SnapshotInv

\* A step that changes no object.
LEMMA QuietRun ==
  ASSUME T!SnapshotAssumption, SnapshotInv, T!TypeOK', NEW p \in Publisher, RunSafe(p)', UNCHANGED remote,
         \A q \in Publisher \ {p} : at'[q] = at[q] /\ created'[q] = created[q],
         \A q \in Publisher \ {p} : <<q, Marker>> \in unanswered' => <<q, Marker>> \in unanswered
  PROVE  SnapshotInv'
  BY OneRunStep DEF ObjectsKept

\* A step of the first kind: only the place of the run changes, and its place in a check.
LEMMA MoveStep ==
  ASSUME T!SnapshotAssumption, SnapshotInv, NEW p \in Publisher, NEW where \in T!Where, T!Goto(p, where),
         UNCHANGED <<remote, created, unanswered>>,
         verified' = verified \/ verified' = [verified EXCEPT ![p] = 0],
         where = "read" => created[p] < T!Count(p),
         where \in {"verify", "mark", "readMarker", "listFinal", "verifyFinal", "published"} =>
           created[p] = T!Count(p),
         where = "published" => remote[Marker] = p
  PROVE  SnapshotInv'
<1>1. T!TypeOK'
  <2>1. at' \in [Publisher -> T!Where] /\ verified' \in [Publisher -> Nat]
    BY DEF SnapshotInv, T!TypeOK, T!Goto
  <2> QED
    BY <2>1 DEF SnapshotInv, T!TypeOK, T!Count
<1>2. RunSafe(p)'
  BY DEF SnapshotInv, T!TypeOK, RunSafe, MarkerSent, T!Goto, T!Count
<1> QED
  BY <1>1, <1>2, QuietRun DEF T!Goto, SnapshotInv, T!TypeOK

LEMMA TargetIsName ==
  ASSUME T!SnapshotAssumption, SnapshotInv, NEW p \in Publisher, T!Creating(p)
  PROVE  /\ T!Target(p) \in Name \cup {Marker}
         /\ at[p] = "create" => T!Target(p) = FilesOf[p][created[p] + 1] /\ T!Target(p) # Marker
         /\ at[p] = "mark" => T!Target(p) = Marker /\ created[p] = T!Count(p)
<1>1. created[p] \in Nat
  BY DEF SnapshotInv, T!TypeOK
<1>2. CASE at[p] = "mark"
  BY <1>2 DEF T!Target, SnapshotInv, RunSafe, MarkerSent
<1>3. CASE at[p] = "create" /\ created[p] < T!Count(p)
  <2>1. created[p] + 1 \in 1..T!Count(p)
    BY <1>1, <1>3, FilesAreNames
  <2> QED
    BY <1>3, <2>1, FilesAreNames DEF T!Target
<1> QED
  BY <1>2, <1>3 DEF T!Creating

LEMMA CreateStep ==
  ASSUME T!SnapshotAssumption, SnapshotInv, NEW p \in Publisher, T!Create(p)
  PROVE  SnapshotInv'
<1>1. CASE remote[T!Target(p)] # NoObject
  BY <1>1, MoveStep DEF T!Create, T!Where
<1>2. CASE remote[T!Target(p)] = NoObject
  <2>1. PICK where \in {"read", "readMarker"} :
          /\ T!Goto(p, where)
          /\ where = "read" => at[p] = "create" /\ created[p] < T!Count(p)
          /\ where = "readMarker" => at[p] = "mark"
    BY <1>2 DEF T!Create, T!Created, T!Creating
  <2>2. remote' = [remote EXCEPT ![T!Target(p)] = p]
    BY <1>2 DEF T!Create
  <2>3. T!TypeOK'
    BY <1>2, <2>1, <2>2, TargetIsName DEF T!Create, SnapshotInv, T!TypeOK, T!Goto, T!Where, T!Count
  <2>4. ObjectsKept
    BY <1>2, <2>2, TargetIsName DEF SnapshotInv, T!TypeOK, ObjectsKept, T!Create
  <2>5. RunSafe(p)'
    <3>1. \A i \in 1..created[p] : remote'[FilesOf[p][i]] = p
      <4>1. created[p] \in Nat /\ created[p] <= T!Count(p) /\ T!Count(p) \in Nat
        BY FilesAreNames DEF SnapshotInv, T!TypeOK
      <4> QED
        BY <4>1, <2>4, FilesAreNames DEF SnapshotInv, RunSafe, ObjectsKept, T!SnapshotAssumption
    <3>2. created' = created /\ unanswered' = unanswered /\ at'[p] = where
      BY <1>2, <2>1 DEF T!Create, T!Goto, SnapshotInv, T!TypeOK
    <3>3. remote'[Marker] = p => remote[Marker] = p \/ at[p] = "mark"
      BY <2>1, <2>2, TargetIsName DEF T!Create, SnapshotInv, T!TypeOK, T!Creating
    <3>4. MarkerSent(p)' => created[p] = T!Count(p)
      BY <2>1, <3>2, <3>3 DEF MarkerSent, SnapshotInv, RunSafe
    <3> QED
      BY <2>1, <3>1, <3>2, <3>4 DEF RunSafe, T!Count
  <2>6. \A q \in Publisher \ {p} : remote'[Marker] = q => remote[Marker] = q
    BY <2>2 DEF SnapshotInv, T!TypeOK
  <2> QED
    BY <1>2, <2>1, <2>3, <2>4, <2>5, <2>6, OneRunStep DEF T!Create, T!Goto, SnapshotInv, T!TypeOK
<1> QED
  BY <1>1, <1>2

LEMMA CreateFailsStep ==
  ASSUME T!SnapshotAssumption, SnapshotInv, NEW p \in Publisher, T!CreateFails(p)
  PROVE  SnapshotInv'
<1>1. T!TypeOK'
  BY TargetIsName DEF T!CreateFails, SnapshotInv, T!TypeOK, T!Goto, T!Where, T!Count
<1>2. <<p, Marker>> \in unanswered' => <<p, Marker>> \in unanswered \/ at[p] = "mark"
  BY TargetIsName DEF T!CreateFails, T!Creating
<1>3. RunSafe(p)'
  BY <1>2 DEF T!CreateFails, SnapshotInv, T!TypeOK, RunSafe, MarkerSent, T!Goto, T!Count
<1> QED
  BY <1>1, <1>3, QuietRun DEF T!CreateFails, T!Goto, SnapshotInv, T!TypeOK

\* A late creation makes an object only where there is none.
LEMMA LandStep ==
  ASSUME T!SnapshotAssumption, SnapshotInv, NEW p \in Publisher, NEW n \in Name \cup {Marker}, T!Land(p, n)
  PROVE  SnapshotInv'
<1>1. T!TypeOK'
  BY DEF T!Land, SnapshotInv, T!TypeOK, T!Count
<1>2. ObjectsKept
  BY DEF T!Land, SnapshotInv, T!TypeOK, ObjectsKept
<1>3. RunSafe(p)'
  <2>1. created[p] \in Nat /\ created[p] <= T!Count(p) /\ T!Count(p) \in Nat
    BY FilesAreNames DEF SnapshotInv, T!TypeOK
  <2>2. \A i \in 1..created[p] : remote'[FilesOf[p][i]] = p
    BY <1>2, <2>1, FilesAreNames DEF SnapshotInv, RunSafe, ObjectsKept, T!SnapshotAssumption
  <2>3. MarkerSent(p)' => MarkerSent(p)
    BY DEF T!Land, MarkerSent, SnapshotInv, T!TypeOK
  <2>4. remote[Marker] = p => remote'[Marker] = p
    BY <1>2 DEF ObjectsKept, T!SnapshotAssumption
  <2> QED
    BY <2>2, <2>3, <2>4 DEF T!Land, SnapshotInv, RunSafe, T!Count
<1>4. \A q \in Publisher \ {p} : remote'[Marker] = q => remote[Marker] = q
  BY DEF T!Land, SnapshotInv, T!TypeOK
<1> QED
  BY <1>1, <1>2, <1>3, <1>4, OneRunStep DEF T!Land, SnapshotInv, T!TypeOK

LEMMA ReadBackStep ==
  ASSUME T!SnapshotAssumption, SnapshotInv, NEW p \in Publisher, T!ReadBack(p)
  PROVE  SnapshotInv'
<1>1. CASE remote[T!Target(p)] # p
  BY <1>1, MoveStep DEF T!ReadBack, T!Where
<1>2. CASE remote[T!Target(p)] = p
  <2>1. /\ created[p] \in Nat /\ created[p] < T!Count(p) /\ T!Count(p) \in Nat
        /\ T!Target(p) = FilesOf[p][created[p] + 1] /\ at[p] = "read"
    BY FilesAreNames DEF T!ReadBack, SnapshotInv, T!TypeOK, RunSafe, T!Target
  <2>2. created' = [created EXCEPT ![p] = @ + 1] /\ at' = [at EXCEPT ![p] = "create"]
    BY <1>2 DEF T!ReadBack, T!Goto
  <2>3. T!TypeOK'
    BY <2>1, <2>2 DEF T!ReadBack, SnapshotInv, T!TypeOK, T!Where, T!Count
  <2>4. created'[p] = created[p] + 1 /\ at'[p] = "create"
    BY <2>2 DEF SnapshotInv, T!TypeOK
  <2>5. \A i \in 1..created[p] + 1 : remote[FilesOf[p][i]] = p
    BY <1>2, <2>1 DEF SnapshotInv, RunSafe
  <2>6. ~MarkerSent(p)
    BY <2>1 DEF SnapshotInv, RunSafe
  <2>7. RunSafe(p)'
    BY <2>4, <2>5, <2>6 DEF T!ReadBack, RunSafe, MarkerSent, T!Count
  <2> QED
    BY <2>2, <2>3, <2>7, QuietRun DEF T!ReadBack, SnapshotInv, T!TypeOK
<1> QED
  BY <1>1, <1>2

\* Listings and verifications decide where the run goes on.
LEMMA CheckStep ==
  ASSUME T!SnapshotAssumption, SnapshotInv, NEW p \in Publisher,
         T!ListEmpty(p) \/ T!Precommit(p) \/ T!VerifyNext(p) \/ T!Verified(p) \/ T!ReadMarker(p) \/ T!ListFinal(p)
         \/ T!Fail(p)
  PROVE  SnapshotInv'
<1>1. at[p] \in {"verify", "mark", "readMarker", "listFinal", "verifyFinal"} => created[p] = T!Count(p)
  BY DEF SnapshotInv, RunSafe, MarkerSent
<1>2. CASE T!ListEmpty(p) \/ T!Fail(p)
  BY <1>2, MoveStep DEF T!ListEmpty, T!Fail, T!Where
<1>3. CASE T!Precommit(p)
  <2>1. CASE T!Goto(p, "failed") /\ UNCHANGED verified
    BY <1>3, <2>1, MoveStep DEF T!Precommit, T!List, T!Where
  <2>2. CASE T!Goto(p, "verify") /\ verified' = [verified EXCEPT ![p] = 0]
    BY <1>3, <2>2, MoveStep DEF T!Precommit, T!List, T!Where
  <2> QED
    BY <1>3, <2>1, <2>2 DEF T!Precommit, T!List
<1>4. CASE T!ListFinal(p)
  <2>1. CASE T!Goto(p, "failed") /\ UNCHANGED verified
    BY <1>4, <2>1, MoveStep DEF T!ListFinal, T!List, T!Where
  <2>2. CASE T!Goto(p, "verifyFinal") /\ verified' = [verified EXCEPT ![p] = 0]
    BY <1>1, <1>4, <2>2, MoveStep DEF T!ListFinal, T!List, T!Where
  <2> QED
    BY <1>4, <2>1, <2>2 DEF T!ListFinal, T!List
<1>5. CASE T!VerifyNext(p)
  <2>1. CASE T!Goto(p, "failed") /\ UNCHANGED verified
    BY <1>5, <2>1, MoveStep DEF T!VerifyNext, T!Where
  <2>2. CASE verified' = [verified EXCEPT ![p] = @ + 1] /\ UNCHANGED at
    <3>1. T!TypeOK'
      BY <1>5, <2>2 DEF T!VerifyNext, SnapshotInv, T!TypeOK, T!Count
    <3>2. RunSafe(p)'
      BY <1>5, <2>2 DEF T!VerifyNext, SnapshotInv, RunSafe, MarkerSent, T!Count
    <3> QED
      BY <1>5, <2>2, <3>1, <3>2, QuietRun DEF T!VerifyNext
  <2> QED
    BY <1>5, <2>1, <2>2 DEF T!VerifyNext
<1>6. CASE T!Verified(p)
  <2>1. CASE at[p] = "verify" /\ T!Goto(p, "mark")
    BY <1>1, <1>6, <2>1, MoveStep DEF T!Verified, T!Where
  <2>2. CASE at[p] = "verifyFinal" /\ T!Goto(p, IF remote[Marker] = p THEN "published" ELSE "failed")
    BY <1>1, <1>6, <2>2, MoveStep DEF T!Verified, T!Where
  <2> QED
    BY <1>6, <2>1, <2>2 DEF T!Verified
<1>7. CASE T!ReadMarker(p)
  BY <1>1, <1>7, MoveStep DEF T!ReadMarker, T!Where
<1> QED
  BY <1>2, <1>3, <1>4, <1>5, <1>6, <1>7

LEMMA SnapshotInit ==
  ASSUME T!SnapshotAssumption, T!Init
  PROVE  SnapshotInv
<1>1. T!TypeOK
  BY FilesAreNames DEF T!Init, T!TypeOK, T!Where
<1>2. ASSUME NEW p \in Publisher PROVE RunSafe(p)
  <2>1. at[p] = "new" /\ created[p] = 0 /\ 1..created[p] = {} /\ remote[Marker] # p
    BY DEF T!Init, T!SnapshotAssumption
  <2> QED
    BY <2>1 DEF T!Init, RunSafe, MarkerSent
<1> QED
  BY <1>1, <1>2 DEF SnapshotInv

LEMMA SnapshotNext ==
  ASSUME T!SnapshotAssumption, SnapshotInv, [T!Next]_(T!vars)
  PROVE  SnapshotInv'
<1>1. CASE UNCHANGED T!vars
  BY <1>1 DEF T!vars, SnapshotInv, T!TypeOK, RunSafe, MarkerSent, T!Count
<1>2. ASSUME NEW request \in unanswered, T!Land(request[1], request[2]) PROVE SnapshotInv'
  <2>1. request \in Publisher \X (Name \cup {Marker})
    BY <1>2 DEF SnapshotInv, T!TypeOK
  <2>2. request[1] \in Publisher /\ request[2] \in Name \cup {Marker}
    BY <2>1
  <2> QED
    BY <1>2, <2>2, LandStep
<1> QED
  BY <1>1, <1>2, CreateStep, CreateFailsStep, ReadBackStep, CheckStep DEF T!Next

LEMMA SnapshotSound ==
  ASSUME SnapshotInv
  PROVE  T!CompletionIsTrue
<1>1. remote[Marker] # NoObject => remote[Marker] \in Publisher
  BY DEF SnapshotInv, T!TypeOK
<1> QED
  BY <1>1 DEF SnapshotInv, RunSafe, MarkerSent, T!CompletionIsTrue

-----------------------------------------------------------------------------
(* The whole.  A step is of one setting and changes nothing of the others.  *)

OperationsInv == RecoveryInv /\ DagInv /\ SnapshotInv

LEMMA OneSetting ==
  ASSUME [OperationsNext]_all
  PROVE  [M!Next]_(M!vars) /\ [G!Next]_(G!vars) /\ [T!Next]_(T!vars)
  BY DEF OperationsNext, all, dag, recovery, snapshot, M!vars, G!vars, T!vars

\* The inductive invariants of the recovery, the DAG and the snapshot hold in every state.
THEOREM OperationsInvariance ==
  ASSUME OperationsAssumption
  PROVE  OperationsSpec => []OperationsInv
<1>1. OperationsInit => OperationsInv
  BY RecoveryInit, DagInit, SnapshotInit DEF OperationsInit, OperationsInv, OperationsAssumption
<1>2. OperationsInv /\ [OperationsNext]_all => OperationsInv'
  BY OneSetting, RecoveryNext, DagNext, SnapshotNext DEF OperationsInv, OperationsAssumption
<1> QED
  BY <1>1, <1>2, PTL DEF OperationsSpec

\* One paid batch at a time, in the DAG and in its recovery: whatever processes are lost and
\* tasks cleared, and whichever commands are repeated or run side by side.
THEOREM OneAttemptHolds ==
  ASSUME OperationsAssumption
  PROVE  OperationsSpec => []OneAttempt
<1>1. OperationsInv => OneAttempt
  BY RecoverySound, DagSound DEF OperationsInv, OneAttempt, OperationsAssumption
<1> QED
  BY <1>1, OperationsInvariance, PTL

\* A winner is selected of outputs found equal, all of whose batches succeeded, and no Gold
\* batch is paid for before the Silver winner.
THEOREM WinnersAreDueHolds ==
  ASSUME OperationsAssumption
  PROVE  OperationsSpec => []WinnersAreDue
<1>1. OperationsInv => WinnersAreDue
  BY DagSound DEF OperationsInv, WinnersAreDue, OperationsAssumption
<1> QED
  BY <1>1, OperationsInvariance, PTL

\* Airflow never launches the paid Gold chain during a recovery.
THEOREM NoPaidLaunchHolds ==
  ASSUME OperationsAssumption
  PROVE  OperationsSpec => []NoPaidLaunch
<1>1. OperationsInv => NoPaidLaunch
  BY RecoverySound DEF OperationsInv, NoPaidLaunch, OperationsAssumption
<1> QED
  BY <1>1, OperationsInvariance, PTL

\* A reconciled task stands for an effect that happened, and a reconciled DagRun for all of
\* them and a winner.
THEOREM SuccessIsWholeHolds ==
  ASSUME OperationsAssumption
  PROVE  OperationsSpec => []SuccessIsWhole
<1>1. OperationsInv => SuccessIsWhole
  BY RecoverySound DEF OperationsInv, SuccessIsWhole, OperationsAssumption
<1> QED
  BY <1>1, OperationsInvariance, PTL

\* A completion marker lists files that are there and stay, all of the run that wrote it,
\* and only that run reports the root published: for any overlapping and dead runs.
THEOREM CompletionHolds ==
  ASSUME OperationsAssumption
  PROVE  OperationsSpec => []CompletionIsTrue
<1>1. OperationsInv => CompletionIsTrue
  BY SnapshotSound DEF OperationsInv, CompletionIsTrue
<1> QED
  BY <1>1, OperationsInvariance, PTL

\* Whatever became of its client, a task that has submitted fails only with the batch it stands
\* for, or at a fault of that very step: it is killed or lost, or its request fails.
THEOREM FailsOnlyWithItsBatchHolds ==
  ASSUME OperationsAssumption
  PROVE  OperationsSpec => FailsOnlyWithItsBatch
<1>1. ASSUME OperationsInv, [OperationsNext]_all
      PROVE  [\A s \in Operator : M!SubmitterFails(s) =>
                batch[M!BatchOf(M!TaskOf(s))] \in {"absent", "failed", "foreign"}]_(M!vars)
  BY <1>1, OneSetting, SubmitterEnds DEF OperationsInv, OperationsAssumption
<1> QED
  BY <1>1, OperationsInvariance, PTL DEF OperationsSpec, FailsOnlyWithItsBatch, M!FailsOnlyWithItsBatch
=============================================================================
