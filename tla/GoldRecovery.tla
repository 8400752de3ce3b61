--------------------------- MODULE GoldRecovery ---------------------------
(***************************************************************************)
(* The recovery of a failed Method-2 DagRun (ops/gcp/recover_dp2_method2.py):*)
(* an operator first makes Airflow accept the recovered Silver tasks, then   *)
(* plans the Gold attempts and runs the Gold steps from outside, one command *)
(* each, patching the tasks of the DagRun, which stays paused and failed.    *)
(*                                                                         *)
(* Airflow and Dataproc are external: Airflow may queue a failed DagRun when *)
(* a task of it is patched, and a queued DagRun of a DAG that is not paused  *)
(* launches its next Gold task.                                             *)
(***************************************************************************)
EXTENDS Integers, Sequences

CONSTANTS
  Controller,    \* terminals from which commands are run
  Steps,         \* the Gold steps in order, each [action, profile]
  MaxFaults      \* bound: killed commands, failed clients and failed batches

Action == {"quota", "submit", "verify", "summary", "evidence", "finalize"}

Step == DOMAIN Steps
Last == Len(Steps)

RecoveryAssumption ==
  /\ Controller # {} /\ MaxFaults \in Nat
  /\ Steps \in Seq([action : Action, profile : {"baseline", "optimized"}])
  /\ Last > 0 /\ Steps[Last].action = "finalize"

Batch == {Steps[i].profile : i \in Step} \X {"compute", "scan"}
BatchOf(i) == <<Steps[i].profile, IF Steps[i].action = "summary" THEN "scan" ELSE "compute">>

\* Tasks of the DagRun: the two recovered Silver ones, patched together, the preparation
\* of the Gold pair, and one for each step.
Silver == -1
Prepare == 0
Task == {Silver, Prepare} \cup Step

VARIABLES
  paused,        \* the DAG is paused
  dagRun,        \* the state of the DagRun: "failed", "queued" or "success"
  task,          \* tasks that are a success in Airflow
  launched,      \* history: Airflow has launched a Gold task
  batch,         \* the Dataproc attempt of each ID
  fresh,         \* profiles whose quota evidence is not older than five minutes
  files,         \* evidence written: "audit", "reconciled", "pair", "plan", "winner"
  recorded,      \* steps with evidence of their own
  proc,          \* the command each terminal runs
  faults

vars == <<paused, dagRun, task, launched, batch, fresh, files, recorded, proc, faults>>
cloud == <<batch, fresh>>
evidence == <<files, recorded>>
airflow == <<paused, dagRun, task, launched>>

Idle == [pc |-> "idle", task |-> Silver, seen |-> "none"]

\* Either the evidence of Silver failed and has been recovered, or Gold was cancelled
\* after its pair was prepared, and the operator has paused the DAG.
Init ==
  /\ dagRun = "failed" /\ launched = FALSE
  /\ \/ paused = FALSE /\ task = {} /\ files = {"audit"}
     \/ paused = TRUE /\ task = {Silver, Prepare} /\ files = {"pair"}
  /\ batch = [b \in Batch |-> "absent"] /\ fresh = {} /\ recorded = {}
  /\ proc = [c \in Controller |-> Idle]
  /\ faults = 0

Fault == faults < MaxFaults /\ faults' = faults + 1

At(c, pc) == proc[c].pc = pc
Goto(c, pc) == proc' = [proc EXCEPT ![c].pc = pc]
Begin(c, pc, t) ==
  /\ At(c, "idle")
  /\ proc' = [proc EXCEPT ![c] = [pc |-> pc, task |-> t, seen |-> IF t \in task THEN "success" ELSE "none"]]
End(c) == proc' = [proc EXCEPT ![c] = Idle]
If(c, ok, pc) == IF ok THEN Goto(c, pc) ELSE End(c)

-----------------------------------------------------------------------------
(* Airflow.                                                                *)

\* A patched task is a success; the failed DagRun may be queued by it.
Patched(i) ==
  /\ task' = task \cup {i}
  /\ dagRun' \in {dagRun, IF dagRun = "failed" THEN "queued" ELSE dagRun}

\* The scheduler launches a paid task.
Launch ==
  /\ dagRun = "queued" /\ ~paused /\ Silver \in task
  /\ launched' = TRUE
  /\ UNCHANGED <<paused, dagRun, task, cloud, evidence, proc, faults>>

-----------------------------------------------------------------------------
(* reconcile-silver                                                        *)

\* Refused without the audit of the recovered artifacts; only checked when done already.
StartReconcile(c) ==
  /\ "audit" \in files /\ "reconciled" \notin files
  /\ Begin(c, "pause", Silver)
  /\ UNCHANGED <<airflow, cloud, evidence, faults>>

\* Mutant: the DAG is not paused before the tasks are patched.
PauseLater(c) ==
  /\ At(c, "pause") /\ Goto(c, "patchSilver")
  /\ UNCHANGED <<airflow, cloud, evidence, faults>>

Pause(c) ==
  /\ At(c, "pause")
  /\ paused' = TRUE /\ Goto(c, "patchSilver")
  /\ UNCHANGED <<dagRun, task, launched, cloud, evidence, faults>>

PatchSilver(c) ==
  /\ At(c, "patchSilver")
  /\ IF Silver \in task THEN UNCHANGED <<dagRun, task>> ELSE Patched(Silver)
  /\ Goto(c, "readSilver")
  /\ UNCHANGED <<paused, launched, cloud, evidence, faults>>

\* The state is read once: with Gold activity in it the command fails.
ReadSilver(c) ==
  /\ At(c, "readSilver")
  /\ IF task \subseteq {Silver} /\ ~launched
     THEN proc' = [proc EXCEPT ![c] = [@ EXCEPT !.pc = "holdSilver", !.seen = dagRun]]
     ELSE End(c)
  /\ UNCHANGED <<airflow, cloud, evidence, faults>>

HoldSilver(c) ==
  /\ At(c, "holdSilver")
  /\ dagRun' = IF proc[c].seen = "failed" THEN dagRun ELSE "failed"
  /\ Goto(c, "recordSilver")
  /\ UNCHANGED <<paused, task, launched, cloud, evidence, faults>>

RecordSilver(c) ==
  /\ At(c, "recordSilver")
  /\ files' = IF proc[c].seen = "failed" \/ dagRun = "failed" THEN files \cup {"reconciled"} ELSE files
  /\ End(c)
  /\ UNCHANGED <<airflow, cloud, recorded, faults>>

-----------------------------------------------------------------------------
(* plan-gold and run-gold-step                                             *)

Held == dagRun = "failed" /\ paused

\* The pair is prepared, and nothing of either attempt exists.
PlanGold(c) ==
  /\ At(c, "idle") /\ "pair" \in files /\ "plan" \notin files
  /\ Held /\ \A b \in Batch : batch[b] = "absent"
  /\ files' = files \cup {"plan"}
  /\ UNCHANGED <<airflow, cloud, recorded, proc, faults>>

\* Mutant: the predecessor is not asked for.
GateAny(i) == TRUE

\* The task before it is a success in Airflow.
Gate(i) == (i - 1) \in task

StepStart(i) ==
  IF Steps[i].action \in {"submit", "summary"} THEN "describe" ELSE Steps[i].action

\* Plan, hold, predecessor and, for a submission, fresh quota evidence are read first.
StartStep(c, i) ==
  /\ "plan" \in files /\ Held /\ Gate(i)
  /\ Steps[i].action = "submit" => Steps[i].profile \in fresh
  /\ Begin(c, StepStart(i), i)
  /\ UNCHANGED <<airflow, cloud, evidence, faults>>

StepOf(c) == proc[c].task
State(c) == batch[BatchOf(StepOf(c))]
Active == {b \in Batch : batch[b] = "active"}

\* The attempt before it has ended and there is room for one: or the gate times out.
Quota(c) ==
  /\ At(c, "quota")
  /\ LET open == Active = {} IN
     /\ fresh' = IF open THEN fresh \cup {Steps[StepOf(c)].profile} ELSE fresh
     /\ If(c, open, IF proc[c].seen = "success" THEN "record" ELSE "patch")
  /\ UNCHANGED <<airflow, batch, evidence, faults>>

Expire(p) ==
  /\ p \in fresh /\ fresh' = fresh \ {p}
  /\ UNCHANGED <<airflow, batch, evidence, proc, faults>>

\* An attempt in progress ends the command: "no resubmit".
Describe(c) ==
  /\ At(c, "describe")
  /\ CASE State(c) = "absent" -> Goto(c, "submit")
       [] State(c) = "succeeded" -> Goto(c, "patch")
       [] State(c) \in {"active", "failed"} -> End(c)
  /\ UNCHANGED <<airflow, cloud, evidence, faults>>

\* Mutant: a submission is taken for a success.
SubmitIsDone(c) ==
  /\ At(c, "submit")
  /\ batch' = IF State(c) = "absent" THEN [batch EXCEPT ![BatchOf(StepOf(c))] = "active"] ELSE batch
  /\ Goto(c, "patch")
  /\ UNCHANGED <<airflow, fresh, evidence, faults>>

\* The submitter, with quota for a scan asked for again; an ID that exists is adopted.
Submit(c) ==
  /\ At(c, "submit")
  /\ IF State(c) = "absent"
     THEN \/ /\ Active = {} \/ Steps[StepOf(c)].action = "submit"
             /\ batch' = [batch EXCEPT ![BatchOf(StepOf(c))] = "active"]
             /\ Goto(c, "wait")
          \/ /\ Active # {} /\ Steps[StepOf(c)].action = "summary"
             /\ End(c) /\ UNCHANGED batch
     ELSE Goto(c, "wait") /\ UNCHANGED batch
  /\ UNCHANGED <<airflow, fresh, evidence, faults>>

\* Client or adoption, until the batch has ended.
Wait(c) ==
  /\ At(c, "wait") /\ State(c) # "active"
  /\ If(c, State(c) = "succeeded", "patch")
  /\ UNCHANGED <<airflow, cloud, evidence, faults>>

\* Output and evidence are verified against the attempts.
Check(c) ==
  /\ proc[c].pc \in {"verify", "evidence"}
  /\ LET p == Steps[StepOf(c)].profile IN
     If(c, /\ batch[<<p, "compute">>] = "succeeded"
           /\ At(c, "evidence") => batch[<<p, "scan">>] = "succeeded", "patch")
  /\ UNCHANGED <<airflow, cloud, evidence, faults>>

Finalize(c) ==
  /\ At(c, "finalize")
  /\ files' = files \cup {"winner"} /\ Goto(c, "patch")
  /\ UNCHANGED <<airflow, cloud, recorded, faults>>

Patch(c) ==
  /\ At(c, "patch")
  /\ Patched(StepOf(c)) /\ Goto(c, "hold")
  /\ UNCHANGED <<paused, launched, cloud, evidence, faults>>

AfterHold(c) == IF StepOf(c) = Last THEN "finish" ELSE "record"

\* The hold is restored if the DagRun has left it.
Hold(c) ==
  /\ At(c, "hold")
  /\ dagRun' = "failed" /\ Goto(c, AfterHold(c))
  /\ UNCHANGED <<paused, task, launched, cloud, evidence, faults>>

Finish(c) ==
  /\ At(c, "finish")
  /\ dagRun' = "success" /\ Goto(c, "record")
  /\ UNCHANGED <<paused, task, launched, cloud, evidence, faults>>

Record(c) ==
  /\ At(c, "record")
  /\ recorded' = recorded \cup {StepOf(c)} /\ End(c)
  /\ UNCHANGED <<airflow, cloud, files, faults>>

-----------------------------------------------------------------------------
BatchEnds(b) ==
  /\ batch[b] = "active"
  /\ \/ batch' = [batch EXCEPT ![b] = "succeeded"] /\ UNCHANGED faults
     \/ batch' = [batch EXCEPT ![b] = "failed"] /\ Fault
  /\ UNCHANGED <<airflow, fresh, evidence, recorded, proc>>

\* A command is killed, or a request of it fails, or it finds the outputs to differ.
Kill(c) ==
  /\ ~At(c, "idle") /\ Fault /\ End(c)
  /\ UNCHANGED <<airflow, cloud, evidence>>

Reconcile(c) ==
  Pause(c) \/ PatchSilver(c) \/ ReadSilver(c) \/ HoldSilver(c) \/ RecordSilver(c)

Run(c) ==
  \/ Quota(c) \/ Describe(c) \/ Submit(c) \/ Wait(c) \/ Check(c) \/ Finalize(c)
  \/ Patch(c) \/ Hold(c) \/ Finish(c) \/ Record(c)

Next ==
  \/ \E c \in Controller : \/ StartReconcile(c) \/ PlanGold(c) \/ Reconcile(c) \/ Run(c) \/ Kill(c)
                           \/ \E i \in Step : StartStep(c, i)
  \/ Launch
  \/ \E b \in Batch : BatchEnds(b)
  \/ \E p \in fresh : Expire(p)

Spec == Init /\ [][Next]_vars

-----------------------------------------------------------------------------
TypeOK ==
  /\ dagRun \in {"failed", "queued", "success"} /\ task \subseteq Task
  /\ paused \in BOOLEAN /\ launched \in BOOLEAN
  /\ batch \in [Batch -> {"absent", "active", "succeeded", "failed"}]
  /\ files \subseteq {"audit", "reconciled", "pair", "plan", "winner"} /\ recorded \subseteq Step
  /\ \A c \in Controller : proc[c].task \in Task
  /\ faults \in 0 .. MaxFaults

\* "Pause the DAG first so that cascade can never launch the paid Gold chain."
NoPaidLaunch == ~launched

\* "Each completed effect is verified before its existing TaskInstance is reconciled."
ReconciledIsTrue ==
  \A i \in Step \cap task :
    /\ Steps[i].action \in {"submit", "verify", "evidence"} =>
         batch[<<Steps[i].profile, "compute">>] = "succeeded"
    /\ Steps[i].action \in {"summary", "evidence"} =>
         batch[<<Steps[i].profile, "scan">>] = "succeeded"
    /\ Steps[i].action = "finalize" => "winner" \in files

\* One batch at a time, whichever commands are repeated or run side by side.
OneActiveBatch == \A b, d \in Active : b = d

\* "Only finalize, after both Gold evidence paths ... pass, marks the existing DagRun
\* genuinely successful."
SuccessIsWhole ==
  dagRun = "success" => Step \subseteq task /\ "winner" \in files
=============================================================================
