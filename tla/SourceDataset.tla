--------------------------- MODULE SourceDataset ---------------------------
(***************************************************************************)
(* Publication of a source dataset version (data_platform/generation/      *)
(* sharded/manifest.py, ops/gcp/generate_source_dataset.py): runs of the    *)
(* command generate shards into a staging directory, upload the tables of  *)
(* each with create-only preconditions, write a manifest of a shard once   *)
(* its tables are verified, and a manifest of the dataset once all shards  *)
(* have theirs.  Runs fail, are killed, are repeated, overlap, share the   *)
(* staging directory of a host, and may be of different builds or plans.   *)
(*                                                                         *)
(* The content of a table is abstracted to the plan and the build that     *)
(* generated it: with both equal, generation is deterministic.             *)
(***************************************************************************)
EXTENDS Integers, FiniteSets

CONSTANTS
  Publisher,    \* the processes that run the command
  Host, HostOf, \* [Publisher -> Host]: whose staging directory it uses
  Plan,         \* shard plans asked for under one dataset version
  Build,        \* generator builds
  ShardCount, Table,
  Workers,      \* --workers
  None,
  MaxFaults     \* bound: store calls that raise, and kills

ASSUME DatasetAssumption ==
  /\ HostOf \in [Publisher -> Host] /\ ShardCount \in Nat \ {0} /\ Workers \in Nat \ {0}
  /\ MaxFaults \in Nat

Shard == 0 .. ShardCount - 1
Content == [plan : Plan, build : Build]

ASSUME NoneAssumption == None \notin Plan \cup Build \cup Content /\ None \notin [Shard -> Content]

VARIABLES
  pc,       \* of each publisher; "failed" after an exception, "done" after main returned
  run,      \* what its current run generates, a Content
  todo,     \* the shards find_missing_shards has left, those not yet looked at included
  cursor,   \* the next shard of that scan
  worker,   \* of each shard: idle, busy generating it, made or raised
  item,     \* of each table of the shard being published: todo, absent, done, failed
  staging,  \* the staging directory of each host, plan and shard: a Build or None
  plan, file, manifest, dataset,   \* the object store
  faults

proc == <<pc, run, todo, cursor, worker, item>>
objects == <<plan, file, manifest, dataset>>
vars == <<pc, run, todo, cursor, worker, item, staging, plan, file, manifest, dataset, faults>>

Init ==
  /\ pc = [p \in Publisher |-> "down"]
  /\ run \in [Publisher -> Content]
  /\ todo = [p \in Publisher |-> {}] /\ cursor = [p \in Publisher |-> 0]
  /\ worker = [p \in Publisher |-> [s \in Shard |-> "idle"]]
  /\ item = [p \in Publisher |-> [t \in Table |-> "todo"]]
  /\ staging = [h \in Host |-> [q \in Plan |-> [s \in Shard |-> None]]]
  /\ plan = None /\ dataset = None /\ faults = 0
  /\ file = [s \in Shard |-> [t \in Table |-> None]]
  /\ manifest = [s \in Shard |-> None]

Fault == faults < MaxFaults /\ faults' = faults + 1
Goto(p, where) == pc' = [pc EXCEPT ![p] = where]
Idle(p) == pc[p] \in {"down", "failed", "done"}

Staged(p, s) == staging[HostOf[p]][run[p].plan][s]

\* The shard being generated or published, and those generated ahead of it.
Current(p) == CHOOSE s \in todo[p] : \A x \in todo[p] : s <= x
Ahead(p) == {s \in todo[p] : Cardinality({x \in todo[p] : x < s}) < Workers}

-----------------------------------------------------------------------------
(* The plan and the shards left to do.                                     *)

\* main; a complete dataset is refused.  A run that failed first waits for its workers.
Start(p, content, shards) ==
  /\ Idle(p) /\ dataset = None
  /\ pc[p] = "failed" => \A s \in Shard : worker[p][s] # "busy"
  /\ Goto(p, "plan")
  /\ run' = [run EXCEPT ![p] = content]
  /\ todo' = [todo EXCEPT ![p] = shards]
  /\ cursor' = [cursor EXCEPT ![p] = 0] /\ worker' = [worker EXCEPT ![p] = [s \in Shard |-> "idle"]]
  /\ UNCHANGED <<item, staging, objects, faults>>

\* Mutant: an existing plan is not compared.
ReadPlanTrusting(p) ==
  /\ pc[p] = "plan"
  /\ Goto(p, IF plan = None THEN "writePlan" ELSE "scan")
  /\ UNCHANGED <<run, todo, cursor, worker, item, staging, objects, faults>>

ReadPlan(p) ==
  /\ pc[p] = "plan"
  /\ Goto(p, CASE plan = None -> "writePlan" [] plan = run[p].plan -> "scan" [] OTHER -> "failed")
  /\ UNCHANGED <<run, todo, cursor, worker, item, staging, objects, faults>>

\* A lost precondition raises.  A plan written is read back.
WritePlan(p) ==
  /\ pc[p] = "writePlan"
  /\ IF plan = None THEN plan' = run[p].plan /\ Goto(p, "scan")
                    ELSE Goto(p, "failed") /\ UNCHANGED plan
  /\ UNCHANGED <<run, todo, cursor, worker, item, staging, file, manifest, dataset, faults>>

\* completed_shard finds a manifest of its plan, and every table as it says.
Complete(p, s) ==
  /\ manifest[s].plan = run[p].plan
  /\ \A t \in Table : file[s][t] = manifest[s]

Scan(p) ==
  /\ pc[p] = "scan"
  /\ LET s == cursor[p] IN
     IF s = ShardCount
     THEN Goto(p, "next") /\ UNCHANGED <<todo, cursor>>
     ELSE /\ cursor' = [cursor EXCEPT ![p] = s + 1]
          /\ CASE s \notin todo[p] \/ manifest[s] = None -> UNCHANGED <<pc, todo>>
               [] s \in todo[p] /\ manifest[s] # None /\ Complete(p, s) ->
                    todo' = [todo EXCEPT ![p] = @ \ {s}] /\ UNCHANGED pc
               [] OTHER -> Goto(p, "failed") /\ UNCHANGED todo
  /\ UNCHANGED <<run, worker, item, staging, objects, faults>>

-----------------------------------------------------------------------------
(* Generation and publication of a shard.                                  *)

\* A worker process begins a shard: it removes what is staged of it.
Clear(p, s) ==
  /\ pc[p] \in {"next", "check", "upload", "manifest", "verify"}
  /\ s \in Ahead(p) /\ worker[p][s] = "idle"
  /\ worker' = [worker EXCEPT ![p][s] = "busy"]
  /\ staging' = [staging EXCEPT ![HostOf[p]][run[p].plan][s] = None]
  /\ UNCHANGED <<pc, run, todo, cursor, item, objects, faults>>

\* It writes the tables, describes them and renames their directory into place, which
\* raises when somebody was faster.  It does not notice that its run has failed.
Generate(p, s) ==
  /\ worker[p][s] = "busy"
  /\ IF Staged(p, s) = None
     THEN /\ staging' = [staging EXCEPT ![HostOf[p]][run[p].plan][s] = run[p].build]
          /\ worker' = [worker EXCEPT ![p][s] = "made"]
     ELSE worker' = [worker EXCEPT ![p][s] = "raised"] /\ UNCHANGED staging
  /\ UNCHANGED <<pc, run, todo, cursor, item, objects, faults>>

\* The next shard, in order, or the end of them; an exception of its worker is raised.
Take(p) ==
  /\ pc[p] = "next"
  /\ \/ todo[p] = {} /\ Goto(p, "finalize")
     \/ todo[p] # {} /\ worker[p][Current(p)] = "made" /\ Goto(p, "check")
     \/ todo[p] # {} /\ worker[p][Current(p)] = "raised" /\ Goto(p, "failed")
  /\ UNCHANGED <<run, todo, cursor, worker, item, staging, objects, faults>>

\* The shard is published: its staging directory is removed, or missing.
Finish(p, s) ==
  IF Staged(p, s) # None
  THEN /\ todo' = [todo EXCEPT ![p] = @ \ {s}]
       /\ staging' = [staging EXCEPT ![HostOf[p]][run[p].plan][s] = None]
       /\ Goto(p, "next")
  ELSE Goto(p, "failed") /\ UNCHANGED <<todo, staging>>

\* publish_shard: someone may have completed the shard since the scan.
Check(p) ==
  /\ pc[p] = "check"
  /\ LET s == Current(p) IN
     CASE manifest[s] = None ->
            /\ item' = [item EXCEPT ![p] = [t \in Table |-> "todo"]]
            /\ Goto(p, "upload") /\ UNCHANGED <<todo, staging>>
       [] manifest[s] = run[p] /\ Complete(p, s) -> Finish(p, s) /\ UNCHANGED item
       [] OTHER -> Goto(p, "failed") /\ UNCHANGED <<todo, staging, item>>
  /\ UNCHANGED <<run, cursor, worker, objects, faults>>

Mark(p, t, how) == item' = [item EXCEPT ![p][t] = how]

\* Mutant: a table that is there is a conflict, whatever it holds.
CompareConflict(p, t) ==
  /\ pc[p] = "upload" /\ item[p][t] = "todo"
  /\ Mark(p, t, IF Staged(p, Current(p)) = run[p].build /\ file[Current(p)][t] = None
                THEN "absent" ELSE "failed")
  /\ UNCHANGED <<pc, run, todo, cursor, worker, staging, objects, faults>>

\* _verify_or_write_file, of several tables at a time: the local file must be the
\* one the manifest describes, and an object that exists must equal it.
Compare(p, t) ==
  /\ pc[p] = "upload" /\ item[p][t] = "todo"
  /\ LET s == Current(p) IN
     Mark(p, t, IF Staged(p, s) # run[p].build THEN "failed"
                ELSE CASE file[s][t] = None -> "absent"
                       [] file[s][t] = run[p] -> "done"
                       [] OTHER -> "failed")
  /\ UNCHANGED <<pc, run, todo, cursor, worker, staging, objects, faults>>

\* Mutants: the upload is not create-only; the object is not verified after it.
UploadOverwrites(p, t) ==
  /\ pc[p] = "upload" /\ item[p][t] = "absent"
  /\ LET s == Current(p)  local == [plan |-> run[p].plan, build |-> Staged(p, s)] IN
     IF Staged(p, s) # None
     THEN /\ file' = [file EXCEPT ![s][t] = local]
          /\ Mark(p, t, IF local = run[p] THEN "done" ELSE "failed")
     ELSE Mark(p, t, "failed") /\ UNCHANGED file
  /\ UNCHANGED <<pc, run, todo, cursor, worker, staging, plan, manifest, dataset, faults>>

UploadUnverified(p, t) ==
  /\ pc[p] = "upload" /\ item[p][t] = "absent"
  /\ LET s == Current(p)  local == [plan |-> run[p].plan, build |-> Staged(p, s)] IN
     IF Staged(p, s) # None /\ file[s][t] = None
     THEN file' = [file EXCEPT ![s][t] = local] /\ Mark(p, t, "done")
     ELSE Mark(p, t, "failed") /\ UNCHANGED file
  /\ UNCHANGED <<pc, run, todo, cursor, worker, staging, plan, manifest, dataset, faults>>

\* The upload reads the staged file again: it may have been replaced or removed.
\* The object is verified afterwards; a lost precondition raises.
Upload(p, t) ==
  /\ pc[p] = "upload" /\ item[p][t] = "absent"
  /\ LET s == Current(p)  local == [plan |-> run[p].plan, build |-> Staged(p, s)] IN
     IF Staged(p, s) # None /\ file[s][t] = None
     THEN /\ file' = [file EXCEPT ![s][t] = local]
          /\ Mark(p, t, IF local = run[p] THEN "done" ELSE "failed")
     ELSE Mark(p, t, "failed") /\ UNCHANGED file
  /\ UNCHANGED <<pc, run, todo, cursor, worker, staging, plan, manifest, dataset, faults>>

\* The command fails though the object was created.
UploadFails(p, t) ==
  /\ pc[p] = "upload" /\ item[p][t] = "absent" /\ Fault
  /\ LET s == Current(p) IN
     /\ Staged(p, s) # None /\ file[s][t] = None
     /\ file' = [file EXCEPT ![s][t] = [plan |-> run[p].plan, build |-> Staged(p, s)]]
  /\ Mark(p, t, "failed")
  /\ UNCHANGED <<pc, run, todo, cursor, worker, staging, plan, manifest, dataset>>

\* The executor waits for every table; the first exception is raised after that.
Uploaded(p) ==
  /\ pc[p] = "upload" /\ \A t \in Table : item[p][t] \in {"done", "failed"}
  /\ Goto(p, IF \A t \in Table : item[p][t] = "done" THEN "manifest" ELSE "failed")
  /\ UNCHANGED <<run, todo, cursor, worker, item, staging, objects, faults>>

WriteManifest(p) ==
  /\ pc[p] = "manifest"
  /\ LET s == Current(p) IN
     IF manifest[s] = None
     THEN manifest' = [manifest EXCEPT ![s] = run[p]] /\ Goto(p, "verify")
     ELSE Goto(p, "failed") /\ UNCHANGED manifest
  /\ UNCHANGED <<run, todo, cursor, worker, item, staging, plan, file, dataset, faults>>

\* The manifest is read back and its tables verified once more.
Verify(p) ==
  /\ pc[p] = "verify"
  /\ LET s == Current(p) IN
     IF manifest[s] = run[p] /\ Complete(p, s)
     THEN Finish(p, s)
     ELSE Goto(p, "failed") /\ UNCHANGED <<todo, staging>>
  /\ UNCHANGED <<run, cursor, worker, item, objects, faults>>

-----------------------------------------------------------------------------
(* The dataset manifest, failures.                                         *)

\* Mutant: the shards of the run stand for all.
FinalizeOwn(p) ==
  /\ pc[p] = "finalize"
  /\ Goto(p, IF dataset = None THEN "writeDataset" ELSE "done")
  /\ UNCHANGED <<run, todo, cursor, worker, item, staging, objects, faults>>

\* finalize: incomplete, conflicting, already there or to be written.
Finalize(p) ==
  /\ pc[p] = "finalize"
  /\ Goto(p, IF \E s \in Shard : manifest[s] # None /\ ~Complete(p, s) THEN "failed"
             ELSE IF \E s \in Shard : manifest[s] = None THEN "done"
             ELSE CASE dataset = None -> "writeDataset"
                    [] dataset = manifest -> "done"
                    [] OTHER -> "failed")
  /\ UNCHANGED <<run, todo, cursor, worker, item, staging, objects, faults>>

WriteDataset(p) ==
  /\ pc[p] = "writeDataset"
  /\ IF dataset = None THEN dataset' = manifest /\ Goto(p, "done")
                       ELSE Goto(p, "failed") /\ UNCHANGED dataset
  /\ UNCHANGED <<run, todo, cursor, worker, item, staging, plan, file, manifest, faults>>

\* Any other call raises, or the process is killed: nothing is undone.
Fail(p) ==
  /\ ~Idle(p) /\ Fault
  /\ pc' \in {[pc EXCEPT ![p] = "failed"], [pc EXCEPT ![p] = "down"]}
  /\ UNCHANGED <<run, todo, cursor, worker, item, staging, objects>>

Ranges == {lo .. hi - 1 : lo \in 0 .. ShardCount, hi \in 0 .. ShardCount}

Step(p) ==
  \/ ReadPlan(p) \/ WritePlan(p) \/ Scan(p) \/ Take(p) \/ Check(p)
  \/ (\E s \in Shard : Clear(p, s) \/ Generate(p, s))
  \/ (\E t \in Table : Compare(p, t) \/ Upload(p, t))
  \/ Uploaded(p) \/ WriteManifest(p) \/ Verify(p) \/ Finalize(p) \/ WriteDataset(p)

Next ==
  \E p \in Publisher :
    \/ \E content \in Content, shards \in Ranges : Start(p, content, shards)
    \/ Step(p)
    \/ \E t \in Table : UploadFails(p, t)
    \/ Fail(p)

Spec == Init /\ [][Next]_vars

\* The command is run again, for all shards now and then, until the dataset is complete,
\* as the reproduction notes prescribe ("generate/resume immutable shards"), and a
\* running one proceeds.
ResumedSpec ==
  /\ Spec
  /\ \A p \in Publisher :
       /\ SF_vars(\E content \in Content : Start(p, content, Shard))
       /\ WF_vars(Step(p))

-----------------------------------------------------------------------------
TypeOK ==
  /\ pc \in [Publisher -> {"down", "plan", "writePlan", "scan", "next", "check", "upload",
                           "manifest", "verify", "finalize", "writeDataset", "done", "failed"}]
  /\ run \in [Publisher -> Content]
  /\ todo \in [Publisher -> SUBSET Shard]
  /\ worker \in [Publisher -> [Shard -> {"idle", "busy", "made", "raised"}]]
  /\ cursor \in [Publisher -> 0 .. ShardCount]
  /\ item \in [Publisher -> [Table -> {"todo", "absent", "done", "failed"}]]
  /\ staging \in [Host -> [Plan -> [Shard -> Build \cup {None}]]]
  /\ plan \in Plan \cup {None}
  /\ file \in [Shard -> [Table -> Content \cup {None}]]
  /\ manifest \in [Shard -> Content \cup {None}]
  /\ dataset \in [Shard -> Content] \cup {None}
  /\ faults \in 0 .. MaxFaults

\* "writes per-shard manifests only after object verification": a manifest describes
\* tables that are in the store, whichever runs uploaded them.
ManifestsAreTrue ==
  \A s \in Shard : manifest[s] # None => \A t \in Table : file[s][t] = manifest[s]

\* "... and writes the final dataset manifest last": it describes every shard as the
\* shard's own manifest does.
DatasetIsTrue ==
  dataset # None => \A s \in Shard : manifest[s] # None /\ dataset[s] = manifest[s]

\* Whatever is in the store was generated from the recorded plan, though runs of
\* several plans raced to record theirs.
OnePlan ==
  /\ \A s \in Shard : \A t \in Table : file[s][t] # None => file[s][t].plan = plan
  /\ \A s \in Shard : manifest[s] # None => manifest[s].plan = plan

\* "Never overwrite": an object in the store keeps its content.
ObjectsKept ==
  /\ plan # None => plan' = plan
  /\ dataset # None => dataset' = dataset
  /\ \A s \in Shard : /\ manifest[s] # None => manifest'[s] = manifest[s]
                      /\ \A t \in Table : file[s][t] # None => file'[s][t] = file[s][t]
NeverOverwritten == [][ObjectsKept]_vars

\* Repeated runs of one build and plan complete the dataset, wherever earlier ones
\* failed.
Resumes == <>(dataset # None)
=============================================================================
