------------------------ MODULE SourceDatasetProofs ------------------------
(***************************************************************************)
(* The published dataset is true, for any number of publishers, hosts,     *)
(* plans, builds, shards, tables and faults.  The invariants about the     *)
(* store are not inductive: a manifest is true because its publisher saw   *)
(* every table equal its own, and objects are never replaced.              *)
(***************************************************************************)
EXTENDS SourceDataset, TLAPS

\* Past ensure_plan, the recorded plan is the publisher's.
Planned(p) ==
  pc[p] \in {"scan", "next", "check", "upload", "manifest", "verify", "finalize", "writeDataset"}
    => plan = run[p].plan

\* What a publisher has verified of its shard is in the store.
Verified(p) ==
  \A s \in Shard : s = Current(p) =>
    \A t \in Table :
      /\ pc[p] = "upload" /\ item[p][t] = "done" => file[s][t] = run[p]
      /\ pc[p] = "manifest" => file[s][t] = run[p]

\* A publisher about to write the dataset manifest saw that of every shard.
Covered(p) == pc[p] = "writeDataset" => \A s \in Shard : manifest[s] # None

PublisherSafe(p) == Planned(p) /\ Verified(p) /\ Covered(p)
ObjectsSafe == ManifestsAreTrue /\ DatasetIsTrue /\ OnePlan

DatasetInv == TypeOK /\ ObjectsSafe /\ \A p \in Publisher : PublisherSafe(p)

-----------------------------------------------------------------------------
(* Facts about steps.                                                      *)

\* What is generated by a run is a content, and no content is None.
LEMMA ContentFacts ==
  ASSUME TypeOK, NEW p \in Publisher
  PROVE  /\ run[p] \in Content /\ run[p].plan \in Plan /\ run[p].build \in Build
         /\ run[p] # None /\ run[p].plan # None /\ run[p].build # None
         /\ HostOf[p] \in Host
  BY DatasetAssumption, NoneAssumption DEF TypeOK, Content

\* A publisher that takes no step stays safe, as objects are kept.
LEMMA Bystander ==
  ASSUME DatasetInv, ObjectsKept, NEW p \in Publisher,
         pc'[p] = pc[p], run'[p] = run[p], todo'[p] = todo[p], item'[p] = item[p]
  PROVE  PublisherSafe(p)'
<1>1. run[p] # None /\ run[p].plan # None
  BY ContentFacts DEF DatasetInv
<1>2. Current(p)' = Current(p)
  BY DEF Current
<1>3. Planned(p)'
  BY <1>1 DEF DatasetInv, PublisherSafe, Planned, ObjectsKept
<1>4. Verified(p)'
  BY <1>1, <1>2 DEF DatasetInv, PublisherSafe, Verified, ObjectsKept
<1>5. Covered(p)'
  BY DEF DatasetInv, PublisherSafe, Covered, ObjectsKept
<1> QED
  BY <1>3, <1>4, <1>5 DEF PublisherSafe

\* Objects that do not change keep everything said about them.
LEMMA SameObjects ==
  ASSUME ObjectsSafe, UNCHANGED objects
  PROVE  ObjectsSafe' /\ ObjectsKept
  BY DEF ObjectsSafe, ManifestsAreTrue, DatasetIsTrue, OnePlan, ObjectsKept, objects

\* A step of p keeps the invariant when it keeps the objects and p safe and leaves the
\* other publishers alone.
LEMMA OwnStep ==
  ASSUME DatasetInv, NEW p \in Publisher, TypeOK', ObjectsSafe', ObjectsKept, PublisherSafe(p)',
         \A x \in Publisher \ {p} : /\ pc'[x] = pc[x] /\ run'[x] = run[x]
                                    /\ todo'[x] = todo[x] /\ item'[x] = item[x]
  PROVE  DatasetInv' /\ ObjectsKept
<1>1. ASSUME NEW x \in Publisher, x # p PROVE PublisherSafe(x)'
  BY <1>1, Bystander
<1> QED
  BY <1>1 DEF DatasetInv
-----------------------------------------------------------------------------
(* Types.                                                                  *)

LEMMA InitTyped ==
  ASSUME Init
  PROVE  TypeOK
  BY DatasetAssumption DEF Init, TypeOK, Shard

\* A step that only moves p within its program.
LEMMA GotoTyped ==
  ASSUME TypeOK, NEW p \in Publisher, NEW where, Goto(p, where),
         where \in {"down", "plan", "writePlan", "scan", "next", "check", "upload",
                    "manifest", "verify", "finalize", "writeDataset", "done", "failed"},
         UNCHANGED <<run, todo, cursor, worker, item, staging, objects, faults>>
  PROVE  TypeOK'
  BY DEF TypeOK, Goto, objects

\* A function with one value replaced.
LEMMA Replaced ==
  ASSUME NEW D, NEW R, NEW f \in [D -> R], NEW d, NEW r, d \in D => r \in R
  PROVE  [f EXCEPT ![d] = r] \in [D -> R]
  OBVIOUS

\* Staging a build, or removing one.
LEMMA StagingTyped ==
  ASSUME TypeOK, NEW h, NEW q, NEW s, NEW b \in Build \cup {None},
         staging' = [staging EXCEPT ![h][q][s] = b]
  PROVE  staging' \in [Host -> [Plan -> [Shard -> Build \cup {None}]]]
<1> DEFINE Of == Build \cup {None}
           OfShard == [Shard -> Of]
           OfPlan == [Plan -> OfShard]
           shards == [staging[h][q] EXCEPT ![s] = b]
           plans == [staging[h] EXCEPT ![q] = shards]
<1>1. staging \in [Host -> OfPlan] /\ b \in Of
  BY DEF TypeOK
<1>2. staging' = [staging EXCEPT ![h] = plans]
  OBVIOUS
<1>3. \A f \in OfShard : [f EXCEPT ![s] = b] \in OfShard
  BY <1>1, Replaced
<1> HIDE DEF Of, OfShard
<1>4. ASSUME h \in Host, q \in Plan PROVE shards \in OfShard
  BY <1>1, <1>3, <1>4
<1>5. \A f \in OfPlan : \A r : (q \in Plan => r \in OfShard) => [f EXCEPT ![q] = r] \in OfPlan
  BY Replaced
<1> HIDE DEF OfPlan, shards
<1>6. ASSUME h \in Host PROVE plans \in OfPlan
  BY <1>1, <1>4, <1>5, <1>6
<1> HIDE DEF plans
<1>7. staging' \in [Host -> OfPlan]
  BY <1>1, <1>2, <1>6, Replaced
<1> QED
  BY <1>7 DEF OfPlan, OfShard, Of

\* A shard is done.
LEMMA TodoTyped ==
  ASSUME TypeOK, NEW p, NEW s, todo' = [todo EXCEPT ![p] = @ \ {s}]
  PROVE  todo' \in [Publisher -> SUBSET Shard]
<1>1. todo \in [Publisher -> SUBSET Shard]
  BY DEF TypeOK
<1>2. p \in Publisher => todo[p] \ {s} \in SUBSET Shard
  BY <1>1
<1> HIDE DEF Shard
<1>3. [todo EXCEPT ![p] = todo[p] \ {s}] \in [Publisher -> SUBSET Shard]
  BY <1>1, <1>2, Replaced
<1> QED
  BY <1>3

\* The dataset manifest is a list of shard manifests, as its writer saw them all.
LEMMA StepTyped ==
  ASSUME TypeOK, \A p \in Publisher : Covered(p), [Next]_vars
  PROVE  TypeOK'
<1> USE DEF objects
<1>1. ASSUME NEW p \in Publisher, NEW content \in Content, NEW shards \in Ranges,
             Start(p, content, shards)
      PROVE  TypeOK'
  <2>1. shards \in SUBSET Shard /\ 0 \in 0 .. ShardCount
    BY DatasetAssumption DEF Ranges, Shard
  <2> QED
    BY <1>1, <2>1 DEF Start, TypeOK, Goto
<1>2. ASSUME NEW p \in Publisher, ReadPlan(p) PROVE TypeOK'
  <2>1. PICK where \in {"writePlan", "scan", "failed"} : Goto(p, where)
    BY <1>2 DEF ReadPlan
  <2> QED
    BY <1>2, <2>1, GotoTyped DEF ReadPlan
<1>3. ASSUME NEW p \in Publisher, WritePlan(p) PROVE TypeOK'
  BY <1>3, ContentFacts DEF WritePlan, TypeOK, Goto
<1>4. ASSUME NEW p \in Publisher, Scan(p) PROVE TypeOK'
  <2>1. PICK s : /\ s = cursor[p] /\ pc[p] = "scan"
                 /\ UNCHANGED <<run, worker, item, staging, objects, faults>>
                 /\ \/ Goto(p, "next") /\ UNCHANGED <<todo, cursor>>
                    \/ /\ s # ShardCount /\ cursor' = [cursor EXCEPT ![p] = s + 1]
                       /\ \/ UNCHANGED <<pc, todo>>
                          \/ todo' = [todo EXCEPT ![p] = @ \ {s}] /\ UNCHANGED pc
                          \/ Goto(p, "failed") /\ UNCHANGED todo
    BY <1>4 DEF Scan
  <2>2. s \in 0 .. ShardCount
    BY <2>1 DEF TypeOK
  <2>3. s # ShardCount => s + 1 \in 0 .. ShardCount
    BY <2>2, DatasetAssumption
  <2> HIDE DEF objects
  <2>4. CASE Goto(p, "next") /\ UNCHANGED <<todo, cursor>>
    BY <2>1, <2>4, GotoTyped
  <2>5. CASE /\ s # ShardCount /\ cursor' = [cursor EXCEPT ![p] = s + 1]
             /\ UNCHANGED pc
             /\ UNCHANGED todo \/ todo' = [todo EXCEPT ![p] = @ \ {s}]
    <3>1. todo' \in [Publisher -> SUBSET Shard]
      <4>1. CASE UNCHANGED todo
        BY <4>1 DEF TypeOK
      <4>2. CASE todo' = [todo EXCEPT ![p] = @ \ {s}]
        BY <4>2, TodoTyped
      <4> QED
        BY <2>5, <4>1, <4>2
    <3>2. cursor' \in [Publisher -> 0 .. ShardCount]
      BY <2>3, <2>5 DEF TypeOK
    <3>3. pc' = pc /\ UNCHANGED <<run, worker, item, staging, objects, faults>>
      BY <2>1, <2>5
    <3> QED
      BY <3>1, <3>2, <3>3 DEF TypeOK, objects
  <2>6. CASE /\ s # ShardCount /\ cursor' = [cursor EXCEPT ![p] = s + 1]
             /\ Goto(p, "failed") /\ UNCHANGED todo
    BY <2>1, <2>3, <2>6 DEF TypeOK, Goto, objects
  <2> QED
    BY <2>1, <2>4, <2>5, <2>6
<1>5. ASSUME NEW p \in Publisher, NEW s \in Shard, Clear(p, s) \/ Generate(p, s) PROVE TypeOK'
  <2>1. worker' \in [Publisher -> [Shard -> {"idle", "busy", "made", "raised"}]]
    <3>1. PICK how \in {"busy", "made", "raised"} : worker' = [worker EXCEPT ![p][s] = how]
      BY <1>5 DEF Clear, Generate
    <3> QED
      BY <3>1 DEF TypeOK
  <2>2. staging' \in [Host -> [Plan -> [Shard -> Build \cup {None}]]]
    <3>1. run[p].build \in Build
      BY ContentFacts DEF TypeOK
    <3>2. CASE UNCHANGED staging
      BY <3>2 DEF TypeOK
    <3>3. PICK b \in Build \cup {None} :
            UNCHANGED staging \/ staging' = [staging EXCEPT ![HostOf[p]][run[p].plan][s] = b]
      BY <1>5, <3>1 DEF Clear, Generate
    <3> QED
      BY <3>2, <3>3, StagingTyped
  <2> QED
    BY <1>5, <2>1, <2>2 DEF Clear, Generate, TypeOK
<1>6. ASSUME NEW p \in Publisher, Take(p) PROVE TypeOK'
  BY <1>6, GotoTyped DEF Take
<1>7. ASSUME NEW p \in Publisher, NEW s, Finish(p, s),
             UNCHANGED <<run, cursor, worker, objects, faults>>,
             item' \in [Publisher -> [Table -> {"todo", "absent", "done", "failed"}]]
      PROVE  TypeOK'
  <2>1. CASE Goto(p, "failed") /\ UNCHANGED <<todo, staging>>
    BY <1>7, <2>1 DEF TypeOK, Goto
  <2>2. CASE Staged(p, s) # None
    <3>1. staging' \in [Host -> [Plan -> [Shard -> Build \cup {None}]]]
      <4>1. staging' = [staging EXCEPT ![HostOf[p]][run[p].plan][s] = None]
        BY <1>7, <2>2 DEF Finish
      <4> QED
        BY <4>1, StagingTyped
    <3>2. todo' \in [Publisher -> SUBSET Shard]
      <4>1. todo' = [todo EXCEPT ![p] = @ \ {s}]
        BY <1>7, <2>2 DEF Finish
      <4> QED
        BY <4>1, TodoTyped
    <3>3. pc' = [pc EXCEPT ![p] = "next"]
      BY <1>7, <2>2 DEF Finish, Goto
    <3> QED
      BY <1>7, <3>1, <3>2, <3>3 DEF TypeOK
  <2> QED
    BY <1>7, <2>1, <2>2 DEF Finish
<1>8. ASSUME NEW p \in Publisher, Check(p) PROVE TypeOK'
  <2>1. CASE Finish(p, Current(p)) /\ UNCHANGED item
    BY <1>7, <1>8, <2>1 DEF Check, TypeOK
  <2>2. CASE /\ item' = [item EXCEPT ![p] = [t \in Table |-> "todo"]]
             /\ Goto(p, "upload") /\ UNCHANGED <<todo, staging>>
    BY <1>8, <2>2 DEF Check, TypeOK, Goto
  <2>3. CASE Goto(p, "failed") /\ UNCHANGED <<todo, staging, item>>
    BY <1>8, <2>3 DEF Check, TypeOK, Goto
  <2> QED
    BY <1>8, <2>1, <2>2, <2>3 DEF Check
<1>9. ASSUME NEW p \in Publisher, NEW t \in Table, Compare(p, t) PROVE TypeOK'
  <2>1. PICK how \in {"absent", "done", "failed"} : Mark(p, t, how)
    BY <1>9 DEF Compare
  <2> QED
    BY <1>9, <2>1 DEF Compare, Mark, TypeOK
<1>10. ASSUME NEW p \in Publisher, NEW t \in Table, NEW s,
              Staged(p, s) # None, s \in Shard
       PROVE  [plan |-> run[p].plan, build |-> Staged(p, s)] \in Content
  BY <1>10, ContentFacts DEF Staged, Content, TypeOK
<1>11. ASSUME NEW p \in Publisher, NEW t \in Table, Upload(p, t) PROVE TypeOK'
  <2> DEFINE s == Current(p)  local == [plan |-> run[p].plan, build |-> Staged(p, s)]
  <2>1. PICK how \in {"done", "failed"} : Mark(p, t, how)
    BY <1>11 DEF Upload
  <2>2. UNCHANGED file \/ (Staged(p, s) # None /\ file' = [file EXCEPT ![s][t] = local])
    BY <1>11 DEF Upload
  <2>3. CASE UNCHANGED file
    BY <1>11, <2>1, <2>3 DEF Upload, Mark, TypeOK
  <2>4. CASE Staged(p, s) # None /\ file' = [file EXCEPT ![s][t] = local]
    <3>1. file' \in [Shard -> [Table -> Content \cup {None}]]
      BY <1>10, <2>4 DEF TypeOK
    <3> QED
      BY <1>11, <2>1, <3>1 DEF Upload, Mark, TypeOK
  <2> QED
    BY <2>2, <2>3, <2>4
<1>12. ASSUME NEW p \in Publisher, NEW t \in Table, UploadFails(p, t) PROVE TypeOK'
  <2> DEFINE s == Current(p)  local == [plan |-> run[p].plan, build |-> Staged(p, s)]
  <2>1. Staged(p, s) # None /\ file' = [file EXCEPT ![s][t] = local]
    BY <1>12 DEF UploadFails
  <2>2. file' \in [Shard -> [Table -> Content \cup {None}]]
    BY <1>10, <2>1 DEF TypeOK
  <2>3. faults' \in 0 .. MaxFaults
    BY <1>12, DatasetAssumption DEF UploadFails, Fault, TypeOK
  <2> QED
    BY <1>12, <2>2, <2>3 DEF UploadFails, Mark, TypeOK
<1>13. ASSUME NEW p \in Publisher, Uploaded(p) PROVE TypeOK'
  BY <1>13, GotoTyped DEF Uploaded
<1>14. ASSUME NEW p \in Publisher, WriteManifest(p) PROVE TypeOK'
  BY <1>14, ContentFacts DEF WriteManifest, TypeOK, Goto
<1>15. ASSUME NEW p \in Publisher, Verify(p) PROVE TypeOK'
  <2>1. CASE Finish(p, Current(p))
    BY <1>7, <1>15, <2>1 DEF Verify, TypeOK
  <2>2. CASE Goto(p, "failed") /\ UNCHANGED <<todo, staging>>
    BY <1>15, <2>2 DEF Verify, TypeOK, Goto
  <2> QED
    BY <1>15, <2>1, <2>2 DEF Verify
<1>16. ASSUME NEW p \in Publisher, Finalize(p) PROVE TypeOK'
  <2>1. PICK where \in {"failed", "done", "writeDataset"} : Goto(p, where)
    BY <1>16 DEF Finalize
  <2> QED
    BY <1>16, <2>1, GotoTyped DEF Finalize
<1>17. ASSUME NEW p \in Publisher, WriteDataset(p) PROVE TypeOK'
  <2>1. manifest \in [Shard -> Content]
    BY <1>17 DEF WriteDataset, Covered, TypeOK
  <2> QED
    BY <1>17, <2>1 DEF WriteDataset, TypeOK, Goto
<1>18. ASSUME NEW p \in Publisher, Fail(p) PROVE TypeOK'
  <2>1. faults' \in 0 .. MaxFaults
    BY <1>18, DatasetAssumption DEF Fail, Fault, TypeOK
  <2> QED
    BY <1>18, <2>1 DEF Fail, TypeOK
<1>19. CASE UNCHANGED vars
  BY <1>19 DEF vars, TypeOK
<1> QED
  BY <1>1, <1>2, <1>3, <1>4, <1>5, <1>6, <1>8, <1>9, <1>11, <1>12, <1>13, <1>14, <1>15, <1>16,
     <1>17, <1>18, <1>19 DEF Next, Step

-----------------------------------------------------------------------------
(* The steps of a publisher.                                               *)

\* A step of p that leaves the store alone need only leave p planned, verified and
\* covered.
LEMMA LocalStep ==
  ASSUME DatasetInv, TypeOK', NEW p \in Publisher, UNCHANGED objects, PublisherSafe(p)',
         \A x \in Publisher \ {p} : /\ pc'[x] = pc[x] /\ run'[x] = run[x]
                                    /\ todo'[x] = todo[x] /\ item'[x] = item[x]
  PROVE  DatasetInv' /\ ObjectsKept
<1>1. ObjectsSafe' /\ ObjectsKept
  BY SameObjects DEF DatasetInv
<1> QED
  BY <1>1, OwnStep

\* A move within the program that says nothing new of the store.
LEMMA MoveStep ==
  ASSUME DatasetInv, TypeOK', NEW p \in Publisher, NEW where, Goto(p, where),
         UNCHANGED <<run, item, objects>>,
         \A x \in Publisher \ {p} : todo'[x] = todo[x],
         where \in {"plan", "writePlan", "scan", "next", "check", "verify", "finalize",
                    "done", "failed", "down"},
         where \in {"scan", "next", "check", "verify", "finalize"} => plan = run[p].plan
  PROVE  DatasetInv' /\ ObjectsKept
<1>1. pc'[p] = where /\ \A x \in Publisher \ {p} : pc'[x] = pc[x]
  BY DEF DatasetInv, TypeOK, Goto
<1>2. PublisherSafe(p)'
  BY <1>1 DEF PublisherSafe, Planned, Verified, Covered, objects
<1> QED
  BY <1>1, <1>2, LocalStep

LEMMA StartStep ==
  ASSUME DatasetInv, TypeOK', NEW p \in Publisher, NEW content \in Content, NEW shards,
         Start(p, content, shards)
  PROVE  DatasetInv' /\ ObjectsKept
<1>1. /\ pc'[p] = "plan" /\ UNCHANGED <<item, objects>>
      /\ \A x \in Publisher \ {p} : /\ pc'[x] = pc[x] /\ run'[x] = run[x]
                                    /\ todo'[x] = todo[x]
  BY DEF Start, Goto, DatasetInv, TypeOK
<1>2. PublisherSafe(p)'
  BY <1>1 DEF PublisherSafe, Planned, Verified, Covered
<1> QED
  BY <1>1, <1>2, LocalStep

\* The first plan recorded finds an empty store and no publisher past its own plan.
LEMMA WritePlanStep ==
  ASSUME DatasetInv, TypeOK', NEW p \in Publisher, WritePlan(p)
  PROVE  DatasetInv' /\ ObjectsKept
<1>1. run[p].plan \in Plan /\ run[p].plan # None
  BY ContentFacts DEF DatasetInv
<1>2. \A s \in Shard : \A t \in Table : file[s][t] # None => file[s][t].plan \in Plan
  BY DEF DatasetInv, TypeOK, Content
<1>3. \A s \in Shard : manifest[s] # None => manifest[s].plan \in Plan
  BY DEF DatasetInv, TypeOK, Content
<1>4. CASE plan = None /\ plan' = run[p].plan /\ Goto(p, "scan")
  <2>1. /\ pc'[p] = "scan" /\ \A x \in Publisher \ {p} : pc'[x] = pc[x]
        /\ UNCHANGED <<run, todo, item, file, manifest, dataset>>
    BY <1>4 DEF WritePlan, Goto, DatasetInv, TypeOK
  <2>2. ObjectsSafe'
    BY <1>2, <1>3, <1>4, <2>1, NoneAssumption
    DEF DatasetInv, ObjectsSafe, ManifestsAreTrue, DatasetIsTrue, OnePlan
  <2>3. ObjectsKept
    BY <1>4, <2>1 DEF ObjectsKept
  <2>4. PublisherSafe(p)'
    BY <1>4, <2>1 DEF PublisherSafe, Planned, Verified, Covered
  <2> QED
    BY <2>1, <2>2, <2>3, <2>4, OwnStep
<1>5. CASE Goto(p, "failed") /\ UNCHANGED plan
  BY <1>5, MoveStep DEF WritePlan, objects
<1> QED
  BY <1>4, <1>5 DEF WritePlan

\* Finish removes a shard from the todo and moves on, or fails.
LEMMA FinishStep ==
  ASSUME DatasetInv, TypeOK', NEW p \in Publisher, NEW s, Finish(p, s),
         pc[p] \in {"check", "verify"}, UNCHANGED <<run, item, objects>>
  PROVE  DatasetInv' /\ ObjectsKept
<1>1. \A x \in Publisher \ {p} : todo'[x] = todo[x]
  BY DEF Finish, DatasetInv, TypeOK
<1>2. plan = run[p].plan
  BY DEF DatasetInv, PublisherSafe, Planned
<1>3. Goto(p, "next") \/ Goto(p, "failed")
  BY DEF Finish
<1> QED
  BY <1>1, <1>2, <1>3, MoveStep

LEMMA CheckStep ==
  ASSUME DatasetInv, TypeOK', NEW p \in Publisher, Check(p)
  PROVE  DatasetInv' /\ ObjectsKept
<1>1. plan = run[p].plan /\ UNCHANGED <<run, objects>>
  BY DEF Check, DatasetInv, PublisherSafe, Planned
<1>2. CASE /\ item' = [item EXCEPT ![p] = [t \in Table |-> "todo"]]
           /\ Goto(p, "upload") /\ UNCHANGED <<todo, staging>>
  <2>1. /\ pc'[p] = "upload" /\ \A t \in Table : item'[p][t] = "todo"
        /\ \A x \in Publisher \ {p} : pc'[x] = pc[x] /\ item'[x] = item[x]
    BY <1>2 DEF Goto, DatasetInv, TypeOK
  <2>2. PublisherSafe(p)'
    BY <1>1, <2>1 DEF PublisherSafe, Planned, Verified, Covered, objects
  <2> QED
    BY <1>1, <1>2, <2>1, <2>2, LocalStep
<1>3. CASE Finish(p, Current(p)) /\ UNCHANGED item
  BY <1>1, <1>3, FinishStep DEF Check
<1>4. CASE Goto(p, "failed") /\ UNCHANGED <<todo, staging, item>>
  BY <1>1, <1>4, MoveStep DEF Check
<1> QED
  BY <1>2, <1>3, <1>4 DEF Check

\* What Compare and the uploads have in common: they mark one table, and "done" says
\* that it is in the store.
LEMMA MarkStep ==
  ASSUME DatasetInv, TypeOK', NEW p \in Publisher, NEW t \in Table, NEW how, Mark(p, t, how),
         pc[p] = "upload", UNCHANGED <<pc, run, todo>>, ObjectsSafe', ObjectsKept,
         how = "done" => \A s \in Shard : s = Current(p) => file'[s][t] = run[p]
  PROVE  DatasetInv' /\ ObjectsKept
<1>1. /\ item'[p][t] = how /\ \A u \in Table \ {t} : item'[p][u] = item[p][u]
      /\ \A x \in Publisher \ {p} : item'[x] = item[x]
  BY DEF Mark, DatasetInv, TypeOK
<1>2. run[p] # None /\ run[p].plan # None
  BY ContentFacts DEF DatasetInv
<1>3. Current(p)' = Current(p)
  BY DEF Current
<1>4. Planned(p)' /\ Covered(p)'
  BY <1>2 DEF DatasetInv, PublisherSafe, Planned, Covered, ObjectsKept
<1>5. Verified(p)'
  <2> SUFFICES ASSUME NEW s \in Shard, s = Current(p), NEW u \in Table, item'[p][u] = "done"
               PROVE  file'[s][u] = run[p]
    BY <1>3 DEF Verified
  <2>1. CASE u = t
    BY <1>1, <2>1
  <2>2. CASE u # t
    <3>1. file[s][u] = run[p]
      BY <1>1, <2>2 DEF DatasetInv, PublisherSafe, Verified
    <3> QED
      BY <1>2, <3>1 DEF ObjectsKept
  <2> QED
    BY <2>1, <2>2
<1> QED
  BY <1>1, <1>4, <1>5, OwnStep DEF PublisherSafe

LEMMA CompareStep ==
  ASSUME DatasetInv, TypeOK', NEW p \in Publisher, NEW t \in Table, Compare(p, t)
  PROVE  DatasetInv' /\ ObjectsKept
<1>1. PICK how : Mark(p, t, how) /\ (how = "done" => file[Current(p)][t] = run[p])
  BY DEF Compare
<1>2. ObjectsSafe' /\ ObjectsKept
  BY SameObjects DEF Compare, DatasetInv
<1> QED
  BY <1>1, <1>2, MarkStep DEF Compare, objects

\* A table created where there was none, by a publisher of the recorded plan.
LEMMA CreateTable ==
  ASSUME DatasetInv, NEW p \in Publisher, NEW t \in Table, NEW s, NEW local,
         plan = run[p].plan, local.plan = run[p].plan,
         s \in Shard => file[s][t] = None,
         file' = [file EXCEPT ![s][t] = local], UNCHANGED <<plan, manifest, dataset>>
  PROVE  ObjectsSafe' /\ ObjectsKept
<1>1. ASSUME NEW x \in Shard, NEW u \in Table
      PROVE  file'[x][u] = (IF x = s /\ u = t THEN local ELSE file[x][u])
  BY DEF DatasetInv, TypeOK
<1>2. ObjectsKept
  BY <1>1 DEF ObjectsKept
<1>3. ManifestsAreTrue'
  <2> SUFFICES ASSUME NEW x \in Shard, manifest[x] # None, NEW u \in Table
               PROVE  file'[x][u] = manifest[x]
    BY DEF ManifestsAreTrue
  <2>1. file[x][u] = manifest[x]
    BY DEF DatasetInv, ObjectsSafe, ManifestsAreTrue
  <2> QED
    BY <1>1, <2>1
<1>4. DatasetIsTrue'
  BY DEF DatasetInv, ObjectsSafe, DatasetIsTrue
<1>5. OnePlan'
  BY <1>1 DEF DatasetInv, ObjectsSafe, OnePlan
<1> QED
  BY <1>2, <1>3, <1>4, <1>5 DEF ObjectsSafe

LEMMA UploadStep ==
  ASSUME DatasetInv, TypeOK', NEW p \in Publisher, NEW t \in Table, Upload(p, t)
  PROVE  DatasetInv' /\ ObjectsKept
<1> DEFINE s == Current(p)  local == [plan |-> run[p].plan, build |-> Staged(p, s)]
<1>1. plan = run[p].plan /\ pc[p] = "upload" /\ UNCHANGED <<pc, run, todo, plan, manifest, dataset>>
  BY DEF Upload, DatasetInv, PublisherSafe, Planned
<1>2. CASE /\ file[s][t] = None /\ file' = [file EXCEPT ![s][t] = local]
           /\ Mark(p, t, IF local = run[p] THEN "done" ELSE "failed")
  <2>1. ObjectsSafe' /\ ObjectsKept
    BY <1>1, <1>2, CreateTable
  <2>2. local = run[p] => \A x \in Shard : x = s => file'[x][t] = run[p]
    BY <1>2 DEF DatasetInv, TypeOK
  <2> QED
    BY <1>1, <1>2, <2>1, <2>2, MarkStep
<1>3. CASE Mark(p, t, "failed") /\ UNCHANGED file
  <2>1. ObjectsSafe' /\ ObjectsKept
    BY <1>1, <1>3, SameObjects DEF DatasetInv, objects
  <2> QED
    BY <1>1, <1>3, <2>1, MarkStep
<1> QED
  BY <1>2, <1>3 DEF Upload

LEMMA UploadFailsStep ==
  ASSUME DatasetInv, TypeOK', NEW p \in Publisher, NEW t \in Table, UploadFails(p, t)
  PROVE  DatasetInv' /\ ObjectsKept
<1>1. plan = run[p].plan /\ pc[p] = "upload" /\ UNCHANGED <<pc, run, todo, plan, manifest, dataset>>
  BY DEF UploadFails, DatasetInv, PublisherSafe, Planned
<1>2. ObjectsSafe' /\ ObjectsKept
  BY <1>1, CreateTable DEF UploadFails
<1> QED
  BY <1>1, <1>2, MarkStep DEF UploadFails

\* All tables of the shard are done, hence in the store.
LEMMA UploadedStep ==
  ASSUME DatasetInv, TypeOK', NEW p \in Publisher, Uploaded(p)
  PROVE  DatasetInv' /\ ObjectsKept
<1>1. UNCHANGED <<run, todo, item, objects>> /\ pc[p] = "upload"
  BY DEF Uploaded
<1>2. CASE (\A t \in Table : item[p][t] = "done") /\ Goto(p, "manifest")
  <2>1. pc'[p] = "manifest" /\ \A x \in Publisher \ {p} : pc'[x] = pc[x]
    BY <1>2 DEF Goto, DatasetInv, TypeOK
  <2>2. Current(p)' = Current(p)
    BY <1>1 DEF Current
  <2>3. PublisherSafe(p)'
    BY <1>1, <1>2, <2>1, <2>2
    DEF DatasetInv, PublisherSafe, Planned, Verified, Covered, objects
  <2> QED
    BY <1>1, <2>1, <2>3, LocalStep
<1>3. CASE Goto(p, "failed")
  BY <1>1, <1>3, MoveStep
<1> QED
  BY <1>2, <1>3 DEF Uploaded

LEMMA WriteManifestStep ==
  ASSUME DatasetInv, TypeOK', NEW p \in Publisher, WriteManifest(p)
  PROVE  DatasetInv' /\ ObjectsKept
<1> DEFINE s == Current(p)
<1>1. /\ plan = run[p].plan /\ pc[p] = "manifest"
      /\ UNCHANGED <<run, todo, item, plan, file, dataset>>
  BY DEF WriteManifest, DatasetInv, PublisherSafe, Planned
<1>2. run[p] # None
  BY ContentFacts DEF DatasetInv
<1>3. CASE manifest[s] = None /\ manifest' = [manifest EXCEPT ![s] = run[p]] /\ Goto(p, "verify")
  <2>1. /\ pc'[p] = "verify" /\ \A x \in Publisher \ {p} : pc'[x] = pc[x]
        /\ \A x \in Shard : manifest'[x] = (IF x = s THEN run[p] ELSE manifest[x])
    BY <1>3 DEF Goto, DatasetInv, TypeOK
  <2>2. ObjectsKept
    BY <1>1, <1>3, <2>1 DEF ObjectsKept
  <2>3. \A x \in Shard : x = s => \A t \in Table : file[x][t] = run[p]
    BY <1>1 DEF DatasetInv, PublisherSafe, Verified
  <2>4. ManifestsAreTrue'
    BY <1>1, <2>1, <2>3 DEF DatasetInv, ObjectsSafe, ManifestsAreTrue
  <2>5. DatasetIsTrue'
    BY <1>1, <1>3, <2>1 DEF DatasetInv, ObjectsSafe, DatasetIsTrue
  <2>6. OnePlan'
    BY <1>1, <2>1 DEF DatasetInv, ObjectsSafe, OnePlan
  <2>7. PublisherSafe(p)'
    BY <1>1, <2>1 DEF PublisherSafe, Planned, Verified, Covered
  <2> QED
    BY <1>1, <2>1, <2>2, <2>4, <2>5, <2>6, <2>7, OwnStep DEF ObjectsSafe
<1>4. CASE Goto(p, "failed") /\ UNCHANGED manifest
  BY <1>1, <1>4, MoveStep DEF objects
<1> QED
  BY <1>3, <1>4 DEF WriteManifest

LEMMA VerifyStep ==
  ASSUME DatasetInv, TypeOK', NEW p \in Publisher, Verify(p)
  PROVE  DatasetInv' /\ ObjectsKept
<1>1. CASE Finish(p, Current(p))
  BY <1>1, FinishStep DEF Verify
<1>2. CASE Goto(p, "failed") /\ UNCHANGED <<todo, staging>>
  BY <1>2, MoveStep DEF Verify
<1> QED
  BY <1>1, <1>2 DEF Verify

LEMMA FinalizeStep ==
  ASSUME DatasetInv, TypeOK', NEW p \in Publisher, Finalize(p)
  PROVE  DatasetInv' /\ ObjectsKept
<1>1. plan = run[p].plan /\ UNCHANGED <<run, todo, item, objects>>
  BY DEF Finalize, DatasetInv, PublisherSafe, Planned
<1>2. CASE (\A s \in Shard : manifest[s] # None) /\ Goto(p, "writeDataset")
  <2>1. pc'[p] = "writeDataset" /\ \A x \in Publisher \ {p} : pc'[x] = pc[x]
    BY <1>2 DEF Goto, DatasetInv, TypeOK
  <2>2. PublisherSafe(p)'
    BY <1>1, <1>2, <2>1 DEF PublisherSafe, Planned, Verified, Covered, objects
  <2> QED
    BY <1>1, <2>1, <2>2, LocalStep
<1>3. CASE Goto(p, "done") \/ Goto(p, "failed")
  BY <1>1, <1>3, MoveStep
<1> QED
  BY <1>2, <1>3 DEF Finalize

LEMMA WriteDatasetStep ==
  ASSUME DatasetInv, TypeOK', NEW p \in Publisher, WriteDataset(p)
  PROVE  DatasetInv' /\ ObjectsKept
<1>1. UNCHANGED <<run, todo, item, plan, file, manifest>> /\ pc[p] = "writeDataset"
  BY DEF WriteDataset
<1>2. CASE dataset = None /\ dataset' = manifest /\ Goto(p, "done")
  <2>1. pc'[p] = "done" /\ \A x \in Publisher \ {p} : pc'[x] = pc[x]
    BY <1>2 DEF Goto, DatasetInv, TypeOK
  <2>2. ObjectsKept
    BY <1>1, <1>2 DEF ObjectsKept
  <2>3. ObjectsSafe'
    BY <1>1, <1>2 DEF DatasetInv, PublisherSafe, Covered, ObjectsSafe, ManifestsAreTrue,
                     DatasetIsTrue, OnePlan
  <2>4. PublisherSafe(p)'
    BY <2>1 DEF PublisherSafe, Planned, Verified, Covered
  <2> QED
    BY <1>1, <2>1, <2>2, <2>3, <2>4, OwnStep
<1>3. CASE Goto(p, "failed") /\ UNCHANGED dataset
  BY <1>1, <1>3, MoveStep DEF objects
<1> QED
  BY <1>2, <1>3 DEF WriteDataset

LEMMA ScanStep ==
  ASSUME DatasetInv, TypeOK', NEW p \in Publisher, Scan(p)
  PROVE  DatasetInv' /\ ObjectsKept
<1>1. /\ plan = run[p].plan /\ pc[p] = "scan" /\ UNCHANGED <<run, item, objects>>
      /\ \A x \in Publisher \ {p} : todo'[x] = todo[x]
  BY DEF Scan, DatasetInv, PublisherSafe, Planned, TypeOK
<1>2. UNCHANGED pc => Goto(p, "scan")
  BY <1>1 DEF Goto, DatasetInv, TypeOK
<1>3. Goto(p, "next") \/ Goto(p, "failed") \/ Goto(p, "scan")
  BY <1>2 DEF Scan
<1> QED
  BY <1>1, <1>3, MoveStep

LEMMA ReadPlanStep ==
  ASSUME DatasetInv, TypeOK', NEW p \in Publisher, ReadPlan(p)
  PROVE  DatasetInv' /\ ObjectsKept
<1>1. Goto(p, "writePlan") \/ Goto(p, "failed") \/ (plan = run[p].plan /\ Goto(p, "scan"))
  BY DEF ReadPlan
<1> QED
  BY <1>1, MoveStep DEF ReadPlan

\* Generation touches only the staging directory.
LEMMA GenerateStep ==
  ASSUME DatasetInv, TypeOK', NEW p \in Publisher, NEW s, Clear(p, s) \/ Generate(p, s)
  PROVE  DatasetInv' /\ ObjectsKept
<1>1. ObjectsSafe' /\ ObjectsKept
  BY SameObjects DEF Clear, Generate, DatasetInv
<1>2. PublisherSafe(p)'
  BY <1>1, Bystander DEF Clear, Generate
<1> QED
  BY <1>1, <1>2, OwnStep DEF Clear, Generate

LEMMA TakeStep ==
  ASSUME DatasetInv, TypeOK', NEW p \in Publisher, Take(p)
  PROVE  DatasetInv' /\ ObjectsKept
<1>1. plan = run[p].plan
  BY DEF Take, DatasetInv, PublisherSafe, Planned
<1>2. Goto(p, "finalize") \/ Goto(p, "check") \/ Goto(p, "failed")
  BY DEF Take
<1> QED
  BY <1>1, <1>2, MoveStep DEF Take

LEMMA FailStep ==
  ASSUME DatasetInv, TypeOK', NEW p \in Publisher, Fail(p)
  PROVE  DatasetInv' /\ ObjectsKept
<1>1. Goto(p, "failed") \/ Goto(p, "down")
  BY DEF Fail, Goto
<1> QED
  BY <1>1, MoveStep DEF Fail

LEMMA Stutter ==
  ASSUME DatasetInv, TypeOK', UNCHANGED vars
  PROVE  DatasetInv' /\ ObjectsKept
<1>1. ObjectsSafe' /\ ObjectsKept
  BY SameObjects DEF DatasetInv, vars, objects
<1>2. \A p \in Publisher : PublisherSafe(p)'
  BY <1>1, Bystander DEF vars
<1> QED
  BY <1>1, <1>2 DEF DatasetInv

-----------------------------------------------------------------------------
(* The theorems.                                                           *)

LEMMA InitSafe == Init => DatasetInv
<1> SUFFICES ASSUME Init PROVE DatasetInv
  OBVIOUS
<1>1. TypeOK
  BY InitTyped
<1>2. ObjectsSafe
  BY DEF Init, ObjectsSafe, ManifestsAreTrue, DatasetIsTrue, OnePlan
<1>3. \A p \in Publisher : PublisherSafe(p)
  BY DEF Init, PublisherSafe, Planned, Verified, Covered
<1> QED
  BY <1>1, <1>2, <1>3 DEF DatasetInv

LEMMA NextSafe ==
  ASSUME DatasetInv, [Next]_vars
  PROVE  DatasetInv' /\ ObjectsKept
<1>1. TypeOK'
  BY StepTyped DEF DatasetInv, PublisherSafe
<1>2. CASE UNCHANGED vars
  BY <1>1, <1>2, Stutter
<1>3. ASSUME NEW p \in Publisher, Step(p)
      PROVE  DatasetInv' /\ ObjectsKept
  BY <1>1, <1>3, ReadPlanStep, WritePlanStep, ScanStep, TakeStep, CheckStep, GenerateStep,
     CompareStep, UploadStep, UploadedStep, WriteManifestStep, VerifyStep, FinalizeStep,
     WriteDatasetStep DEF Step
<1> QED
  BY <1>1, <1>2, <1>3, StartStep, UploadFailsStep, FailStep DEF Next

\* The inductive invariant, for publishers that run manifest.py in any order.
THEOREM DatasetInvariance == Spec => []DatasetInv
<1>1. DatasetInv /\ [Next]_vars => DatasetInv'
  BY NextSafe
<1> QED
  BY InitSafe, <1>1, PTL DEF Spec

\* Every variable keeps its type.
THEOREM DatasetTypeCorrect == Spec => []TypeOK
<1>1. DatasetInv => TypeOK
  BY DEF DatasetInv
<1> QED
  BY <1>1, DatasetInvariance, PTL

\* "A shard manifest is written only after all nine files read back with matching
\* metadata": it describes what is in the store.
THEOREM ManifestsDescribeTables == Spec => []ManifestsAreTrue
<1>1. DatasetInv => ManifestsAreTrue
  BY DEF DatasetInv, ObjectsSafe
<1> QED
  BY <1>1, DatasetInvariance, PTL

\* "The final dataset manifest is written only after every shard passes": it is the
\* list of their manifests.
THEOREM DatasetDescribesShards == Spec => []DatasetIsTrue
<1>1. DatasetInv => DatasetIsTrue
  BY DEF DatasetInv, ObjectsSafe
<1> QED
  BY <1>1, DatasetInvariance, PTL

\* Everything in the store was generated from the plan recorded there.
THEOREM PlanIsUnique == Spec => []OnePlan
<1>1. DatasetInv => OnePlan
  BY DEF DatasetInv, ObjectsSafe
<1> QED
  BY <1>1, DatasetInvariance, PTL

\* No object of a dataset version is ever replaced.
THEOREM ObjectsAreImmutable == Spec => NeverOverwritten
<1>1. DatasetInv /\ [Next]_vars => [ObjectsKept]_vars
  BY NextSafe
<1> QED
  BY <1>1, DatasetInvariance, PTL DEF Spec, NeverOverwritten
=============================================================================
