---------------------------- MODULE Remediation ----------------------------
(***************************************************************************)
(* The size remediation of the canonical source dataset                    *)
(* (ops/gcp/remediate_canonical_size.py): `apply' replaces the Parquet      *)
(* object of each selected shard, then its shard manifest, then the dataset *)
(* manifest, each on the generation the plan recorded; `rollback' restores  *)
(* the originals in the same order.  A local ledger, replaced as a whole,   *)
(* is written before and after every request.                               *)
(*                                                                         *)
(* An object is its generation and whether its bytes are the planned       *)
(* original, the staged rewrite or somebody else's.                        *)
(***************************************************************************)
EXTENDS Integers, FiniteSets

CONSTANTS
  Shards,        \* number of selected shards
  Operator,      \* terminals from which commands are started
  Foreigners,    \* BOOLEAN: somebody else may write an object of the dataset
  MaxFaults      \* bound: failed requests, killed commands, foreign writes and ledgers reset

RemediationAssumption ==
  /\ Shards \in Nat \ {0} /\ MaxFaults \in Nat
  /\ Foreigners \in BOOLEAN

\* In the order in which they are applied and restored.
Parquet == 1 .. Shards
ShardManifest == (Shards + 1) .. (2 * Shards)
DatasetManifest == 2 * Shards + 1
Object == 1 .. DatasetManifest

Content == {"original", "staged", "foreign"}
NoGen == 0
NoPlan == [o \in Object |-> NoGen]
NoLedger == [status |-> "NONE", pending |-> {}, applied |-> NoPlan, restored |-> NoPlan]

VARIABLES
  live,       \* the bucket: the live [gen, content] of each object
  plan,       \* the immutable plan: the original generation of each object, or NoPlan
  ledger,     \* the ledger file, or NoLedger
  proc,       \* the command each operator runs, with its own copy of the ledger
  inFlight,   \* requests given up by their command that may still be executed
  touched,    \* history: objects changed by a foreign write or by such a request
  reset,      \* history: an apply has replaced the ledger of another
  faults

vars == <<live, plan, ledger, proc, inFlight, touched, reset, faults>>

Idle == [pc |-> "idle", at |-> 0, gen |-> NoGen, ledger |-> NoLedger]

Init ==
  /\ live = [o \in Object |-> [gen |-> 1, content |-> "original"]]
  /\ plan = NoPlan /\ ledger = NoLedger
  /\ proc = [p \in Operator |-> Idle]
  /\ inFlight = {} /\ touched = {} /\ reset = FALSE
  /\ faults = 0

Fault == faults < MaxFaults /\ faults' = faults + 1

-----------------------------------------------------------------------------
(* Requests to the bucket and to the ledger file.                          *)

\* A write on the condition that the live generation is still `gen'.
Request(o, gen, content) == [object |-> o, gen |-> gen, content |-> content]

\* Mutant: the precondition is left out.
MatchesNothing(r) == TRUE

Matches(r) == live[r.object].gen = r.gen

Written(r) == [live EXCEPT ![r.object] = [gen |-> @.gen + 1, content |-> r.content]]

\* The command at p goes on with a new copy of the ledger, which it saves.
Save(p, pc, at, record) ==
  /\ ledger' = record
  /\ proc' = [proc EXCEPT ![p] = [pc |-> pc, at |-> at, gen |-> NoGen, ledger |-> record]]

Status(record, status) == [record EXCEPT !.status = status]

\* An exception: the status is saved and the command ends.
Stop(p, status) ==
  /\ ledger' = Status(proc[p].ledger, status)
  /\ proc' = [proc EXCEPT ![p] = Idle]

Failed(p) ==
  IF proc[p].pc \in {"restore", "restored", "look", "verify"} THEN "ROLLBACK_FAILED" ELSE "FAILED"

-----------------------------------------------------------------------------
(* plan                                                                    *)

\* Read-only in the bucket: every object is read at the generation recorded and
\* compared with the manifests, so the plan exists only of a whole original.
Plan(p) ==
  /\ proc[p].pc = "idle" /\ plan = NoPlan
  /\ \A o \in Object : live[o].content = "original"
  /\ plan' = [o \in Object |-> live[o].gen]
  /\ UNCHANGED <<live, ledger, proc, inFlight, touched, reset, faults>>

-----------------------------------------------------------------------------
(* apply                                                                   *)

Fresh == Status(NoLedger, "APPLYING")

\* Refused while the ledger exists (an APPLIED one is only checked), and unless every
\* object is the planned original.  Nothing is locked or written yet.
StartApply(p) ==
  /\ proc[p].pc = "idle" /\ plan # NoPlan /\ ledger = NoLedger
  /\ \A o \in Object : live[o].gen = plan[o]
  /\ proc' = [proc EXCEPT ![p].pc = "begin"]
  /\ UNCHANGED <<live, plan, ledger, inFlight, touched, reset, faults>>

\* The files are verified and the objects read, and a fresh ledger saved over whatever is
\* there by now.
BeginApply(p) ==
  /\ proc[p].pc = "begin"
  /\ Save(p, "pending", 1, Fresh)
  /\ IF ledger = NoLedger THEN UNCHANGED <<reset, faults>> ELSE reset' = TRUE /\ Fault
  /\ UNCHANGED <<live, plan, inFlight, touched>>

\* Mutant: the ledger hears of a mutation only when it is confirmed.
RecordPendingLate(p) ==
  /\ proc[p].pc = "pending"
  /\ Save(p, "upload", proc[p].at, proc[p].ledger)
  /\ UNCHANGED <<live, plan, inFlight, touched, reset, faults>>

RecordPending(p) ==
  /\ proc[p].pc = "pending"
  /\ LET o == proc[p].at IN
     Save(p, "upload", o, [proc[p].ledger EXCEPT !.pending = @ \cup {o}])
  /\ UNCHANGED <<live, plan, inFlight, touched, reset, faults>>

\* Another generation is live: GenerationConflict.
Upload(p) ==
  /\ proc[p].pc = "upload"
  /\ LET o == proc[p].at  r == Request(o, plan[o], "staged") IN
     IF Matches(r)
     THEN /\ live' = Written(r)
          /\ proc' = [proc EXCEPT ![p].pc = "uploaded", ![p].gen = r.gen + 1]
          /\ UNCHANGED ledger
     ELSE Stop(p, "FAILED") /\ UNCHANGED live
  /\ UNCHANGED <<plan, inFlight, touched, reset, faults>>

AfterApplied(o) ==
  CASE o = 2 * Shards -> "rebuild" [] o = DatasetManifest -> "finish" [] OTHER -> "pending"

\* The metadata read back is that of the generation written, whatever is live by then.
Confirm(p) ==
  /\ proc[p].pc = "uploaded"
  /\ LET o == proc[p].at IN
     Save(p, AfterApplied(o), o + 1,
          [proc[p].ledger EXCEPT !.pending = @ \ {o}, !.applied[o] = proc[p].gen])
  /\ UNCHANGED <<live, plan, inFlight, touched, reset, faults>>

\* The dataset manifest is rebuilt from all shard manifests, and must have the planned
\* total and no other change.
Rebuild(p) ==
  /\ proc[p].pc = "rebuild"
  /\ IF \A o \in ShardManifest : live[o].content = "staged"
     THEN proc' = [proc EXCEPT ![p].pc = "pending"] /\ UNCHANGED ledger
     ELSE Stop(p, "FAILED")
  /\ UNCHANGED <<live, plan, inFlight, touched, reset, faults>>

FinishApply(p) ==
  /\ proc[p].pc = "finish"
  /\ Stop(p, "APPLIED")
  /\ UNCHANGED <<live, plan, inFlight, touched, reset, faults>>

-----------------------------------------------------------------------------
(* rollback                                                                *)

Accepted == {"APPLIED", "FAILED", "ROLLBACK_FAILED", "ROLLING_BACK"}

Mutated(record) == record.pending \cup {o \in Object : record.applied[o] # NoGen}

\* The next recorded mutation after o, or the final verification.
NextMutation(record, o) ==
  LET rest == {m \in Mutated(record) : m > o} IN
  IF rest = {} THEN 0 ELSE CHOOSE m \in rest : \A n \in rest : m <= n

Proceed(record, o) == IF NextMutation(record, o) = 0 THEN "verify" ELSE "look"

\* Mutant: a rollback begins before the ledger says so.
StartRollbackUnannounced(p) ==
  /\ proc[p].pc = "idle" /\ plan # NoPlan /\ ledger # NoLedger /\ ledger.status \in Accepted
  /\ proc' = [proc EXCEPT ![p] = [pc |-> Proceed(ledger, 0), at |-> NextMutation(ledger, 0),
                                  gen |-> NoGen, ledger |-> Status(ledger, "ROLLING_BACK")]]
  /\ UNCHANGED <<live, plan, ledger, inFlight, touched, reset, faults>>

StartRollback(p) ==
  /\ proc[p].pc = "idle" /\ plan # NoPlan /\ ledger # NoLedger /\ ledger.status \in Accepted
  /\ LET record == Status(ledger, "ROLLING_BACK") IN
     Save(p, Proceed(record, 0), NextMutation(record, 0), record)
  /\ UNCHANGED <<live, plan, inFlight, touched, reset, faults>>

\* Mutant: a mutation that is only pending is taken for one that never happened.
WasAppliedRecorded(record, o) == live[o].gen = record.applied[o]

\* The live object is the recorded replacement, or the one an unconfirmed upload left.
WasApplied(record, o) ==
  \/ live[o].gen = record.applied[o]
  \/ o \in record.pending /\ live[o].content = "staged"

\* One metadata read decides: restored already, to be restored, original, or ambiguous.
Look(p) ==
  /\ proc[p].pc = "look"
  /\ LET o == proc[p].at  record == proc[p].ledger IN
     CASE record.restored[o] # NoGen ->
            IF live[o].gen = record.restored[o] /\ live[o].content = "original"
            THEN /\ proc' = [proc EXCEPT ![p].pc = Proceed(record, o),
                                         ![p].at = NextMutation(record, o)]
                 /\ UNCHANGED ledger
            ELSE Stop(p, "ROLLBACK_FAILED")
       [] record.restored[o] = NoGen /\ WasApplied(record, o) ->
            /\ proc' = [proc EXCEPT ![p].pc = "restore", ![p].gen = live[o].gen]
            /\ UNCHANGED ledger
       [] record.restored[o] = NoGen /\ ~WasApplied(record, o) ->
            IF live[o].content = "original"
            THEN LET known == [record EXCEPT !.restored[o] = live[o].gen] IN
                 Save(p, Proceed(known, o), NextMutation(known, o), known)
            ELSE Stop(p, "ROLLBACK_FAILED")
  /\ UNCHANGED <<live, plan, inFlight, touched, reset, faults>>

\* The original generation is uploaded over the one the decision was made on.
Restore(p) ==
  /\ proc[p].pc = "restore"
  /\ LET o == proc[p].at  r == Request(o, proc[p].gen, "original") IN
     IF Matches(r)
     THEN /\ live' = Written(r)
          /\ proc' = [proc EXCEPT ![p].pc = "restored", ![p].gen = r.gen + 1]
          /\ UNCHANGED ledger
     ELSE Stop(p, "ROLLBACK_FAILED") /\ UNCHANGED live
  /\ UNCHANGED <<plan, inFlight, touched, reset, faults>>

RecordRestored(p) ==
  /\ proc[p].pc = "restored"
  /\ LET o == proc[p].at  known == [proc[p].ledger EXCEPT !.restored[o] = proc[p].gen] IN
     Save(p, Proceed(known, o), NextMutation(known, o), known)
  /\ UNCHANGED <<live, plan, inFlight, touched, reset, faults>>

\* ROLLED_BACK is saved, then every recorded mutation is compared once more.
SaveRolledBack(p) ==
  /\ proc[p].pc = "verify" /\ proc[p].ledger.status = "ROLLING_BACK"
  /\ Save(p, "verify", 0, Status(proc[p].ledger, "ROLLED_BACK"))
  /\ UNCHANGED <<live, plan, inFlight, touched, reset, faults>>

FinishRollback(p) ==
  /\ proc[p].pc = "verify" /\ proc[p].ledger.status = "ROLLED_BACK"
  /\ LET record == proc[p].ledger IN
     IF \A o \in Mutated(record) :
          live[o].gen = record.restored[o] /\ live[o].content = "original"
     THEN proc' = [proc EXCEPT ![p] = Idle] /\ UNCHANGED ledger
     ELSE Stop(p, "ROLLBACK_FAILED")
  /\ UNCHANGED <<live, plan, inFlight, touched, reset, faults>>

-----------------------------------------------------------------------------
(* Failures.                                                               *)

\* What the command at p has just asked of the bucket, if anything.
Asked(p) ==
  CASE proc[p].pc = "upload" -> {Request(proc[p].at, plan[proc[p].at], "staged")}
    [] proc[p].pc = "restore" -> {Request(proc[p].at, proc[p].gen, "original")}
    [] OTHER -> {}

\* A request fails: it was not executed, or may yet be; or its answer is lost.
RequestFails(p) ==
  /\ proc[p].pc \notin {"idle", "begin"} /\ Fault
  /\ Stop(p, Failed(p))
  /\ inFlight' \in {inFlight, inFlight \cup Asked(p)}
  /\ UNCHANGED <<live, plan, touched, reset>>

\* The command is killed, or an apply fails before its first save: nothing of it reaches
\* the ledger.
Kill(p) ==
  /\ proc[p].pc # "idle" /\ Fault
  /\ proc' = [proc EXCEPT ![p] = Idle]
  /\ inFlight' \in {inFlight, inFlight \cup Asked(p)}
  /\ UNCHANGED <<live, plan, ledger, touched, reset>>

Land(r) ==
  /\ r \in inFlight
  /\ inFlight' = inFlight \ {r}
  /\ IF Matches(r)
     THEN live' = Written(r) /\ touched' = touched \cup {r.object}
     ELSE UNCHANGED <<live, touched>>
  /\ UNCHANGED <<plan, ledger, proc, reset, faults>>

ForeignWrite(o) ==
  /\ Foreigners /\ Fault
  /\ live' = Written(Request(o, live[o].gen, "foreign"))
  /\ touched' = touched \cup {o}
  /\ UNCHANGED <<plan, ledger, proc, inFlight, reset>>

Apply(p) ==
  \/ BeginApply(p)
  \/ RecordPending(p) \/ Upload(p) \/ Confirm(p) \/ Rebuild(p) \/ FinishApply(p)

Rollback(p) ==
  Look(p) \/ Restore(p) \/ RecordRestored(p) \/ SaveRolledBack(p) \/ FinishRollback(p)

Next ==
  \/ \E p \in Operator : \/ Plan(p) \/ StartApply(p) \/ StartRollback(p)
                         \/ Apply(p) \/ Rollback(p) \/ RequestFails(p) \/ Kill(p)
  \/ \E r \in inFlight : Land(r)
  \/ \E o \in Object : ForeignWrite(o)

Spec == Init /\ [][Next]_vars

\* A command that is started runs on, and a rollback that failed is run again.
Fairness ==
  /\ WF_vars(\E p \in Operator : Apply(p) \/ Rollback(p))
  /\ WF_vars(\E p \in Operator : StartRollback(p))

-----------------------------------------------------------------------------
LedgerType ==
  [status : {"NONE", "APPLYING", "APPLIED", "FAILED", "ROLLING_BACK", "ROLLBACK_FAILED", "ROLLED_BACK"},
   pending : SUBSET Object, applied : [Object -> Nat], restored : [Object -> Nat]]

TypeOK ==
  /\ live \in [Object -> [gen : Nat \ {0}, content : Content]]
  /\ plan \in [Object -> Nat]
  /\ ledger \in LedgerType
  /\ proc \in [Operator -> [pc : {"idle", "begin", "pending", "upload", "uploaded", "rebuild", "finish",
                                  "look", "restore", "restored", "verify"},
                            at : 0 .. DatasetManifest + 1, gen : Nat, ledger : LedgerType]]
  /\ inFlight \subseteq [object : Object, gen : Nat, content : Content]
  /\ touched \subseteq Object
  /\ reset \in BOOLEAN /\ faults \in 0 .. MaxFaults

\* "Rollback restores the recorded original": a completed one leaves no replacement
\* behind, confirmed or not, of any object that nothing else has changed.
RolledBackIsOriginal ==
  ledger # NoLedger /\ ledger.status = "ROLLED_BACK" =>
    \A o \in Object \ touched : live[o].content = "original"

\* "dataset_manifest.json last ... commit marker": it is replaced only after everything it
\* describes, and stays so until a rollback is asked for.
CommittedIsWhole ==
  /\ live[DatasetManifest].content = "staged" /\ DatasetManifest \notin touched
  /\ ledger.status \notin {"ROLLING_BACK", "ROLLBACK_FAILED"}
  => \A o \in Object \ touched : live[o].content = "staged"

\* A completed rollback leaves no replacement of an object nothing else has changed, and
\* the dataset manifest is replaced only after everything it describes, unless one of two
\* overlapping applies has reset the ledger of the other.
LedgerIsTrue == ~reset => RolledBackIsOriginal /\ CommittedIsWhole

\* "It refuses a live generation that cannot be proved to be either the recorded
\* replacement or the original content": what somebody else wrote is never replaced,
\* by a late request either.
ForeignIsKept ==
  [][\A o \in Object : live[o].content = "foreign" => live'[o].content = "foreign"]_vars

\* "recorded in the local ledger before and after the request": every replacement is
\* known to the ledger before it is made, otherwise no rollback would find it; unless one
\* of two overlapping applies has reset the ledger of the other.
ReplacedIsRecorded ==
  ~reset => \A o \in Object : live[o].content = "staged" => ledger # NoLedger /\ o \in Mutated(ledger)

\* "Rollback is valid after an APPLIED, FAILED, ROLLING_BACK or ROLLBACK_FAILED state":
\* one that is run again restores the dataset in the end, from wherever its predecessors
\* failed or were killed, unless an object was changed behind the ledger's back or the
\* ledger reset.
RollsBack ==
  (ledger # NoLedger /\ ledger.status \in Accepted \ {"APPLIED"})
    ~> (ledger.status = "ROLLED_BACK" \/ touched # {} \/ reset)

\* "apply ledger already exists without APPLIED status; roll back first": where an apply
\* says so, a rollback is possible.
RollBackFirstWorks ==
  (\A p \in Operator : proc[p].pc = "idle") /\ ledger # NoLedger =>
    ledger.status \in Accepted \cup {"ROLLED_BACK"}
=============================================================================
