------------------------- MODULE RemediationProofs -------------------------
(***************************************************************************)
(* ForeignIsKept, ReplacedIsRecorded and LedgerIsTrue for any number of    *)
(* shards, terminals and faults. The first rests on the generations: a     *)
(* generation anybody has noted is either no longer live or that of an     *)
(* object nobody else has written, so no request that matches replaces a   *)
(* foreign object, whatever becomes of the ledger. The other two hold      *)
(* until an apply saves its fresh ledger over that of another: so long the *)
(* commands agree on what was mutated, for rollbacks never change it and   *)
(* an apply that has saved its ledger runs alone; and they follow the      *)
(* commands through the objects: what an apply has passed is staged, and   *)
(* what a rollback has passed is restored, unless it was changed behind    *)
(* the ledger's back.                                                      *)
(***************************************************************************)
EXTENDS Remediation, WellFoundedInduction, TLAPS

PC == {"idle", "begin", "pending", "upload", "uploaded", "rebuild", "finish", "look", "restore",
       "restored", "verify"}
ApplyPC == {"pending", "upload", "uploaded", "rebuild", "finish"}

\* Commands that have no ledger yet.
QuietPC == {"idle", "begin"}

\* g is a generation of o that a request may name.
Known(o, g) == g <= live[o].gen /\ (g = live[o].gen => live[o].content # "foreign")

KnownAll(record) == \A o \in Object : Known(o, record.applied[o])

ProcNoted(p) ==
  /\ proc[p].pc \in PC \ {"idle", "begin", "finish", "verify"} => proc[p].at \in Object
  /\ proc[p].pc \in {"uploaded", "restore"} => Known(proc[p].at, proc[p].gen)
  /\ KnownAll(proc[p].ledger)

\* The generations noted anywhere are never those of a foreign object.
Noted ==
  /\ KnownAll(ledger)
  /\ \A o \in Object : Known(o, plan[o])
  /\ \A p \in Operator : ProcNoted(p)
  /\ \A r \in inFlight : Known(r.object, r.gen)

NotedInv == TypeOK /\ Noted

Alone(p) == \A q \in Operator \ {p} : proc[q].pc \in QuietPC

ProcRecorded(p) ==
  /\ proc[p].pc \notin QuietPC =>
       /\ ledger.status # "NONE" /\ proc[p].ledger.status # "NONE"
       /\ Mutated(proc[p].ledger) = Mutated(ledger)
  /\ proc[p].pc \in ApplyPC =>
       ledger.status = "APPLYING" /\ proc[p].ledger.status = "APPLYING" /\ Alone(p)
  /\ proc[p].pc \in {"upload", "uploaded"} => proc[p].at \in Mutated(ledger)
  /\ proc[p].pc = "uploaded" => proc[p].gen # NoGen

\* What is staged, or may yet be, is in the ledger.
Recorded ==
  /\ \A o \in Object : live[o].content = "staged" => o \in Mutated(ledger)
  /\ \A p \in Operator : ProcRecorded(p)
  /\ \A r \in inFlight : r.content = "staged" => r.object \in Mutated(ledger)

RemedyInv == TypeOK /\ Noted /\ Recorded

-----------------------------------------------------------------------------
(* Data.                                                                   *)

LEMMA Sizes ==
  ASSUME RemediationAssumption
  PROVE  /\ Shards \in Nat /\ DatasetManifest \in Nat /\ 1 <= Shards /\ MaxFaults \in Nat
         /\ Object = 1 .. DatasetManifest /\ DatasetManifest = 2 * Shards + 1
  BY DEF RemediationAssumption, DatasetManifest, Object

LEMMA SmallestOf ==
  ASSUME NEW T, T \subseteq Nat, T # {}
  PROVE  \E x \in T : \A y \in T : x <= y
<1> DEFINE R == OpToRel(<, Nat)
<1>1. IsWellFoundedOn(R, Nat)
  BY NatLessThanWellFounded
<1>2. R = {ss \in Nat \X Nat : ss[1] < ss[2]}
  BY DEF OpToRel
<1> HIDE DEF R
<1>3. PICK x \in T : \A y \in T : ~ (<<y, x>> \in R)
  BY <1>1, WFMin
<1>4. ASSUME NEW y \in T PROVE x <= y
  <2>1. x \in Nat /\ y \in Nat /\ <<y, x>> \notin R
    BY <1>3
  <2>2. ~ (y < x)
    BY <1>2, <2>1
  <2> QED
    BY <2>1, <2>2
<1> QED
  BY <1>4

LEMMA NextMutationType ==
  ASSUME RemediationAssumption, NEW record \in LedgerType, NEW o \in Int
  PROVE  NextMutation(record, o) \in 0 .. DatasetManifest
         /\ (NextMutation(record, o) # 0 => NextMutation(record, o) \in Object)
<1> DEFINE rest == {m \in Mutated(record) : m > o}
<1>1. rest \subseteq Object
  BY DEF Mutated, LedgerType
<1>2. CASE rest = {}
  BY <1>2, Sizes DEF NextMutation
<1>3. CASE rest # {}
  <2> HIDE DEF rest
  <2>1. \E m \in rest : \A n \in rest : m <= n
    BY <1>1, <1>3, Sizes, SmallestOf
  <2>2. NextMutation(record, o) \in rest
    BY <1>3, <2>1 DEF NextMutation, rest
  <2> QED
    BY <1>1, <2>2, Sizes
<1> QED
  BY <1>2, <1>3

LEMMA EmptyLedger ==
  ASSUME RemediationAssumption
  PROVE  /\ NoLedger \in LedgerType /\ Mutated(NoLedger) = {}
         /\ Fresh \in LedgerType /\ Mutated(Fresh) = {} /\ Fresh.status = "APPLYING"
         /\ Fresh.applied = NoPlan
  BY DEF NoLedger, LedgerType, NoPlan, NoGen, Mutated, Fresh, Status

LEMMA NewStatus ==
  ASSUME NEW record \in LedgerType,
         NEW status \in {"APPLIED", "FAILED", "ROLLING_BACK", "ROLLBACK_FAILED", "ROLLED_BACK"}
  PROVE  /\ Status(record, status) \in LedgerType /\ Status(record, status).status = status
         /\ Mutated(Status(record, status)) = Mutated(record)
         /\ Status(record, status).applied = record.applied
  BY DEF LedgerType, Status, Mutated

\* A restored generation changes no mutation.
LEMMA NewRestored ==
  ASSUME NEW record \in LedgerType, NEW o \in Object, NEW g \in Nat, NEW known,
         known = [record EXCEPT !.restored[o] = g]
  PROVE  /\ known \in LedgerType /\ Mutated(known) = Mutated(record)
         /\ known.applied = record.applied /\ known.status = record.status
  BY DEF LedgerType, Mutated

LEMMA NewPending ==
  ASSUME NEW record \in LedgerType, NEW o \in Object, NEW known,
         known = [record EXCEPT !.pending = @ \cup {o}]
  PROVE  /\ known \in LedgerType /\ Mutated(known) = Mutated(record) \cup {o}
         /\ known.applied = record.applied /\ known.status = record.status
  BY DEF LedgerType, Mutated

LEMMA NewApplied ==
  ASSUME NEW record \in LedgerType, NEW o \in Mutated(record), o \in Object, NEW g \in Nat, g # NoGen,
         NEW known \in LedgerType, known.pending = record.pending \ {o},
         known.applied = [record.applied EXCEPT ![o] = g]
  PROVE  Mutated(known) = Mutated(record)
<1>1. \A x \in Object : known.applied[x] = IF x = o THEN g ELSE record.applied[x]
  BY DEF LedgerType
<1> QED
  BY <1>1 DEF Mutated

-----------------------------------------------------------------------------
(* Steps of one command: what is noted of the generations, whatever the    *)
(* ledger says, and what the ledger has recorded.                          *)

ProcType == [pc : PC, at : 0 .. DatasetManifest + 1, gen : Nat, ledger : LedgerType]

LEMMA TypeFacts ==
  ASSUME RemediationAssumption, TypeOK
  PROVE  /\ proc \in [Operator -> ProcType] /\ Idle \in ProcType
         /\ ledger \in LedgerType
         /\ \A o \in Object : live[o].gen \in Nat \ {0} /\ plan[o] \in Nat
  BY EmptyLedger, Sizes DEF TypeOK, ProcType, PC, Idle, NoGen

LEMMA TypeStep ==
  ASSUME RemediationAssumption, TypeOK, NEW p \in Operator, NEW next \in ProcType,
         proc' = [proc EXCEPT ![p] = next], ledger' \in LedgerType, UNCHANGED <<plan, touched>>,
         live' \in [Object -> [gen : Nat \ {0}, content : Content]],
         inFlight' \subseteq [object : Object, gen : Nat, content : Content],
         reset' \in BOOLEAN, faults' \in 0 .. MaxFaults
  PROVE  TypeOK' /\ proc'[p] = next /\ \A q \in Operator \ {p} : proc'[q] = proc[q]
<1>1. proc' \in [Operator -> ProcType] /\ proc'[p] = next
      /\ \A q \in Operator \ {p} : proc'[q] = proc[q]
  BY TypeFacts
<1> QED
  BY <1>1 DEF TypeOK, ProcType, PC

LEMMA NothingNoted ==
  ASSUME RemediationAssumption, TypeOK
  PROVE  KnownAll(NoLedger) /\ KnownAll(Fresh)
  BY EmptyLedger, TypeFacts DEF KnownAll, Known, NoLedger, NoPlan, NoGen

\* A command that leaves the bucket alone.
LEMMA QuietNoted ==
  ASSUME RemediationAssumption, NotedInv, TypeOK', NEW p \in Operator, UNCHANGED <<live, plan>>,
         \A q \in Operator \ {p} : proc'[q] = proc[q],
         ProcNoted(p)', KnownAll(ledger'),
         \A r \in inFlight' \ inFlight : Known(r.object, r.gen)
  PROVE  NotedInv'
<1>1. \A q \in Operator \ {p} : ProcNoted(q)'
  BY DEF NotedInv, Noted, ProcNoted, KnownAll, Known
<1>2. \A o \in Object : Known(o, plan[o])'
  BY DEF NotedInv, Noted, Known
<1>3. KnownAll(ledger)'
  BY DEF KnownAll, Known
<1>4. \A r \in inFlight' : Known(r.object, r.gen)'
  BY DEF NotedInv, Noted, Known
<1> QED
  BY <1>1, <1>2, <1>3, <1>4 DEF NotedInv, Noted

\* It leaves the mutations alone, too, unless it runs alone.
LEMMA QuietRecorded ==
  ASSUME Recorded, NEW p \in Operator, UNCHANGED live,
         \A q \in Operator \ {p} : proc'[q] = proc[q],
         ProcRecorded(p)',
         proc'[p].pc \notin QuietPC => \A q \in Operator \ {p} : proc[q].pc \notin ApplyPC,
         ledger' = ledger \/
           /\ ledger'.status # "NONE"
           /\ Mutated(ledger) \subseteq Mutated(ledger')
           /\ \A q \in Operator \ {p} : proc[q].pc \notin ApplyPC
           /\ Mutated(ledger) = Mutated(ledger') \/ Alone(p),
         \A r \in inFlight' \ inFlight : r.content = "staged" => r.object \in Mutated(ledger)
  PROVE  Recorded'
<1>1. ASSUME NEW q \in Operator \ {p} PROVE ProcRecorded(q)'
  <2>1. proc'[q] = proc[q] /\ ProcRecorded(q)
    BY DEF Recorded
  <2>2. CASE proc[q].pc \in ApplyPC
    <3>1. ledger' = ledger /\ proc'[p].pc \in QuietPC
      BY <2>2
    <3>2. Alone(q)'
      BY <2>1, <2>2, <3>1 DEF ProcRecorded, Alone
    <3> QED
      BY <2>1, <3>1, <3>2 DEF ProcRecorded, Mutated
  <2>3. CASE proc[q].pc \notin ApplyPC
    <3>1. proc[q].pc \notin QuietPC =>
            ledger'.status # "NONE" /\ Mutated(proc[q].ledger) = Mutated(ledger')
      BY <2>1 DEF ProcRecorded, Alone
    <3> QED
      BY <2>1, <2>3, <3>1 DEF ProcRecorded, ApplyPC, Mutated
  <2> QED
    BY <2>2, <2>3
<1>2. Mutated(ledger) \subseteq Mutated(ledger') /\ Mutated(ledger)' = Mutated(ledger')
  BY DEF Mutated
<1> QED
  BY <1>1, <1>2 DEF Recorded

\* The command at p saves a record of generations that are known.
LEMMA SaveNoted ==
  ASSUME RemediationAssumption, NotedInv, NEW p \in Operator, NEW pc \in PC,
         NEW at \in 0 .. DatasetManifest + 1, NEW record \in LedgerType, Save(p, pc, at, record),
         UNCHANGED <<live, plan, inFlight, touched>>, reset' \in BOOLEAN, faults' \in 0 .. MaxFaults,
         pc \in PC \ {"idle", "begin", "finish", "verify"} => at \in Object,
         pc \notin {"uploaded", "restore"}, KnownAll(record)
  PROVE  NotedInv'
<1> DEFINE next == [pc |-> pc, at |-> at, gen |-> NoGen, ledger |-> record]
<1>1. next \in ProcType /\ proc' = [proc EXCEPT ![p] = next] /\ ledger' = record
  BY DEF ProcType, Save, NoGen
<1>2. TypeOK' /\ proc'[p] = next /\ \A q \in Operator \ {p} : proc'[q] = proc[q]
  <2> HIDE DEF next
  <2> QED
    BY <1>1, TypeStep DEF NotedInv, TypeOK
<1>3. proc'[p].pc = pc /\ proc'[p].at = at /\ proc'[p].ledger = record
  BY <1>2
<1>4. ProcNoted(p)'
  BY <1>3 DEF ProcNoted, KnownAll, Known
<1> QED
  BY <1>1, <1>2, <1>4, QuietNoted

\* It saves a record with the mutations it had, or runs alone.
LEMMA SaveRecorded ==
  ASSUME RemediationAssumption, RemedyInv, NEW p \in Operator, NEW pc \in PC, NEW at,
         NEW record \in LedgerType, Save(p, pc, at, record), UNCHANGED <<live, inFlight>>,
         pc \notin QuietPC \cup {"uploaded"}, record.status # "NONE",
         Mutated(record) = Mutated(ledger) \/ (Mutated(ledger) \subseteq Mutated(record) /\ Alone(p)),
         \A q \in Operator \ {p} : proc[q].pc \notin ApplyPC,
         pc \in ApplyPC => record.status = "APPLYING" /\ Alone(p),
         pc = "upload" => at \in Mutated(record)
  PROVE  Recorded'
<1>1. /\ proc'[p].pc = pc /\ proc'[p].at = at /\ proc'[p].ledger = record /\ ledger' = record
      /\ \A q \in Operator \ {p} : proc'[q] = proc[q]
  BY TypeFacts DEF RemedyInv, Save
<1>2. ProcRecorded(p)'
  BY <1>1 DEF ProcRecorded, Mutated, Alone
<1> QED
  BY <1>1, <1>2, QuietRecorded DEF RemedyInv

\* The command at p ends, with a status or without.
LEMMA EndNoted ==
  ASSUME RemediationAssumption, NotedInv, NEW p \in Operator, proc' = [proc EXCEPT ![p] = Idle],
         ledger' = ledger \/ \E status \in {"APPLIED", "FAILED", "ROLLBACK_FAILED"} :
           ledger' = Status(proc[p].ledger, status),
         UNCHANGED <<live, plan, touched, reset>>, faults' \in 0 .. MaxFaults,
         inFlight' \in {inFlight, inFlight \cup Asked(p)}
  PROVE  NotedInv'
<1>1. proc[p] \in ProcType /\ ledger \in LedgerType /\ Idle \in ProcType /\ ProcNoted(p)
      /\ KnownAll(ledger)
  BY TypeFacts DEF NotedInv, Noted
<1>2. ledger' \in LedgerType /\ KnownAll(ledger')
  <2>1. CASE ledger' = ledger
    BY <1>1, <2>1
  <2>2. ASSUME NEW status \in {"APPLIED", "FAILED", "ROLLBACK_FAILED"},
               ledger' = Status(proc[p].ledger, status)
        PROVE  ledger' \in LedgerType /\ KnownAll(ledger')
    <3>1. proc[p].ledger \in LedgerType
      BY <1>1 DEF ProcType
    <3>2. ledger' \in LedgerType /\ ledger'.applied = proc[p].ledger.applied
      BY <2>2, <3>1, NewStatus
    <3> QED
      BY <1>1, <3>2 DEF ProcNoted, KnownAll
  <2> QED
    BY <2>1, <2>2
<1>3. \A r \in Asked(p) : /\ r \in [object : Object, gen : Nat, content : Content]
                          /\ Known(r.object, r.gen)
  <2>1. CASE proc[p].pc = "upload"
    <3>1. Asked(p) = {Request(proc[p].at, plan[proc[p].at], "staged")}
      BY <2>1 DEF Asked
    <3>2. proc[p].at \in Object
      BY <1>1, <2>1 DEF ProcNoted, PC
    <3> QED
      BY <3>1, <3>2, TypeFacts DEF Request, NotedInv, Noted, Content
  <2>2. CASE proc[p].pc = "restore"
    <3>1. Asked(p) = {Request(proc[p].at, proc[p].gen, "original")}
      BY <2>2 DEF Asked
    <3>2. proc[p].at \in Object /\ Known(proc[p].at, proc[p].gen)
      BY <1>1, <2>2 DEF ProcNoted, PC
    <3> QED
      BY <1>1, <3>1, <3>2 DEF Request, Content, ProcType
  <2>3. CASE proc[p].pc \notin {"upload", "restore"}
    BY <2>3 DEF Asked
  <2> QED
    BY <2>1, <2>2, <2>3
<1>4. TypeOK' /\ proc'[p] = Idle /\ \A q \in Operator \ {p} : proc'[q] = proc[q]
  BY <1>1, <1>2, <1>3, TypeStep DEF NotedInv, TypeOK
<1>5. ProcNoted(p)'
  <2>1. KnownAll(NoLedger)'
    BY NothingNoted DEF KnownAll, Known, NotedInv
  <2> QED
    BY <1>4, <2>1 DEF ProcNoted, Idle, KnownAll, Known
<1> QED
  BY <1>2, <1>3, <1>4, <1>5, QuietNoted

LEMMA EndRecorded ==
  ASSUME RemediationAssumption, RemedyInv, NEW p \in Operator, proc' = [proc EXCEPT ![p] = Idle],
         \/ ledger' = ledger
         \/ /\ proc[p].pc \notin QuietPC
            /\ \E status \in {"APPLIED", "FAILED", "ROLLBACK_FAILED"} :
                 ledger' = Status(proc[p].ledger, status),
         UNCHANGED live, inFlight' \in {inFlight, inFlight \cup Asked(p)}
  PROVE  Recorded'
<1>1. proc[p] \in ProcType /\ ProcRecorded(p)
      /\ proc'[p] = Idle /\ \A q \in Operator \ {p} : proc'[q] = proc[q]
  BY TypeFacts DEF RemedyInv, Recorded
<1>2. ledger' = ledger \/
        /\ ledger'.status # "NONE" /\ Mutated(ledger') = Mutated(ledger)
        /\ \A q \in Operator \ {p} : proc[q].pc \notin ApplyPC
  <2>1. ASSUME proc[p].pc \notin QuietPC, NEW status \in {"APPLIED", "FAILED", "ROLLBACK_FAILED"},
               ledger' = Status(proc[p].ledger, status)
        PROVE  /\ ledger'.status # "NONE" /\ Mutated(ledger') = Mutated(ledger)
               /\ \A q \in Operator \ {p} : proc[q].pc \notin ApplyPC
    <3>1. proc[p].ledger \in LedgerType
      BY <1>1 DEF ProcType
    <3>2. ledger'.status = status /\ Mutated(ledger') = Mutated(proc[p].ledger)
      BY <2>1, <3>1, NewStatus
    <3> QED
      BY <1>1, <2>1, <3>2 DEF RemedyInv, Recorded, ProcRecorded, Alone
  <2> QED
    BY <2>1
<1>3. \A r \in Asked(p) : r.content = "staged" => r.object \in Mutated(ledger)
  BY <1>1 DEF Asked, Request, ProcRecorded
<1>4. proc'[p].pc \in QuietPC
  BY <1>1 DEF Idle, QuietPC
<1>5. ProcRecorded(p)'
  BY <1>4 DEF ProcRecorded, QuietPC, ApplyPC
<1> QED
  BY <1>1, <1>2, <1>3, <1>4, <1>5, QuietRecorded DEF RemedyInv

\* A command that only moves on, without saving anything.
LEMMA MoveNoted ==
  ASSUME RemediationAssumption, NotedInv, NEW p \in Operator, NEW next \in ProcType,
         proc' = [proc EXCEPT ![p] = next], next.ledger = proc[p].ledger,
         UNCHANGED <<live, plan, ledger, inFlight, touched, reset, faults>>,
         next.pc \in PC \ {"idle", "begin", "finish", "verify"} => next.at \in Object,
         next.pc \in {"uploaded", "restore"} => Known(next.at, next.gen)
  PROVE  NotedInv'
<1>1. TypeOK' /\ proc'[p] = next /\ \A q \in Operator \ {p} : proc'[q] = proc[q]
  BY TypeFacts, TypeStep DEF NotedInv, TypeOK
<1>2. ProcNoted(p) /\ KnownAll(ledger)
  BY DEF NotedInv, Noted
<1>3. ProcNoted(p)'
  BY <1>1, <1>2 DEF ProcNoted, KnownAll, Known
<1> QED
  BY <1>1, <1>2, <1>3, QuietNoted

LEMMA MoveRecorded ==
  ASSUME RemediationAssumption, RemedyInv, NEW p \in Operator, NEW next \in ProcType,
         proc' = [proc EXCEPT ![p] = next], next.ledger = proc[p].ledger,
         UNCHANGED <<live, ledger, inFlight>>,
         next.pc \notin {"upload", "uploaded"},
         next.pc \notin QuietPC => proc[p].pc \notin QuietPC,
         next.pc \in ApplyPC => proc[p].pc \in ApplyPC
  PROVE  Recorded'
<1>1. proc'[p] = next /\ \A q \in Operator \ {p} : proc'[q] = proc[q]
  BY TypeFacts DEF RemedyInv
<1>2. ProcRecorded(p) /\ (proc[p].pc \notin QuietPC => \A q \in Operator \ {p} : proc[q].pc \notin ApplyPC)
  BY DEF RemedyInv, Recorded, ProcRecorded, Alone
<1>3. ProcRecorded(p)'
  BY <1>1, <1>2 DEF ProcRecorded, Mutated, Alone
<1> QED
  BY <1>1, <1>2, <1>3, QuietRecorded DEF RemedyInv

-----------------------------------------------------------------------------
(* Writes to the bucket.                                                   *)

\* A request that matches replaces no foreign object, and its generation becomes old.
LEMMA WrittenStep ==
  ASSUME RemediationAssumption, TypeOK, NEW o \in Object, NEW content \in Content, NEW g,
         g = live[o].gen, live' = Written(Request(o, g, content))
  PROVE  /\ live' \in [Object -> [gen : Nat \ {0}, content : Content]]
         /\ live'[o].gen = g + 1 /\ live'[o].content = content
         /\ \A x \in Object \ {o} : live'[x] = live[x]
         /\ \A x \in Object, n \in Nat : Known(x, n) => Known(x, n)'
<1>1. live \in [Object -> [gen : Nat \ {0}, content : Content]]
  BY DEF TypeOK
<1>2. live' = [live EXCEPT ![o] = [gen |-> live[o].gen + 1, content |-> content]]
  BY DEF Written, Request
<1>3. /\ live' \in [Object -> [gen : Nat \ {0}, content : Content]]
      /\ live'[o].gen = g + 1 /\ live'[o].content = content
      /\ \A x \in Object \ {o} : live'[x] = live[x]
  BY <1>1, <1>2
<1>4. ASSUME NEW x \in Object, NEW n \in Nat, Known(x, n) PROVE Known(x, n)'
  <2>1. live[x].gen \in Nat /\ live[o].gen \in Nat
    BY <1>1
  <2> QED
    BY <1>3, <1>4, <2>1 DEF Known
<1> QED
  BY <1>3, <1>4

LEMMA KnownAllKept ==
  ASSUME NEW record \in LedgerType, KnownAll(record),
         \A x \in Object, n \in Nat : Known(x, n) => Known(x, n)'
  PROVE  KnownAll(record)'
<1>1. \A o \in Object : record.applied[o] \in Nat
  BY DEF LedgerType
<1> QED
  BY <1>1 DEF KnownAll, Known

\* Nothing that is noted of the bucket is about an object that a write makes foreign.
LEMMA WriteKeepsNoted ==
  ASSUME RemediationAssumption, NotedInv, NEW o \in Object, NEW content \in Content,
         live' = Written(Request(o, live[o].gen, content)), UNCHANGED <<plan, ledger>>
  PROVE  /\ KnownAll(ledger)' /\ \A x \in Object : Known(x, plan[x])'
         /\ \A q \in Operator : proc'[q] = proc[q] => ProcNoted(q)'
         /\ \A r \in inFlight : Known(r.object, r.gen)'
<1>1. \A x \in Object, n \in Nat : Known(x, n) => Known(x, n)'
  BY WrittenStep DEF NotedInv
<1>2. TypeOK /\ ledger \in LedgerType /\ Noted /\ \A x \in Object : plan[x] \in Nat
  BY TypeFacts DEF NotedInv
<1>3. KnownAll(ledger)'
  BY <1>1, <1>2, KnownAllKept DEF Noted, KnownAll, Known
<1>4. \A x \in Object : Known(x, plan[x])'
  BY <1>1, <1>2 DEF Noted, Known
<1>5. ASSUME NEW q \in Operator, proc'[q] = proc[q] PROVE ProcNoted(q)'
  <2>1. ProcNoted(q) /\ proc[q] \in ProcType
    BY <1>2, TypeFacts DEF Noted
  <2>2. proc[q].ledger \in LedgerType /\ proc[q].gen \in Nat
    BY <2>1 DEF ProcType
  <2>3. KnownAll(proc[q].ledger)'
    BY <1>1, <1>5, <2>1, <2>2, KnownAllKept DEF ProcNoted, KnownAll, Known
  <2>4. proc[q].pc \in {"uploaded", "restore"} => proc[q].at \in Object /\ Known(proc[q].at, proc[q].gen)
    BY <2>1 DEF ProcNoted, PC
  <2>5. proc[q].pc \in {"uploaded", "restore"} => Known(proc[q].at, proc[q].gen)'
    BY <1>1, <1>5, <2>2, <2>4 DEF Known
  <2> QED
    BY <1>5, <2>1, <2>3, <2>5 DEF ProcNoted
<1>6. ASSUME NEW r \in inFlight PROVE Known(r.object, r.gen)'
  <2>1. Known(r.object, r.gen) /\ r.object \in Object /\ r.gen \in Nat
    BY <1>2 DEF Noted, TypeOK
  <2> QED
    BY <1>1, <2>1 DEF Known
<1> QED
  BY <1>3, <1>4, <1>5, <1>6

\* A command writes: its request matched, and it notes the generation it wrote.
LEMMA CommandWrites ==
  ASSUME RemediationAssumption, NotedInv, NEW p \in Operator, NEW pc, NEW content, NEW g \in Nat,
         \/ proc[p].pc = "upload" /\ pc = "uploaded" /\ content = "staged"
         \/ proc[p].pc = "restore" /\ pc = "restored" /\ content = "original",
         g = live[proc[p].at].gen,
         live' = Written(Request(proc[p].at, g, content)),
         proc' = [proc EXCEPT ![p].pc = pc, ![p].gen = g + 1],
         UNCHANGED <<ledger, plan, inFlight, touched, reset, faults>>
  PROVE  NotedInv' /\ (Recorded => Recorded')
<1> DEFINE o == proc[p].at
<1> DEFINE next == [proc[p] EXCEPT !.pc = pc, !.gen = g + 1]
<1>1. TypeOK /\ ProcNoted(p) /\ proc[p] \in ProcType /\ proc \in [Operator -> ProcType]
      /\ ledger \in LedgerType
  BY TypeFacts DEF NotedInv, Noted
<1>2. o \in Object
  BY <1>1 DEF ProcNoted, PC
<1>3. /\ next \in ProcType /\ next.pc = pc /\ next.gen = g + 1 /\ next.at = o
      /\ next.ledger = proc[p].ledger
  <2>1. pc \in PC /\ g + 1 \in Nat
    BY DEF PC
  <2> QED
    BY <1>1, <2>1 DEF ProcType
<1>4. proc' = [proc EXCEPT ![p] = next]
  BY <1>1 DEF ProcType
<1>5. content \in Content
  BY DEF Content
<1> HIDE DEF next, o
<1>6. /\ live' \in [Object -> [gen : Nat \ {0}, content : Content]]
      /\ live'[o].gen = g + 1 /\ live'[o].content = content
      /\ \A x \in Object \ {o} : live'[x] = live[x]
      /\ \A x \in Object, n \in Nat : Known(x, n) => Known(x, n)'
  BY <1>1, <1>2, <1>5, WrittenStep DEF o
<1>7. TypeOK' /\ proc'[p] = next /\ \A q \in Operator \ {p} : proc'[q] = proc[q]
  <2>1. /\ inFlight' \subseteq [object : Object, gen : Nat, content : Content]
        /\ reset' \in BOOLEAN /\ faults' \in 0 .. MaxFaults /\ ledger' \in LedgerType
    BY <1>1 DEF TypeOK
  <2> QED
    BY <1>1, <1>3, <1>4, <1>6, <2>1, TypeStep
<1>8. /\ KnownAll(ledger)' /\ \A x \in Object : Known(x, plan[x])'
      /\ \A q \in Operator \ {p} : ProcNoted(q)'
      /\ \A r \in inFlight' : Known(r.object, r.gen)'
  BY <1>2, <1>5, <1>7, WriteKeepsNoted DEF o
<1>9. ProcNoted(p)'
  <2>1. KnownAll(proc[p].ledger)'
    BY <1>1, <1>3, <1>6, <1>7, KnownAllKept DEF ProcNoted, KnownAll, Known, ProcType
  <2>2. live'[o].gen = g + 1 /\ live'[o].content # "foreign" /\ g + 1 <= g + 1
    BY <1>6
  <2>3. Known(proc[p].at, proc[p].gen)'
    BY <1>3, <1>7, <2>2 DEF Known
  <2> QED
    BY <1>2, <1>3, <1>7, <2>1, <2>3 DEF ProcNoted
<1>10. ASSUME Recorded PROVE Recorded'
  <2>1. ProcRecorded(p) /\ Mutated(ledger)' = Mutated(ledger)
    BY <1>10 DEF Recorded, Mutated
  <2>2. content = "staged" => o \in Mutated(ledger)
    BY <2>1 DEF ProcRecorded, o
  <2>3. \A x \in Object : live'[x].content = "staged" => x \in Mutated(ledger)'
    BY <1>6, <1>10, <2>1, <2>2 DEF Recorded
  <2>4. g + 1 # NoGen
    BY DEF NoGen
  <2>5. ProcRecorded(p)'
    <3>1. next.pc \in ApplyPC => proc[p].pc \in ApplyPC
      BY <1>3 DEF ApplyPC
    <3>2. next.pc \notin QuietPC /\ proc[p].pc \notin QuietPC
      BY <1>3 DEF QuietPC
    <3>3. next.pc = "uploaded" => o \in Mutated(ledger)
      BY <1>3, <2>2
    <3>4. Alone(p) => Alone(p)'
      BY <1>7 DEF Alone
    <3>5. next.pc # "upload" /\ Mutated(next.ledger) = Mutated(proc[p].ledger)
      BY <1>3
    <3> QED
      BY <1>3, <1>7, <2>1, <2>4, <3>1, <3>2, <3>3, <3>4, <3>5 DEF ProcRecorded, Mutated
  <2>6. ASSUME NEW q \in Operator \ {p} PROVE ProcRecorded(q)'
    <3>1. proc[q].pc \notin ApplyPC /\ ProcRecorded(q)
      BY <1>10 DEF Recorded, ProcRecorded, Alone, QuietPC
    <3> QED
      BY <1>7, <3>1 DEF ProcRecorded, ApplyPC, Mutated
  <2> QED
    BY <1>10, <2>1, <2>3, <2>5, <2>6 DEF Recorded
<1> QED
  BY <1>7, <1>8, <1>9, <1>10 DEF NotedInv, Noted

\* Nobody's command writes: a late request, or somebody else.
LEMMA OthersWrite ==
  ASSUME RemediationAssumption, NotedInv, NEW o \in Object, NEW content \in Content,
         live' = Written(Request(o, live[o].gen, content)), UNCHANGED <<plan, ledger, proc, reset>>,
         inFlight' \subseteq inFlight, touched' = touched \cup {o}, faults' \in 0 .. MaxFaults
  PROVE  /\ NotedInv'
         /\ Recorded /\ (content = "staged" => o \in Mutated(ledger)) => Recorded'
<1>1. /\ live' \in [Object -> [gen : Nat \ {0}, content : Content]]
      /\ live'[o].content = content
      /\ \A x \in Object \ {o} : live'[x] = live[x]
  BY WrittenStep DEF NotedInv
<1>2. TypeOK'
  BY <1>1 DEF NotedInv, TypeOK
<1>3. NotedInv'
  BY <1>2, WriteKeepsNoted DEF NotedInv, Noted
<1>4. ASSUME Recorded, content = "staged" => o \in Mutated(ledger) PROVE Recorded'
  BY <1>1, <1>4 DEF Recorded, ProcRecorded, Mutated, Alone
<1> QED
  BY <1>3, <1>4

-----------------------------------------------------------------------------
(* The operations.                                                         *)

LEMMA InitInv ==
  ASSUME RemediationAssumption, Init
  PROVE  RemedyInv
<1>1. NoPlan \in [Object -> Nat] /\ Idle \in ProcType
  BY EmptyLedger, Sizes DEF NoPlan, NoGen, ProcType, PC, Idle
<1>2. TypeOK
  <2>1. reset \in BOOLEAN
    BY Zenon DEF Init
  <2> QED
    BY <1>1, <2>1, EmptyLedger, Sizes DEF Init, TypeOK, Content, ProcType, PC
<1>3. KnownAll(NoLedger) /\ \A o \in Object : Known(o, plan[o])
  BY <1>2, NothingNoted DEF Init, Known, NoPlan, NoGen
<1>4. Noted
  BY <1>3 DEF Init, Noted, ProcNoted, Idle
<1>5. Recorded
  BY DEF Init, Recorded, ProcRecorded, Idle, QuietPC, ApplyPC
<1> QED
  BY <1>2, <1>4, <1>5 DEF RemedyInv

LEMMA PlanInv ==
  ASSUME RemediationAssumption, NotedInv, NEW p \in Operator, Plan(p)
  PROVE  NotedInv' /\ (Recorded => Recorded')
<1>1. TypeOK'
  BY DEF NotedInv, TypeOK, Plan
<1>2. \A o \in Object : Known(o, plan[o])'
  BY <1>1, TypeFacts DEF Plan, Known, NotedInv
<1>3. Noted'
  BY <1>2 DEF NotedInv, Noted, Plan, ProcNoted, KnownAll, Known
<1>4. Recorded => Recorded'
  BY DEF Recorded, Plan, ProcRecorded, Mutated, Alone
<1> QED
  BY <1>1, <1>3, <1>4 DEF NotedInv

LEMMA StartApplyInv ==
  ASSUME RemediationAssumption, NotedInv, NEW p \in Operator, StartApply(p)
  PROVE  NotedInv' /\ (Recorded => Recorded')
<1> DEFINE next == [proc[p] EXCEPT !.pc = "begin"]
<1>1. proc \in [Operator -> ProcType] /\ proc[p] \in ProcType
  BY TypeFacts DEF NotedInv
<1>2. /\ next \in ProcType /\ next.pc = "begin" /\ next.ledger = proc[p].ledger
      /\ proc' = [proc EXCEPT ![p] = next]
  BY <1>1 DEF StartApply, ProcType, PC
<1>3. UNCHANGED <<live, plan, ledger, inFlight, touched, reset, faults>>
  BY DEF StartApply
<1> HIDE DEF next
<1>4. NotedInv'
  BY <1>2, <1>3, MoveNoted
<1>5. ASSUME Recorded PROVE Recorded'
  BY <1>2, <1>3, <1>5, MoveRecorded DEF RemedyInv, NotedInv, QuietPC, ApplyPC
<1> QED
  BY <1>4, <1>5

\* The fresh ledger replaces that of another apply, or all are quiet.
LEMMA BeginApplyInv ==
  ASSUME RemediationAssumption, NotedInv, NEW p \in Operator, BeginApply(p)
  PROVE  NotedInv' /\ (Recorded /\ ~reset' => Recorded')
<1>1. Save(p, "pending", 1, Fresh) /\ UNCHANGED <<live, plan, inFlight, touched>>
  BY DEF BeginApply
<1>2. reset' \in BOOLEAN /\ faults' \in 0 .. MaxFaults
  <2>1. faults' \in 0 .. MaxFaults
    BY Sizes DEF BeginApply, Fault, NotedInv, TypeOK
  <2>2. reset' = reset \/ reset' = TRUE
    BY DEF BeginApply
  <2>3. reset' \in BOOLEAN
    BY <2>2, Zenon DEF NotedInv, TypeOK
  <2> QED
    BY <2>1, <2>3
<1>3. /\ Mutated(Fresh) = {} /\ Mutated(NoLedger) = {} /\ Fresh \in LedgerType
      /\ Fresh.status = "APPLYING" /\ KnownAll(Fresh)
  BY EmptyLedger, NothingNoted DEF NotedInv
<1>4. 1 \in Object /\ 1 \in 0 .. DatasetManifest + 1 /\ "pending" \in PC
  BY Sizes DEF PC
<1>5. NotedInv'
  BY <1>1, <1>2, <1>3, <1>4, SaveNoted
<1>6. ASSUME Recorded, ~reset' PROVE Recorded'
  <2>1. ledger = NoLedger
    BY <1>6 DEF BeginApply
  <2>2. \A q \in Operator : proc[q].pc \in QuietPC /\ proc[q].pc \notin ApplyPC
    BY <1>6, <2>1 DEF Recorded, ProcRecorded, NoLedger, QuietPC, ApplyPC
  <2> QED
    BY <1>1, <1>3, <1>4, <1>6, <2>1, <2>2, SaveRecorded DEF RemedyInv, NotedInv, Alone, QuietPC
<1> QED
  BY <1>5, <1>6

\* What a command has noted before each of its steps.
LEMMA Works ==
  ASSUME RemediationAssumption, NotedInv, NEW p \in Operator, proc[p].pc \notin QuietPC
  PROVE  /\ proc[p] \in ProcType /\ proc[p].ledger \in LedgerType /\ proc[p].gen \in Nat
         /\ KnownAll(proc[p].ledger)
         /\ proc[p].pc \notin {"finish", "verify"} => proc[p].at \in Object
         /\ proc[p].pc \in {"uploaded", "restore"} => Known(proc[p].at, proc[p].gen)
  BY TypeFacts DEF NotedInv, Noted, ProcNoted, ProcType, QuietPC, PC

\* What a command of the two kinds knows besides, while no ledger was reset.
LEMMA Applies ==
  ASSUME RemediationAssumption, RemedyInv, NEW p \in Operator, proc[p].pc \in ApplyPC
  PROVE  /\ proc[p] \in ProcType /\ proc[p].ledger \in LedgerType /\ ProcRecorded(p)
         /\ proc[p].ledger.status = "APPLYING" /\ KnownAll(proc[p].ledger)
         /\ Mutated(proc[p].ledger) = Mutated(ledger) /\ Alone(p)
         /\ \A q \in Operator \ {p} : proc[q].pc \in QuietPC /\ proc[q].pc \notin ApplyPC
         /\ proc[p].pc # "finish" => proc[p].at \in Object
         /\ proc[p].gen \in Nat /\ proc[p].pc \notin QuietPC
<1>1. NotedInv /\ proc[p].pc \notin QuietPC /\ (proc[p].pc # "finish" => proc[p].pc \notin {"finish", "verify"})
  BY DEF RemedyInv, NotedInv, ApplyPC, QuietPC
<1> QED
  BY <1>1, Works DEF RemedyInv, Recorded, ProcRecorded, Alone, ApplyPC, QuietPC

LEMMA Rolls ==
  ASSUME RemediationAssumption, RemedyInv, NEW p \in Operator,
         proc[p].pc \in {"look", "restore", "restored", "verify"}
  PROVE  /\ proc[p] \in ProcType /\ proc[p].ledger \in LedgerType /\ ProcRecorded(p)
         /\ proc[p].ledger.status # "NONE" /\ KnownAll(proc[p].ledger)
         /\ Mutated(proc[p].ledger) = Mutated(ledger)
         /\ \A q \in Operator \ {p} : proc[q].pc \notin ApplyPC
         /\ proc[p].pc # "verify" => proc[p].at \in Object
         /\ proc[p].gen \in Nat /\ proc[p].pc \notin QuietPC
<1>1. NotedInv /\ proc[p].pc \notin QuietPC /\ (proc[p].pc # "verify" => proc[p].pc \notin {"finish", "verify"})
  BY DEF RemedyInv, NotedInv, QuietPC
<1> QED
  BY <1>1, Works DEF RemedyInv, Recorded, ProcRecorded, Alone, ApplyPC, QuietPC

LEMMA RecordPendingInv ==
  ASSUME RemediationAssumption, NotedInv, NEW p \in Operator, RecordPending(p)
  PROVE  NotedInv' /\ (Recorded => Recorded')
<1> DEFINE o == proc[p].at
<1> DEFINE record == proc[p].ledger
<1> DEFINE known == [record EXCEPT !.pending = @ \cup {o}]
<1>1. proc[p].pc \in ApplyPC /\ proc[p].pc \notin QuietPC /\ proc[p].pc = "pending"
  BY DEF RecordPending, ApplyPC, QuietPC
<1>2. /\ Save(p, "upload", o, known)
      /\ UNCHANGED <<live, plan, inFlight, touched>> /\ UNCHANGED <<reset, faults>>
  BY DEF RecordPending
<1>3. o \in Object /\ record \in LedgerType /\ KnownAll(record)
  BY <1>1, Works
<1>4. /\ known \in LedgerType /\ Mutated(known) = Mutated(record) \cup {o}
      /\ known.applied = record.applied /\ known.status = record.status
  BY <1>3, NewPending
<1> HIDE DEF known, o
<1>5. KnownAll(known)
  BY <1>3, <1>4 DEF KnownAll
<1>6. o \in 0 .. DatasetManifest + 1 /\ "upload" \in PC
  BY <1>3, Sizes DEF PC
<1>7. NotedInv'
  BY <1>2, <1>3, <1>4, <1>5, <1>6, SaveNoted DEF NotedInv, TypeOK
<1>8. ASSUME Recorded PROVE Recorded'
  <2>1. RemedyInv
    BY <1>8 DEF RemedyInv, NotedInv
  <2>2. /\ Alone(p) /\ \A q \in Operator \ {p} : proc[q].pc \notin ApplyPC
        /\ known.status = "APPLYING"
        /\ Mutated(ledger) \subseteq Mutated(known) /\ o \in Mutated(known)
    BY <1>1, <1>4, <2>1, Applies
  <2> QED
    BY <1>2, <1>4, <1>6, <2>1, <2>2, SaveRecorded DEF QuietPC
<1> QED
  BY <1>7, <1>8

LEMMA UploadInv ==
  ASSUME RemediationAssumption, NotedInv, NEW p \in Operator, Upload(p)
  PROVE  NotedInv' /\ (Recorded => Recorded')
<1> DEFINE o == proc[p].at
<1>1. proc[p].pc = "upload" /\ proc[p].pc \notin QuietPC
  BY DEF Upload, QuietPC
<1>2. o \in Object /\ plan[o] \in Nat
  BY <1>1, Works, TypeFacts DEF NotedInv
<1>3. CASE Matches(Request(o, plan[o], "staged"))
  <2>1. plan[o] = live[o].gen
    BY <1>3 DEF Matches, Request
  <2>2. /\ live' = Written(Request(o, plan[o], "staged"))
        /\ proc' = [proc EXCEPT ![p].pc = "uploaded", ![p].gen = plan[o] + 1]
        /\ UNCHANGED <<ledger, plan, inFlight, touched, reset, faults>>
    BY <1>3 DEF Upload, Request
  <2> QED
    BY <1>1, <1>2, <2>1, <2>2, CommandWrites
<1>4. CASE ~ Matches(Request(o, plan[o], "staged"))
  <2>1. Stop(p, "FAILED") /\ UNCHANGED <<live, plan, inFlight, touched, reset, faults>>
    BY <1>4 DEF Upload
  <2> QED
    BY <1>1, <2>1, EndNoted, EndRecorded DEF Stop, NotedInv, RemedyInv, TypeOK
<1> QED
  BY <1>3, <1>4

LEMMA ConfirmInv ==
  ASSUME RemediationAssumption, NotedInv, NEW p \in Operator, Confirm(p)
  PROVE  NotedInv' /\ (Recorded => Recorded')
<1> DEFINE o == proc[p].at
<1> DEFINE record == proc[p].ledger
<1> DEFINE g == proc[p].gen
<1> DEFINE known == [record EXCEPT !.pending = @ \ {o}, !.applied[o] = g]
<1>1. proc[p].pc \in ApplyPC /\ proc[p].pc \notin QuietPC /\ proc[p].pc = "uploaded"
  BY DEF Confirm, ApplyPC, QuietPC
<1>2. /\ Save(p, AfterApplied(o), o + 1, known)
      /\ UNCHANGED <<live, plan, inFlight, touched>> /\ UNCHANGED <<reset, faults>>
  BY DEF Confirm
<1>3. o \in Object /\ record \in LedgerType /\ g \in Nat /\ KnownAll(record) /\ Known(o, g)
  BY <1>1, Works
<1>4. known = [record EXCEPT !.pending = @ \ {o}, !.applied[o] = g]
  OBVIOUS
<1> HIDE DEF known, o, record, g
<1>5. /\ known \in LedgerType /\ known.pending = record.pending \ {o}
      /\ known.applied = [record.applied EXCEPT ![o] = g] /\ known.status = record.status
  BY <1>3, <1>4 DEF LedgerType
<1>6. KnownAll(known)
  <2>1. \A x \in Object : known.applied[x] = IF x = o THEN g ELSE record.applied[x]
    BY <1>3, <1>5 DEF LedgerType
  <2> QED
    BY <1>3, <2>1 DEF KnownAll
<1>7. /\ AfterApplied(o) \in {"rebuild", "finish", "pending"}
      /\ o + 1 \in 0 .. DatasetManifest + 1
      /\ AfterApplied(o) # "finish" => o + 1 \in Object
  BY <1>3, Sizes DEF AfterApplied
<1>8. AfterApplied(o) \in PC /\ AfterApplied(o) \notin QuietPC \cup {"uploaded", "restore", "upload"}
  BY <1>7 DEF PC, QuietPC
<1>9. NotedInv'
  BY <1>2, <1>5, <1>6, <1>7, <1>8, SaveNoted DEF NotedInv, TypeOK
<1>10. ASSUME Recorded PROVE Recorded'
  <2>1. RemedyInv
    BY <1>10 DEF RemedyInv, NotedInv
  <2>2. /\ Alone(p) /\ \A q \in Operator \ {p} : proc[q].pc \notin ApplyPC
        /\ record.status = "APPLYING" /\ Mutated(record) = Mutated(ledger)
        /\ o \in Mutated(record) /\ g # NoGen
    BY <1>1, <2>1, Applies DEF ProcRecorded, o, g, record
  <2>3. Mutated(known) = Mutated(ledger)
    BY <1>3, <1>5, <2>2, NewApplied
  <2> QED
    BY <1>2, <1>5, <1>8, <2>1, <2>2, <2>3, SaveRecorded
<1> QED
  BY <1>9, <1>10

LEMMA RebuildInv ==
  ASSUME RemediationAssumption, NotedInv, NEW p \in Operator, Rebuild(p)
  PROVE  NotedInv' /\ (Recorded => Recorded')
<1>1. /\ proc[p].pc \in ApplyPC /\ proc[p].pc \notin QuietPC /\ proc[p].pc = "rebuild"
      /\ UNCHANGED <<live, plan, inFlight, touched, reset, faults>>
  BY DEF Rebuild, ApplyPC, QuietPC
<1>2. CASE proc' = [proc EXCEPT ![p].pc = "pending"] /\ UNCHANGED ledger
  <2> DEFINE next == [proc[p] EXCEPT !.pc = "pending"]
  <2>1. /\ next \in ProcType /\ next.pc = "pending" /\ next.ledger = proc[p].ledger
        /\ next.at \in Object
    BY <1>1, Works DEF ProcType, PC
  <2>2. proc' = [proc EXCEPT ![p] = next]
    BY <1>1, <1>2, TypeFacts DEF ProcType, NotedInv
  <2> HIDE DEF next
  <2>3. NotedInv'
    BY <1>1, <1>2, <2>1, <2>2, MoveNoted
  <2>4. ASSUME Recorded PROVE Recorded'
    BY <1>1, <1>2, <2>1, <2>2, <2>4, MoveRecorded DEF RemedyInv, NotedInv
  <2> QED
    BY <2>3, <2>4
<1>3. CASE Stop(p, "FAILED")
  BY <1>1, <1>3, EndNoted, EndRecorded DEF Stop, NotedInv, RemedyInv, TypeOK
<1> QED
  BY <1>2, <1>3 DEF Rebuild

LEMMA FinishApplyInv ==
  ASSUME RemediationAssumption, NotedInv, NEW p \in Operator, FinishApply(p)
  PROVE  NotedInv' /\ (Recorded => Recorded')
<1>1. proc[p].pc \notin QuietPC
  BY DEF FinishApply, QuietPC
<1> QED
  BY <1>1, EndNoted, EndRecorded DEF FinishApply, Stop, NotedInv, RemedyInv, TypeOK

LEMMA Proceeds ==
  ASSUME RemediationAssumption, NEW record \in LedgerType, NEW o \in Int
  PROVE  /\ Proceed(record, o) \in {"verify", "look"}
         /\ NextMutation(record, o) \in 0 .. DatasetManifest + 1
         /\ Proceed(record, o) = "look" => NextMutation(record, o) \in Object
<1>1. NextMutation(record, o) \in 0 .. DatasetManifest
      /\ (NextMutation(record, o) # 0 => NextMutation(record, o) \in Object)
  BY NextMutationType
<1> QED
  BY <1>1, Sizes DEF Proceed

\* A rollback saves what it knows and looks at the next mutation.
LEMMA ProceedStep ==
  ASSUME RemediationAssumption, NotedInv, NEW p \in Operator, NEW record \in LedgerType, NEW o \in Int,
         Save(p, Proceed(record, o), NextMutation(record, o), record),
         UNCHANGED <<live, plan, inFlight, touched, reset, faults>>, KnownAll(record)
  PROVE  /\ NotedInv'
         /\ /\ Recorded /\ record.status # "NONE" /\ Mutated(record) = Mutated(ledger)
            /\ \A q \in Operator \ {p} : proc[q].pc \notin ApplyPC
            => Recorded'
<1>1. /\ Proceed(record, o) \in {"verify", "look"}
      /\ NextMutation(record, o) \in 0 .. DatasetManifest + 1
      /\ Proceed(record, o) = "look" => NextMutation(record, o) \in Object
  BY Proceeds
<1>2. Proceed(record, o) \in PC /\ Proceed(record, o) \notin ApplyPC
      /\ Proceed(record, o) \notin QuietPC \cup {"uploaded", "restore"}
  BY <1>1 DEF PC, ApplyPC, QuietPC
<1>3. NotedInv'
  BY <1>1, <1>2, SaveNoted DEF NotedInv, TypeOK
<1>4. ASSUME Recorded, record.status # "NONE", Mutated(record) = Mutated(ledger),
             \A q \in Operator \ {p} : proc[q].pc \notin ApplyPC
      PROVE  Recorded'
  <2>1. Proceed(record, o) # "upload"
    BY <1>1
  <2> QED
    BY <1>2, <1>4, <2>1, SaveRecorded DEF RemedyInv, NotedInv
<1> QED
  BY <1>3, <1>4

LEMMA StartRollbackInv ==
  ASSUME RemediationAssumption, NotedInv, NEW p \in Operator, StartRollback(p)
  PROVE  NotedInv' /\ (Recorded => Recorded')
<1> DEFINE record == Status(ledger, "ROLLING_BACK")
<1>1. ledger \in LedgerType /\ KnownAll(ledger) /\ ledger.status # "APPLYING"
  BY TypeFacts DEF NotedInv, Noted, StartRollback, Accepted
<1>2. /\ record \in LedgerType /\ record.status = "ROLLING_BACK"
      /\ Mutated(record) = Mutated(ledger) /\ record.applied = ledger.applied
  BY <1>1, NewStatus
<1>3. Recorded => \A q \in Operator : proc[q].pc \notin ApplyPC
  BY <1>1 DEF Recorded, ProcRecorded
<1>4. KnownAll(record)
  BY <1>1, <1>2 DEF KnownAll
<1>5. /\ Save(p, Proceed(record, 0), NextMutation(record, 0), record)
      /\ UNCHANGED <<live, plan, inFlight, touched, reset, faults>>
  BY DEF StartRollback
<1> HIDE DEF record
<1> QED
  BY <1>2, <1>3, <1>4, <1>5, ProceedStep

\* What a step of a rollback keeps of what is recorded.
LEMMA RollsOn ==
  ASSUME RemediationAssumption, NotedInv, Recorded, NEW p \in Operator, proc[p].pc \in {"look", "restore", "restored", "verify"}
  PROVE  /\ RemedyInv /\ proc[p].ledger.status # "NONE" /\ Mutated(proc[p].ledger) = Mutated(ledger)
         /\ \A q \in Operator \ {p} : proc[q].pc \notin ApplyPC
  BY Rolls DEF RemedyInv, NotedInv

LEMMA LookInv ==
  ASSUME RemediationAssumption, NotedInv, NEW p \in Operator, Look(p)
  PROVE  NotedInv' /\ (Recorded => Recorded')
<1> DEFINE o == proc[p].at
<1> DEFINE record == proc[p].ledger
<1> DEFINE known == [record EXCEPT !.restored[o] = live[o].gen]
<1>1. /\ proc[p].pc = "look" /\ proc[p].pc \notin QuietPC
      /\ UNCHANGED <<live, plan, inFlight, touched, reset, faults>>
  BY DEF Look, QuietPC
<1>2. proc[p] \in ProcType /\ record \in LedgerType /\ o \in Object /\ KnownAll(record)
  BY <1>1, Works
<1>3. o \in Int /\ live[o].gen \in Nat
  BY <1>2, Sizes, TypeFacts DEF NotedInv
<1>4. CASE Stop(p, "ROLLBACK_FAILED")
  BY <1>1, <1>4, EndNoted, EndRecorded DEF Stop, NotedInv, RemedyInv, TypeOK
<1>5. CASE /\ proc' = [proc EXCEPT ![p].pc = Proceed(record, o), ![p].at = NextMutation(record, o)]
           /\ UNCHANGED ledger
  <2> DEFINE next == [proc[p] EXCEPT !.pc = Proceed(record, o), !.at = NextMutation(record, o)]
  <2>1. /\ Proceed(record, o) \in {"verify", "look"}
        /\ Proceed(record, o) = "look" => NextMutation(record, o) \in Object
        /\ NextMutation(record, o) \in 0 .. DatasetManifest + 1
    BY <1>2, <1>3, Proceeds
  <2>2. /\ next \in ProcType /\ next.pc = Proceed(record, o) /\ next.at = NextMutation(record, o)
        /\ next.ledger = record
    BY <1>2, <2>1 DEF ProcType, PC
  <2>3. proc' = [proc EXCEPT ![p] = next]
    BY <1>2, <1>5, TypeFacts DEF ProcType, NotedInv
  <2> HIDE DEF next, o
  <2>4. NotedInv'
    BY <1>1, <1>5, <2>1, <2>2, <2>3, MoveNoted
  <2>5. ASSUME Recorded PROVE Recorded'
    BY <1>1, <1>5, <2>1, <2>2, <2>3, <2>5, MoveRecorded DEF ApplyPC, RemedyInv, NotedInv
  <2> QED
    BY <2>4, <2>5
<1>6. CASE /\ WasApplied(record, o)
           /\ proc' = [proc EXCEPT ![p].pc = "restore", ![p].gen = live[o].gen]
           /\ UNCHANGED ledger
  <2> DEFINE next == [proc[p] EXCEPT !.pc = "restore", !.gen = live[o].gen]
  <2>1. /\ next \in ProcType /\ next.pc = "restore" /\ next.gen = live[o].gen /\ next.at = o
        /\ next.ledger = record
    BY <1>2, <1>3 DEF ProcType, PC
  <2>2. proc' = [proc EXCEPT ![p] = next]
    BY <1>2, <1>6, TypeFacts DEF ProcType, NotedInv
  <2>3. Known(o, live[o].gen)
    BY <1>2, <1>3, <1>6 DEF WasApplied, KnownAll, Known
  <2> HIDE DEF next, o
  <2>4. NotedInv'
    BY <1>1, <1>2, <1>6, <2>1, <2>2, <2>3, MoveNoted
  <2>5. ASSUME Recorded PROVE Recorded'
    BY <1>1, <1>6, <2>1, <2>2, <2>5, MoveRecorded DEF ApplyPC, RemedyInv, NotedInv
  <2> QED
    BY <2>4, <2>5
<1>7. CASE Save(p, Proceed(known, o), NextMutation(known, o), known)
  <2>1. known = [record EXCEPT !.restored[o] = live[o].gen]
    OBVIOUS
  <2>2. Recorded => /\ record.status # "NONE" /\ Mutated(record) = Mutated(ledger)
                    /\ \A q \in Operator \ {p} : proc[q].pc \notin ApplyPC
    BY <1>1, RollsOn
  <2> HIDE DEF known, record, o
  <2>3. /\ known \in LedgerType /\ Mutated(known) = Mutated(record)
        /\ known.applied = record.applied /\ known.status = record.status
    BY <1>2, <1>3, <2>1, NewRestored
  <2>4. KnownAll(known)
    BY <1>2, <2>3 DEF KnownAll
  <2> QED
    BY <1>1, <1>3, <1>7, <2>2, <2>3, <2>4, ProceedStep
<1>8. CASE record.restored[o] # NoGen
  BY <1>4, <1>5, <1>8 DEF Look
<1>9. CASE record.restored[o] = NoGen
  BY <1>4, <1>6, <1>7, <1>9 DEF Look
<1> QED
  BY <1>8, <1>9

LEMMA RestoreInv ==
  ASSUME RemediationAssumption, NotedInv, NEW p \in Operator, Restore(p)
  PROVE  NotedInv' /\ (Recorded => Recorded')
<1> DEFINE o == proc[p].at
<1> DEFINE g == proc[p].gen
<1>1. proc[p].pc = "restore" /\ proc[p].pc \notin QuietPC
  BY DEF Restore, QuietPC
<1>2. o \in Object /\ g \in Nat
  BY <1>1, Works
<1>3. CASE Matches(Request(o, g, "original"))
  <2>1. g = live[o].gen
    BY <1>3 DEF Matches, Request
  <2>2. /\ live' = Written(Request(o, g, "original"))
        /\ proc' = [proc EXCEPT ![p].pc = "restored", ![p].gen = g + 1]
        /\ UNCHANGED <<ledger, plan, inFlight, touched, reset, faults>>
    BY <1>3 DEF Restore, Request
  <2> HIDE DEF g
  <2> QED
    BY <1>1, <1>2, <2>1, <2>2, CommandWrites
<1>4. CASE ~ Matches(Request(o, g, "original"))
  <2>1. Stop(p, "ROLLBACK_FAILED") /\ UNCHANGED <<live, plan, inFlight, touched, reset, faults>>
    BY <1>4 DEF Restore
  <2> QED
    BY <1>1, <2>1, EndNoted, EndRecorded DEF Stop, NotedInv, RemedyInv, TypeOK
<1> QED
  BY <1>3, <1>4

LEMMA RecordRestoredInv ==
  ASSUME RemediationAssumption, NotedInv, NEW p \in Operator, RecordRestored(p)
  PROVE  NotedInv' /\ (Recorded => Recorded')
<1> DEFINE o == proc[p].at
<1> DEFINE record == proc[p].ledger
<1> DEFINE known == [record EXCEPT !.restored[o] = proc[p].gen]
<1>1. /\ proc[p].pc = "restored" /\ proc[p].pc \notin QuietPC
      /\ UNCHANGED <<live, plan, inFlight, touched, reset, faults>>
      /\ Save(p, Proceed(known, o), NextMutation(known, o), known)
  BY DEF RecordRestored, QuietPC
<1>2. /\ record \in LedgerType /\ o \in Object /\ o \in Int /\ KnownAll(record) /\ proc[p].gen \in Nat
  BY <1>1, Works, Sizes
<1>3. Recorded => /\ record.status # "NONE" /\ Mutated(record) = Mutated(ledger)
                  /\ \A q \in Operator \ {p} : proc[q].pc \notin ApplyPC
  BY <1>1, RollsOn
<1>4. known = [record EXCEPT !.restored[o] = proc[p].gen]
  OBVIOUS
<1> HIDE DEF known, record, o
<1>5. /\ known \in LedgerType /\ Mutated(known) = Mutated(record)
      /\ known.applied = record.applied /\ known.status = record.status
  BY <1>2, <1>4, NewRestored
<1>6. KnownAll(known)
  BY <1>2, <1>5 DEF KnownAll
<1> QED
  BY <1>1, <1>2, <1>3, <1>5, <1>6, ProceedStep

LEMMA SaveRolledBackInv ==
  ASSUME RemediationAssumption, NotedInv, NEW p \in Operator, SaveRolledBack(p)
  PROVE  NotedInv' /\ (Recorded => Recorded')
<1> DEFINE record == Status(proc[p].ledger, "ROLLED_BACK")
<1>1. /\ proc[p].pc = "verify" /\ proc[p].pc \notin QuietPC
      /\ UNCHANGED <<live, plan, inFlight, touched, reset, faults>>
      /\ Save(p, "verify", 0, record)
  BY DEF SaveRolledBack, QuietPC
<1>2. proc[p].ledger \in LedgerType /\ KnownAll(proc[p].ledger)
  BY <1>1, Works
<1>3. /\ record \in LedgerType /\ Mutated(record) = Mutated(proc[p].ledger)
      /\ record.applied = proc[p].ledger.applied /\ record.status = "ROLLED_BACK"
  BY <1>2, NewStatus
<1> HIDE DEF record
<1>4. KnownAll(record)
  BY <1>2, <1>3 DEF KnownAll
<1>5. /\ "verify" \in PC /\ "verify" \notin ApplyPC /\ "verify" \notin QuietPC
      /\ 0 \in 0 .. DatasetManifest + 1
  BY Sizes DEF PC, ApplyPC, QuietPC
<1>6. NotedInv'
  BY <1>1, <1>3, <1>4, <1>5, SaveNoted DEF NotedInv, TypeOK
<1>7. ASSUME Recorded PROVE Recorded'
  BY <1>1, <1>3, <1>5, <1>7, RollsOn, SaveRecorded
<1> QED
  BY <1>6, <1>7

LEMMA FinishRollbackInv ==
  ASSUME RemediationAssumption, NotedInv, NEW p \in Operator, FinishRollback(p)
  PROVE  NotedInv' /\ (Recorded => Recorded')
<1>1. proc[p].pc \notin QuietPC
  BY DEF FinishRollback, QuietPC
<1> QED
  BY <1>1, EndNoted, EndRecorded DEF FinishRollback, Stop, NotedInv, RemedyInv, TypeOK

LEMMA FailureInv ==
  ASSUME RemediationAssumption, NotedInv, NEW p \in Operator, RequestFails(p) \/ Kill(p)
  PROVE  NotedInv' /\ (Recorded => Recorded')
<1>1. faults' \in 0 .. MaxFaults
  BY Sizes DEF RequestFails, Kill, Fault, NotedInv, TypeOK
<1>2. Failed(p) \in {"APPLIED", "FAILED", "ROLLBACK_FAILED"}
  BY DEF Failed
<1>3. CASE RequestFails(p)
  <2>1. proc[p].pc \notin QuietPC
    BY <1>3 DEF RequestFails, QuietPC
  <2> QED
    BY <1>1, <1>2, <1>3, <2>1, EndNoted, EndRecorded DEF RequestFails, Stop, RemedyInv, NotedInv
<1>4. CASE Kill(p)
  BY <1>1, <1>4, EndNoted, EndRecorded DEF Kill, RemedyInv, NotedInv
<1> QED
  BY <1>3, <1>4

LEMMA LandInv ==
  ASSUME RemediationAssumption, NotedInv, NEW r \in inFlight, Land(r)
  PROVE  NotedInv' /\ (Recorded => Recorded')
<1>1. /\ r.object \in Object /\ r.content \in Content
      /\ r = Request(r.object, r.gen, r.content)
  BY DEF NotedInv, TypeOK, Request
<1>2. /\ inFlight' \subseteq inFlight /\ faults' \in 0 .. MaxFaults
      /\ UNCHANGED <<plan, ledger, proc, reset, faults>>
  BY DEF Land, NotedInv, TypeOK
<1>3. CASE Matches(r)
  <2>1. live' = Written(Request(r.object, live[r.object].gen, r.content))
        /\ touched' = touched \cup {r.object}
    BY <1>1, <1>3 DEF Land, Matches
  <2>2. Recorded => (r.content = "staged" => r.object \in Mutated(ledger))
    BY DEF Recorded
  <2> QED
    BY <1>1, <1>2, <2>1, <2>2, OthersWrite
<1>4. CASE ~ Matches(r)
  <2>1. UNCHANGED <<live, touched>>
    BY <1>4 DEF Land
  <2>2. NotedInv'
    BY <1>2, <2>1 DEF NotedInv, TypeOK, Noted, ProcNoted, KnownAll, Known
  <2>3. Recorded => Recorded'
    BY <1>2, <2>1 DEF Recorded, ProcRecorded, Mutated, Alone
  <2> QED
    BY <2>2, <2>3
<1> QED
  BY <1>3, <1>4

LEMMA ForeignWriteInv ==
  ASSUME RemediationAssumption, NotedInv, NEW o \in Object, ForeignWrite(o)
  PROVE  NotedInv' /\ (Recorded => Recorded')
<1>1. faults' \in 0 .. MaxFaults
  BY Sizes DEF ForeignWrite, Fault, NotedInv, TypeOK
<1> QED
  BY <1>1, OthersWrite DEF ForeignWrite, Content

-----------------------------------------------------------------------------
LEMMA StepInv ==
  ASSUME RemediationAssumption, NotedInv, Next
  PROVE  NotedInv' /\ (Recorded /\ ~reset' => Recorded')
<1>1. CASE \E p \in Operator : Plan(p) \/ StartApply(p) \/ StartRollback(p)
  BY <1>1, PlanInv, StartApplyInv, StartRollbackInv
<1>2. CASE \E p \in Operator : Apply(p)
  BY <1>2, BeginApplyInv, RecordPendingInv, UploadInv, ConfirmInv, RebuildInv, FinishApplyInv DEF Apply
<1>3. CASE \E p \in Operator : Rollback(p)
  BY <1>3, LookInv, RestoreInv, RecordRestoredInv, SaveRolledBackInv, FinishRollbackInv DEF Rollback
<1>4. CASE \E p \in Operator : RequestFails(p) \/ Kill(p)
  BY <1>4, FailureInv
<1>5. CASE \E r \in inFlight : Land(r)
  BY <1>5, LandInv
<1>6. CASE \E o \in Object : ForeignWrite(o)
  BY <1>6, ForeignWriteInv
<1> QED
  BY <1>1, <1>2, <1>3, <1>4, <1>5, <1>6 DEF Next

LEMMA StutterInv ==
  ASSUME NotedInv, UNCHANGED vars
  PROVE  NotedInv' /\ (Recorded => Recorded')
<1>1. /\ live' = live /\ plan' = plan /\ ledger' = ledger /\ proc' = proc /\ inFlight' = inFlight
      /\ touched' = touched /\ reset' = reset /\ faults' = faults
  BY DEF vars
<1>2. NotedInv'
  BY <1>1 DEF NotedInv, TypeOK, Noted, ProcNoted, KnownAll, Known
<1>3. Recorded => Recorded'
  BY <1>1 DEF Recorded, ProcRecorded, Mutated, Alone
<1> QED
  BY <1>2, <1>3

\* A ledger that was reset stays so.
LEMMA ResetStays ==
  ASSUME TypeOK, [Next]_vars, reset
  PROVE  reset'
  BY DEF Next, Apply, Rollback, Plan, StartApply, StartRollback, BeginApply, RecordPending, Upload,
         Confirm, Rebuild, FinishApply, Look, Restore, RecordRestored, SaveRolledBack, FinishRollback,
         RequestFails, Kill, Land, ForeignWrite, vars

\* The generations noted anywhere are never those of a foreign object, in every reachable
\* state; and what was mutated is in the ledger in every one before an apply resets the
\* ledger of another (remediate_canonical_size.py, all of it).
THEOREM RemedyInvariance ==
  ASSUME RemediationAssumption
  PROVE  Spec => [](NotedInv /\ (~reset => RemedyInv))
<1>1. Init => NotedInv /\ (~reset => RemedyInv)
  BY InitInv DEF RemedyInv, NotedInv
<1>2. NotedInv /\ (~reset => RemedyInv) /\ [Next]_vars => (NotedInv /\ (~reset => RemedyInv))'
  <2> SUFFICES ASSUME NotedInv, ~reset => RemedyInv, [Next]_vars
               PROVE  NotedInv' /\ (~reset' => RemedyInv')
    OBVIOUS
  <2>1. NotedInv' /\ (Recorded /\ ~reset' => Recorded')
    BY StepInv, StutterInv
  <2>2. ~reset' => Recorded
    BY ResetStays DEF RemedyInv, NotedInv
  <2> QED
    BY <2>1, <2>2 DEF RemedyInv, NotedInv
<1> QED
  BY <1>1, <1>2, PTL DEF Spec

\* For any number of shards, of terminals and of faults, every staged object that is live is
\* a recorded mutation, as long as no apply has saved its fresh ledger over that of another:
\* a rollback finds it, whatever failed and whatever lands late.
THEOREM ReplacedIsRecordedHolds ==
  ASSUME RemediationAssumption
  PROVE  Spec => []ReplacedIsRecorded
<1>1. (~reset => RemedyInv) => ReplacedIsRecorded
  <2> SUFFICES ASSUME RemedyInv, NEW o \in Object, live[o].content = "staged"
               PROVE  ledger # NoLedger /\ o \in Mutated(ledger)
    BY DEF ReplacedIsRecorded
  <2>1. o \in Mutated(ledger)
    BY DEF RemedyInv, Recorded
  <2> QED
    BY <2>1, EmptyLedger
<1> QED
  BY <1>1, RemedyInvariance, PTL

\* No request replaces an object of a generation its command has not read as the original
\* or as a replacement, so a foreign object stays, under late requests and overlapping
\* applies too.
THEOREM ForeignIsKeptHolds ==
  ASSUME RemediationAssumption
  PROVE  Spec => ForeignIsKept
<1> DEFINE Kept == \A o \in Object : live[o].content = "foreign" => live'[o].content = "foreign"
<1>1. ASSUME NotedInv, NEW x \in Object, NEW g, NEW content \in Content, g = live[x].gen,
             Known(x, g), live' = Written(Request(x, g, content))
      PROVE  Kept
  <2>1. live[x].content # "foreign"
    BY <1>1, TypeFacts DEF Known, NotedInv
  <2>2. \A o \in Object \ {x} : live'[o] = live[o]
    BY <1>1, WrittenStep DEF NotedInv
  <2> QED
    BY <2>1, <2>2
<1>2. ASSUME NotedInv, NEW p \in Operator, Upload(p) PROVE Kept
  <2>1. CASE UNCHANGED live
    BY <2>1
  <2>2. CASE Matches(Request(proc[p].at, plan[proc[p].at], "staged"))
             /\ live' = Written(Request(proc[p].at, plan[proc[p].at], "staged"))
    <3>1. proc[p].pc = "upload" /\ proc[p].pc \notin QuietPC
      BY <1>2 DEF Upload, QuietPC
    <3>2. proc[p].at \in Object
      BY <1>2, <3>1, Works
    <3>3. Known(proc[p].at, plan[proc[p].at]) /\ plan[proc[p].at] = live[proc[p].at].gen
      BY <1>2, <2>2, <3>2 DEF NotedInv, Noted, Matches, Request
    <3> QED
      BY <1>1, <1>2, <2>2, <3>2, <3>3 DEF Content
  <2> QED
    BY <1>2, <2>1, <2>2 DEF Upload
<1>3. ASSUME NotedInv, NEW p \in Operator, Restore(p) PROVE Kept
  <2>1. CASE UNCHANGED live
    BY <2>1
  <2>2. CASE Matches(Request(proc[p].at, proc[p].gen, "original"))
             /\ live' = Written(Request(proc[p].at, proc[p].gen, "original"))
    <3>1. proc[p].pc = "restore" /\ proc[p].pc \notin QuietPC
      BY <1>3 DEF Restore, QuietPC
    <3>2. proc[p].at \in Object /\ Known(proc[p].at, proc[p].gen)
      BY <1>3, <3>1, Works
    <3>3. proc[p].gen = live[proc[p].at].gen
      BY <2>2 DEF Matches, Request
    <3> QED
      BY <1>1, <1>3, <2>2, <3>2, <3>3 DEF Content
  <2> QED
    BY <1>3, <2>1, <2>2 DEF Restore
<1>4. ASSUME NotedInv, NEW r \in inFlight, Land(r) PROVE Kept
  <2>1. CASE UNCHANGED live
    BY <2>1
  <2>2. CASE Matches(r) /\ live' = Written(r)
    <3>1. /\ r.object \in Object /\ r.content \in Content /\ Known(r.object, r.gen)
          /\ r = Request(r.object, r.gen, r.content) /\ r.gen = live[r.object].gen
      BY <1>4, <2>2 DEF NotedInv, TypeOK, Request, Noted, Matches
    <3> QED
      BY <1>1, <1>4, <2>2, <3>1
  <2> QED
    BY <1>4, <2>1, <2>2 DEF Land
<1>5. ASSUME NotedInv, NEW x \in Object, ForeignWrite(x) PROVE Kept
  <2>1. live' = Written(Request(x, live[x].gen, "foreign"))
    BY <1>5 DEF ForeignWrite
  <2>2. /\ live'[x].content = "foreign"
        /\ \A o \in Object \ {x} : live'[o] = live[o]
    BY <1>5, <2>1, WrittenStep DEF Content, NotedInv
  <2> QED
    BY <2>2
<1>6. ASSUME NEW p \in Operator,
             \/ Plan(p) \/ StartApply(p) \/ StartRollback(p) \/ RequestFails(p) \/ Kill(p)
             \/ BeginApply(p) \/ RecordPending(p) \/ Confirm(p) \/ Rebuild(p) \/ FinishApply(p)
             \/ Look(p) \/ RecordRestored(p) \/ SaveRolledBack(p) \/ FinishRollback(p)
      PROVE  Kept
  BY <1>6 DEF Plan, StartApply, StartRollback, RequestFails, Kill, BeginApply, RecordPending, Confirm,
              Rebuild, FinishApply, Look, RecordRestored, SaveRolledBack, FinishRollback
<1> HIDE DEF Kept
<1>7. NotedInv /\ Next => Kept
  BY <1>2, <1>3, <1>4, <1>5, <1>6 DEF Next, Apply, Rollback
<1>8. NotedInv /\ [Next]_vars => [Kept]_vars
  BY <1>7
<1> QED
  BY <1>8, RemedyInvariance, PTL DEF Spec, ForeignIsKept, Kept

-----------------------------------------------------------------------------
(* LedgerIsTrue: a rollback goes through all it has recorded, and an apply in order. *)

RollPC == {"look", "restore", "restored", "verify"}
RollStatus == {"ROLLING_BACK", "ROLLBACK_FAILED", "ROLLED_BACK"}

\* o has this content, unless it was changed behind the ledger's back.
Holds(o, content) == o \in touched \/ live[o].content = content

RestoredIsBack(record) ==
  /\ \A o \in Object : record.restored[o] # NoGen => Holds(o, "original")
  /\ record.status = "ROLLED_BACK" => \A o \in Mutated(record) : record.restored[o] # NoGen

\* What the command at p has passed is restored, or staged.
Passed(p) ==
  /\ proc[p].pc \notin QuietPC => RestoredIsBack(proc[p].ledger)
  /\ proc[p].pc \in RollPC =>
       /\ ledger.status \in RollStatus /\ proc[p].ledger.status \in RollStatus
       /\ \A o \in Mutated(proc[p].ledger) :
            proc[p].pc = "verify" \/ o < proc[p].at => proc[p].ledger.restored[o] # NoGen
  /\ proc[p].pc = "restored" => Holds(proc[p].at, "original") /\ proc[p].gen # NoGen
  /\ proc[p].pc \in ApplyPC =>
       /\ ledger.restored = NoPlan /\ proc[p].ledger.restored = NoPlan
       /\ \A o \in Object :
            o < proc[p].at \/ (o = proc[p].at /\ proc[p].pc = "uploaded") => Holds(o, "staged")

\* Until a rollback, whatever comes before a staged object is staged.
InOrder ==
  ledger.status \notin RollStatus =>
    \A o \in Object : live[o].content = "staged" =>
       o \in touched \/ \A b \in Object : b < o => Holds(b, "staged")

DatasetSafe ==
  /\ RestoredIsBack(ledger) /\ InOrder
  /\ \A o \in Object : live[o].content = "foreign" => o \in touched
  /\ \A r \in inFlight : r.content # "foreign"

LedgerInv == DatasetSafe /\ \A p \in Operator : Passed(p)

LEMMA NothingSkipped ==
  ASSUME RemediationAssumption, NEW record \in LedgerType, NEW o \in Int, NEW m \in Mutated(record),
         Proceed(record, o) = "verify" \/ m < NextMutation(record, o)
  PROVE  m <= o
<1> DEFINE rest == {n \in Mutated(record) : n > o}
<1>1. rest \subseteq Object /\ m \in Object
  BY DEF Mutated, LedgerType
<1>2. ASSUME m > o PROVE FALSE
  <2>1. rest # {}
    BY <1>2
  <2> HIDE DEF rest
  <2>2. \E n \in rest : \A k \in rest : n <= k
    BY <1>1, <2>1, Sizes, SmallestOf
  <2>3. NextMutation(record, o) \in rest /\ \A k \in rest : NextMutation(record, o) <= k
    BY <2>1, <2>2 DEF NextMutation, rest
  <2>4. m \in rest
    BY <1>2 DEF rest
  <2>5. NextMutation(record, o) # 0 /\ NextMutation(record, o) <= m /\ NextMutation(record, o) \in Int /\ m \in Int
    BY <1>1, <2>3, <2>4, Sizes
  <2> QED
    BY <2>5 DEF Proceed
<1> QED
  BY <1>1, <1>2, Sizes

\* The command at p, with the bucket as it is and the ledger as it leaves it.
LEMMA QuietLedger ==
  ASSUME LedgerInv, NEW p \in Operator, UNCHANGED <<live, touched>>,
         \A q \in Operator \ {p} : proc'[q] = proc[q],
         Passed(p)',
         ledger' = ledger \/
           /\ RestoredIsBack(ledger)'
           /\ ledger.status \in RollStatus => ledger'.status \in RollStatus
           /\ \A q \in Operator \ {p} : proc[q].pc \notin ApplyPC,
         \A r \in inFlight' \ inFlight : r.content # "foreign"
  PROVE  LedgerInv'
<1>1. ASSUME NEW q \in Operator \ {p} PROVE Passed(q)'
  <2>1. proc'[q] = proc[q] /\ Passed(q)
    BY DEF LedgerInv
  <2> QED
    BY <2>1 DEF Passed, RestoredIsBack, Holds, Mutated
<1>2. DatasetSafe'
  BY DEF LedgerInv, DatasetSafe, RestoredIsBack, InOrder, Holds, Mutated
<1> QED
  BY <1>1, <1>2 DEF LedgerInv

LEMMA EndLedger ==
  ASSUME RemediationAssumption, RemedyInv, LedgerInv, NEW p \in Operator,
         proc' = [proc EXCEPT ![p] = Idle], UNCHANGED <<live, touched>>,
         \/ ledger' = ledger
         \/ proc[p].pc \in RollPC /\ ledger' = Status(proc[p].ledger, "ROLLBACK_FAILED")
         \/ /\ proc[p].pc \in ApplyPC
            /\ \E status \in {"APPLIED", "FAILED"} : ledger' = Status(proc[p].ledger, status),
         inFlight' \in {inFlight, inFlight \cup Asked(p)}
  PROVE  LedgerInv'
<1>1. proc'[p] = Idle /\ \A q \in Operator \ {p} : proc'[q] = proc[q]
  BY TypeFacts DEF RemedyInv
<1>2. Passed(p)'
  BY <1>1 DEF Passed, Idle, RestoredIsBack, NoLedger, NoPlan, RollPC, ApplyPC, QuietPC
<1>3. /\ proc[p].ledger \in LedgerType /\ Passed(p) /\ ProcRecorded(p)
  BY TypeFacts DEF RemedyInv, Recorded, LedgerInv, ProcType
<1>4. proc[p].pc \notin QuietPC => \A q \in Operator \ {p} : proc[q].pc \notin ApplyPC
  BY DEF RemedyInv, Recorded, ProcRecorded, Alone, ApplyPC, QuietPC
<1>5. \A r \in inFlight' \ inFlight : r.content # "foreign"
  BY DEF Asked, Request
<1>6. CASE ledger' = ledger
  BY <1>1, <1>2, <1>6, <1>5, QuietLedger
<1>7. ASSUME NEW status \in {"APPLIED", "FAILED", "ROLLBACK_FAILED"},
             ledger' = Status(proc[p].ledger, status), proc[p].pc \notin QuietPC
      PROVE  RestoredIsBack(ledger)'
  <2>1. ledger'.restored = proc[p].ledger.restored /\ ledger'.status = status
    BY <1>3, <1>7 DEF Status, LedgerType
  <2>2. RestoredIsBack(proc[p].ledger)
    BY <1>3, <1>7 DEF Passed
  <2>3. \A o \in Object : Holds(o, "original") => Holds(o, "original")'
    BY DEF Holds
  <2>4. \A o \in Object : ledger'.restored[o] # NoGen => Holds(o, "original")'
    BY <2>1, <2>2, <2>3 DEF RestoredIsBack
  <2>5. ledger'.status # "ROLLED_BACK"
    BY <2>1
  <2> QED
    BY <2>4, <2>5 DEF RestoredIsBack
<1>8. CASE proc[p].pc \in RollPC /\ ledger' = Status(proc[p].ledger, "ROLLBACK_FAILED")
  <2>1. ledger'.status = "ROLLBACK_FAILED" /\ proc[p].pc \notin QuietPC
    BY <1>3, <1>8, NewStatus DEF RollPC, QuietPC
  <2> QED
    BY <1>1, <1>2, <1>4, <1>7, <1>8, <1>5, <2>1, QuietLedger DEF RollStatus
<1>9. CASE /\ proc[p].pc \in ApplyPC
           /\ \E status \in {"APPLIED", "FAILED"} : ledger' = Status(proc[p].ledger, status)
  <2>1. ledger.status = "APPLYING" /\ proc[p].pc \notin QuietPC
    BY <1>3, <1>9 DEF ProcRecorded, ApplyPC, QuietPC
  <2> QED
    BY <1>1, <1>2, <1>4, <1>7, <1>9, <1>5, <2>1, QuietLedger DEF RollStatus
<1> QED
  BY <1>6, <1>8, <1>9

\* A command saves a record and goes on.
LEMMA SaveLedger ==
  ASSUME RemediationAssumption, RemedyInv, LedgerInv, NEW p \in Operator, NEW pc \in PC, NEW at,
         NEW record \in LedgerType, Save(p, pc, at, record), UNCHANGED <<live, inFlight, touched>>,
         pc \notin {"restored", "uploaded"},
         \A o \in Object : record.restored[o] # NoGen => Holds(o, "original"),
         record.status = "ROLLED_BACK" => \A o \in Mutated(record) : record.restored[o] # NoGen,
         ledger.status \in RollStatus => record.status \in RollStatus,
         \A q \in Operator \ {p} : proc[q].pc \notin ApplyPC,
         pc \in RollPC =>
           /\ record.status \in RollStatus
           /\ \A o \in Mutated(record) : pc = "verify" \/ o < at => record.restored[o] # NoGen,
         pc \in ApplyPC =>
           record.restored = NoPlan /\ \A o \in Object : o < at => Holds(o, "staged")
  PROVE  LedgerInv'
<1>1. /\ ledger' = record /\ \A q \in Operator \ {p} : proc'[q] = proc[q]
      /\ proc'[p].pc = pc /\ proc'[p].at = at /\ proc'[p].ledger = record
  BY TypeFacts DEF RemedyInv, Save
<1>2. RestoredIsBack(ledger)' /\ RestoredIsBack(proc[p].ledger)'
  BY <1>1 DEF RestoredIsBack, Holds, Mutated
<1>3. Passed(p)'
  BY <1>1, <1>2 DEF Passed, Holds, Mutated
<1> QED
  BY <1>1, <1>2, <1>3, QuietLedger

\* A command goes on without saving anything.
LEMMA MoveLedger ==
  ASSUME RemediationAssumption, RemedyInv, LedgerInv, NEW p \in Operator, NEW next \in ProcType,
         proc' = [proc EXCEPT ![p] = next], next.ledger = proc[p].ledger, proc[p].pc \notin QuietPC,
         UNCHANGED <<live, ledger, inFlight, touched>>,
         next.pc \notin {"restored", "uploaded"},
         next.pc \in RollPC =>
           /\ proc[p].pc \in RollPC
           /\ \A o \in Mutated(proc[p].ledger) :
                next.pc = "verify" \/ o < next.at => proc[p].ledger.restored[o] # NoGen,
         next.pc \in ApplyPC => proc[p].pc \in ApplyPC /\ next.at = proc[p].at
  PROVE  LedgerInv'
<1>1. proc'[p] = next /\ \A q \in Operator \ {p} : proc'[q] = proc[q]
  BY TypeFacts DEF RemedyInv
<1>2. Passed(p)
  BY DEF LedgerInv
<1>3. RestoredIsBack(proc[p].ledger)'
  BY <1>1, <1>2 DEF Passed, RestoredIsBack, Holds, Mutated
<1>4. Passed(p)'
  BY <1>1, <1>2, <1>3 DEF Passed, Holds, Mutated
<1> QED
  BY <1>1, <1>4, QuietLedger

\* A rollback saves what it knows, all it has passed being restored.
LEMMA ProceedLedger ==
  ASSUME RemediationAssumption, RemedyInv, LedgerInv, NEW p \in Operator,
         NEW record \in LedgerType, NEW o \in Int,
         Save(p, Proceed(record, o), NextMutation(record, o), record),
         UNCHANGED <<live, inFlight, touched>>,
         \A x \in Object : record.restored[x] # NoGen => Holds(x, "original"),
         record.status \in RollStatus,
         record.status = "ROLLED_BACK" => \A x \in Mutated(record) : record.restored[x] # NoGen,
         \A x \in Mutated(record) : x <= o => record.restored[x] # NoGen,
         \A q \in Operator \ {p} : proc[q].pc \notin ApplyPC
  PROVE  LedgerInv'
<1>1. Proceed(record, o) \in {"verify", "look"}
  BY Proceeds
<1>2. Proceed(record, o) \in PC /\ Proceed(record, o) \notin ApplyPC
  BY <1>1 DEF PC, ApplyPC, QuietPC
<1>3. \A x \in Mutated(record) :
        Proceed(record, o) = "verify" \/ x < NextMutation(record, o) => record.restored[x] # NoGen
  BY NothingSkipped
<1> QED
  BY <1>1, <1>2, <1>3, SaveLedger

\* Somebody else or a late request changes an object.
LEMMA OthersLedger ==
  ASSUME RemediationAssumption, RemedyInv, LedgerInv, NEW o \in Object, NEW content \in Content,
         live' = Written(Request(o, live[o].gen, content)), UNCHANGED <<ledger, proc>>,
         inFlight' \subseteq inFlight, touched' = touched \cup {o}
  PROVE  LedgerInv'
<1>1. \A x \in Object \ {o} : live'[x] = live[x]
  BY WrittenStep DEF RemedyInv
<1>2. \A x \in Object, c \in Content : Holds(x, c) => Holds(x, c)'
  BY <1>1 DEF Holds
<1>3. "original" \in Content /\ "staged" \in Content
  BY DEF Content
<1>4. RestoredIsBack(ledger)'
  BY <1>2, <1>3 DEF LedgerInv, DatasetSafe, RestoredIsBack, Mutated
<1>5. InOrder'
  BY <1>1, <1>2, <1>3 DEF LedgerInv, DatasetSafe, InOrder
<1>6. DatasetSafe'
  BY <1>1, <1>4, <1>5 DEF LedgerInv, DatasetSafe
<1>7. ASSUME NEW q \in Operator PROVE Passed(q)'
  <2>1. Passed(q) /\ ProcNoted(q)
    BY DEF LedgerInv, RemedyInv, Noted
  <2>2. proc[q].pc \notin QuietPC => RestoredIsBack(proc[q].ledger)'
    BY <1>2, <1>3, <2>1 DEF Passed, RestoredIsBack, Mutated
  <2>3. proc[q].pc = "restored" => proc[q].at \in Object
    BY <2>1 DEF ProcNoted, PC
  <2> QED
    BY <1>2, <1>3, <2>1, <2>2, <2>3 DEF Passed, Mutated
<1> QED
  BY <1>6, <1>7 DEF LedgerInv

LEMMA InitLedger ==
  ASSUME RemediationAssumption, Init
  PROVE  LedgerInv
<1>1. \A p \in Operator : Passed(p)
  BY DEF Init, Passed, Idle, RestoredIsBack, NoLedger, NoPlan, NoGen, RollPC, ApplyPC, QuietPC
<1>2. DatasetSafe
  BY DEF Init, DatasetSafe, RestoredIsBack, NoLedger, NoPlan, NoGen, InOrder
<1> QED
  BY <1>1, <1>2 DEF LedgerInv

LEMMA PlanLedger ==
  ASSUME RemediationAssumption, RemedyInv, LedgerInv, NEW p \in Operator, Plan(p)
  PROVE  LedgerInv'
<1>1. Passed(p)'
  BY DEF Plan, LedgerInv, Passed, RestoredIsBack, Holds, Mutated
<1> QED
  BY <1>1, QuietLedger DEF Plan

LEMMA StartApplyLedger ==
  ASSUME RemediationAssumption, RemedyInv, LedgerInv, NEW p \in Operator, StartApply(p)
  PROVE  LedgerInv'
<1>1. /\ UNCHANGED <<live, touched, ledger, inFlight>> /\ proc'[p].pc = "begin"
      /\ \A q \in Operator \ {p} : proc'[q] = proc[q]
  BY TypeFacts DEF StartApply, RemedyInv, ProcType
<1>2. Passed(p)'
  BY <1>1 DEF Passed, RollPC, ApplyPC, QuietPC
<1> QED
  BY <1>1, <1>2, QuietLedger

LEMMA BeginApplyLedger ==
  ASSUME RemediationAssumption, RemedyInv, LedgerInv, NEW p \in Operator, BeginApply(p), ~reset'
  PROVE  LedgerInv'
<1>1. ledger = NoLedger
  BY DEF BeginApply
<1>2. \A q \in Operator : proc[q].pc \notin ApplyPC
  BY <1>1 DEF RemedyInv, Recorded, ProcRecorded, NoLedger, ApplyPC, QuietPC
<1>3. Fresh \in LedgerType /\ Fresh.restored = NoPlan /\ Fresh.status = "APPLYING"
  BY EmptyLedger DEF Fresh, Status, NoLedger
<1>4. ledger.status \notin RollStatus
  BY <1>1 DEF NoLedger, RollStatus
<1>5. \A o \in Object : ~(o < 1)
  BY Sizes
<1>6. "pending" \in PC /\ "pending" \notin RollPC
  BY DEF PC, RollPC
<1>7. \A o \in Object : Fresh.restored[o] = NoGen
  BY <1>3 DEF NoPlan
<1>8. Save(p, "pending", 1, Fresh) /\ UNCHANGED <<live, inFlight, touched>>
  BY DEF BeginApply
<1> QED
  BY <1>2, <1>3, <1>4, <1>5, <1>6, <1>7, <1>8, SaveLedger

\* What a step of an apply has of the invariant.
LEMMA ApplyPassed ==
  ASSUME RemediationAssumption, RemedyInv, LedgerInv, NEW p \in Operator, proc[p].pc \in ApplyPC
  PROVE  /\ ledger.status = "APPLYING" /\ ledger.status \notin RollStatus /\ proc[p].pc \notin QuietPC
         /\ proc[p].ledger.restored = NoPlan /\ ledger.restored = NoPlan
         /\ \A o \in Object :
              o < proc[p].at \/ (o = proc[p].at /\ proc[p].pc = "uploaded") => Holds(o, "staged")
  BY DEF RemedyInv, Recorded, ProcRecorded, LedgerInv, Passed, RollStatus, ApplyPC, QuietPC

LEMMA RecordPendingLedger ==
  ASSUME RemediationAssumption, RemedyInv, LedgerInv, NEW p \in Operator, RecordPending(p)
  PROVE  LedgerInv'
<1> DEFINE o == proc[p].at
<1> DEFINE known == [proc[p].ledger EXCEPT !.pending = @ \cup {o}]
<1>1. /\ proc[p].pc \in ApplyPC /\ proc[p].pc = "pending" /\ o \in Object
      /\ proc[p].ledger \in LedgerType
  BY Applies DEF RecordPending, ApplyPC, QuietPC
<1>2. Save(p, "upload", o, known) /\ UNCHANGED <<live, inFlight, touched>>
  BY DEF RecordPending
<1>3. known \in LedgerType /\ known.restored = NoPlan /\ known.status = "APPLYING"
  <2>1. known \in LedgerType /\ known.restored = proc[p].ledger.restored
        /\ known.status = proc[p].ledger.status
    BY <1>1 DEF LedgerType
  <2> QED
    BY <1>1, <2>1, ApplyPassed, Applies
<1>4. "upload" \in PC /\ "upload" \notin RollPC /\ o \in 0 .. DatasetManifest + 1
  BY <1>1, Sizes DEF PC, RollPC, QuietPC
<1>5. \A x \in Object : known.restored[x] = NoGen
  BY <1>3 DEF NoPlan
<1>6. \A x \in Object : x < o => Holds(x, "staged")
  BY <1>1, ApplyPassed
<1> HIDE DEF known, o
<1> QED
  BY <1>1, <1>2, <1>3, <1>4, <1>5, <1>6, ApplyPassed, Applies, SaveLedger

LEMMA ConfirmLedger ==
  ASSUME RemediationAssumption, RemedyInv, LedgerInv, NEW p \in Operator, Confirm(p)
  PROVE  LedgerInv'
<1> DEFINE o == proc[p].at
<1> DEFINE known == [proc[p].ledger EXCEPT !.pending = @ \ {o}, !.applied[o] = proc[p].gen]
<1>1. /\ proc[p].pc \in ApplyPC /\ proc[p].pc = "uploaded" /\ o \in Object
      /\ proc[p].ledger \in LedgerType /\ proc[p].gen \in Nat
  BY Applies DEF Confirm, ApplyPC, QuietPC
<1>2. Save(p, AfterApplied(o), o + 1, known) /\ UNCHANGED <<live, inFlight, touched>>
  BY DEF Confirm
<1>3. known \in LedgerType /\ known.restored = NoPlan /\ known.status = "APPLYING"
  <2>1. known \in LedgerType /\ known.restored = proc[p].ledger.restored
        /\ known.status = proc[p].ledger.status
    BY <1>1 DEF LedgerType
  <2> QED
    BY <1>1, <2>1, ApplyPassed, Applies
<1>4. AfterApplied(o) \in {"rebuild", "finish", "pending"} /\ o + 1 \in 0 .. DatasetManifest + 1
  BY <1>1, Sizes DEF AfterApplied
<1>5. AfterApplied(o) \in PC /\ AfterApplied(o) \notin RollPC
  BY <1>4 DEF PC, RollPC, QuietPC
<1>6. \A x \in Object : known.restored[x] = NoGen
  BY <1>3 DEF NoPlan
<1>7. \A x \in Object : x < o + 1 => Holds(x, "staged")
  BY <1>1, ApplyPassed, Sizes
<1> HIDE DEF known, o
<1> QED
  BY <1>1, <1>2, <1>3, <1>4, <1>5, <1>6, <1>7, ApplyPassed, Applies, SaveLedger

LEMMA RebuildLedger ==
  ASSUME RemediationAssumption, RemedyInv, LedgerInv, NEW p \in Operator, Rebuild(p)
  PROVE  LedgerInv'
<1>1. /\ proc[p].pc \in ApplyPC /\ proc[p].pc = "rebuild" /\ proc[p].pc \notin QuietPC
      /\ UNCHANGED <<live, inFlight, touched>>
  BY DEF Rebuild, ApplyPC, QuietPC
<1>2. CASE proc' = [proc EXCEPT ![p].pc = "pending"] /\ UNCHANGED ledger
  <2> DEFINE next == [proc[p] EXCEPT !.pc = "pending"]
  <2>1. /\ next \in ProcType /\ next.pc = "pending" /\ next.ledger = proc[p].ledger
        /\ next.at = proc[p].at
    BY <1>1, Applies DEF ProcType, PC
  <2>2. proc' = [proc EXCEPT ![p] = next]
    BY <1>1, <1>2, TypeFacts, Applies DEF ProcType, RemedyInv
  <2> HIDE DEF next
  <2> QED
    BY <1>1, <1>2, <2>1, <2>2, MoveLedger DEF RollPC, QuietPC
<1>3. CASE Stop(p, "FAILED")
  BY <1>1, <1>3, EndLedger DEF Stop
<1> QED
  BY <1>2, <1>3 DEF Rebuild

LEMMA FinishApplyLedger ==
  ASSUME RemediationAssumption, RemedyInv, LedgerInv, NEW p \in Operator, FinishApply(p)
  PROVE  LedgerInv'
<1>1. proc[p].pc \in ApplyPC /\ proc[p].pc \notin QuietPC
  BY DEF FinishApply, ApplyPC, QuietPC
<1> QED
  BY <1>1, EndLedger DEF FinishApply, Stop

LEMMA StartRollbackLedger ==
  ASSUME RemediationAssumption, RemedyInv, LedgerInv, NEW p \in Operator, StartRollback(p)
  PROVE  LedgerInv'
<1> DEFINE record == Status(ledger, "ROLLING_BACK")
<1>1. ledger \in LedgerType /\ ledger.status # "APPLYING" /\ RestoredIsBack(ledger)
  BY TypeFacts DEF RemedyInv, StartRollback, Accepted, LedgerInv, DatasetSafe
<1>2. /\ record \in LedgerType /\ record.status = "ROLLING_BACK" /\ record.restored = ledger.restored
      /\ record.status \in RollStatus
  BY <1>1, NewStatus DEF Status, RollStatus, LedgerType
<1>3. \A q \in Operator : proc[q].pc \notin ApplyPC
  BY <1>1 DEF RemedyInv, Recorded, ProcRecorded, QuietPC
<1>4. /\ Save(p, Proceed(record, 0), NextMutation(record, 0), record)
      /\ UNCHANGED <<live, inFlight, touched>>
  BY DEF StartRollback
<1>5. \A x \in Object : record.restored[x] # NoGen => Holds(x, "original")
  BY <1>1, <1>2 DEF RestoredIsBack
<1>6. \A x \in Mutated(record) : ~(x <= 0)
  BY <1>2, Sizes DEF Mutated, LedgerType
<1> HIDE DEF record
<1> QED
  BY <1>2, <1>3, <1>4, <1>5, <1>6, ProceedLedger

\* What a step of a rollback has of the invariant.
LEMMA RollPassed ==
  ASSUME RemediationAssumption, RemedyInv, LedgerInv, NEW p \in Operator, proc[p].pc \in RollPC
  PROVE  /\ proc[p].pc \notin QuietPC
         /\ ledger.status \in RollStatus /\ proc[p].ledger.status \in RollStatus
         /\ \A x \in Object : proc[p].ledger.restored[x] # NoGen => Holds(x, "original")
         /\ proc[p].ledger.status = "ROLLED_BACK" =>
              \A x \in Mutated(proc[p].ledger) : proc[p].ledger.restored[x] # NoGen
         /\ \A x \in Mutated(proc[p].ledger) :
              proc[p].pc = "verify" \/ x < proc[p].at => proc[p].ledger.restored[x] # NoGen
  BY DEF LedgerInv, Passed, RestoredIsBack, RollPC, QuietPC

\* A rollback that notes a restored generation.
LEMMA NoteLedger ==
  ASSUME RemediationAssumption, RemedyInv, LedgerInv, NEW p \in Operator, NEW g \in Nat, NEW known,
         NEW record, NEW o, record = proc[p].ledger, o = proc[p].at,
         proc[p].pc \in {"look", "restored"},
         known = [record EXCEPT !.restored[o] = g],
         g # NoGen, Holds(o, "original"),
         Save(p, Proceed(known, o), NextMutation(known, o), known),
         UNCHANGED <<live, inFlight, touched>>
  PROVE  LedgerInv'
<1>1. /\ proc[p].pc \in RollPC /\ proc[p].pc # "verify" /\ o \in Object /\ o \in Int
      /\ record \in LedgerType /\ \A q \in Operator \ {p} : proc[q].pc \notin ApplyPC
  BY Rolls, Sizes DEF RollPC, QuietPC
<1>2. /\ \A x \in Object : record.restored[x] # NoGen => Holds(x, "original")
      /\ record.status \in RollStatus
      /\ record.status = "ROLLED_BACK" => \A x \in Mutated(record) : record.restored[x] # NoGen
      /\ \A x \in Mutated(record) : x < o => record.restored[x] # NoGen
  BY <1>1, RollPassed
<1>3. \A x \in Object : known.restored[x] = IF x = o THEN g ELSE record.restored[x]
  BY <1>1 DEF LedgerType
<1>4. /\ known \in LedgerType /\ Mutated(known) = Mutated(record) /\ known.status = record.status
  BY <1>1, NewRestored
<1>5. Mutated(record) \subseteq Object /\ \A x \in Object : x <= o => x < o \/ x = o
  <2>1. Mutated(record) \subseteq Object
    BY <1>1 DEF Mutated, LedgerType
  <2>2. \A x \in Object : x <= o => x < o \/ x = o
    BY <1>1, Sizes
  <2> QED
    BY <2>1, <2>2
<1>6. \A x \in Object : known.restored[x] # NoGen => Holds(x, "original")
  BY <1>2, <1>3
<1>7. \A x \in Mutated(known) : x <= o => known.restored[x] # NoGen
  BY <1>2, <1>3, <1>4, <1>5
<1>8. known.status = "ROLLED_BACK" => \A x \in Mutated(known) : known.restored[x] # NoGen
  BY <1>2, <1>3, <1>4, <1>5
<1> QED
  BY <1>1, <1>2, <1>4, <1>6, <1>7, <1>8, ProceedLedger

LEMMA LookLedger ==
  ASSUME RemediationAssumption, RemedyInv, LedgerInv, NEW p \in Operator, Look(p)
  PROVE  LedgerInv'
<1> DEFINE o == proc[p].at
<1> DEFINE record == proc[p].ledger
<1> DEFINE known == [record EXCEPT !.restored[o] = live[o].gen]
<1>1. /\ proc[p].pc = "look" /\ proc[p].pc \in RollPC /\ proc[p].pc \notin QuietPC
      /\ UNCHANGED <<live, inFlight, touched>>
  BY DEF Look, RollPC, QuietPC
<1>2. /\ proc[p] \in ProcType /\ record \in LedgerType /\ o \in Object /\ o \in Int
      /\ live[o].gen \in Nat \ {0}
  BY <1>1, Rolls, Sizes, TypeFacts DEF RemedyInv
<1>3. \A x \in Mutated(record) : x < o => record.restored[x] # NoGen
  BY <1>1, RollPassed
<1>4. CASE Stop(p, "ROLLBACK_FAILED")
  BY <1>1, <1>4, EndLedger DEF Stop
<1>5. CASE /\ record.restored[o] # NoGen
           /\ proc' = [proc EXCEPT ![p].pc = Proceed(record, o), ![p].at = NextMutation(record, o)]
           /\ UNCHANGED ledger
  <2> DEFINE next == [proc[p] EXCEPT !.pc = Proceed(record, o), !.at = NextMutation(record, o)]
  <2>1. /\ Proceed(record, o) \in {"verify", "look"}
        /\ NextMutation(record, o) \in 0 .. DatasetManifest + 1
    BY <1>2, Proceeds
  <2>2. /\ next \in ProcType /\ next.pc = Proceed(record, o) /\ next.at = NextMutation(record, o)
        /\ next.ledger = record
    BY <1>2, <2>1 DEF ProcType, PC
  <2>3. proc' = [proc EXCEPT ![p] = next]
    BY <1>2, <1>5, TypeFacts DEF ProcType, RemedyInv
  <2>4. \A x \in Mutated(record) : next.pc = "verify" \/ x < next.at => record.restored[x] # NoGen
    <3>1. ASSUME NEW x \in Mutated(record), next.pc = "verify" \/ x < next.at PROVE x <= o
      BY <1>2, <2>2, <3>1, NothingSkipped
    <3>2. Mutated(record) \subseteq Object /\ \A x \in Object : x <= o => x < o \/ x = o
      BY <1>2, Sizes DEF Mutated, LedgerType
    <3> QED
      BY <1>3, <1>5, <3>1, <3>2
  <2> HIDE DEF next, o
  <2> QED
    BY <1>1, <1>5, <2>1, <2>2, <2>3, <2>4, MoveLedger DEF ApplyPC, QuietPC
<1>6. CASE /\ proc' = [proc EXCEPT ![p].pc = "restore", ![p].gen = live[o].gen]
           /\ UNCHANGED ledger
  <2> DEFINE next == [proc[p] EXCEPT !.pc = "restore", !.gen = live[o].gen]
  <2>1. /\ next \in ProcType /\ next.pc = "restore" /\ next.at = o /\ next.ledger = record
    BY <1>2 DEF ProcType, PC
  <2>2. proc' = [proc EXCEPT ![p] = next]
    BY <1>2, <1>6, TypeFacts DEF ProcType, RemedyInv
  <2> HIDE DEF next, o
  <2> QED
    BY <1>1, <1>3, <1>6, <2>1, <2>2, MoveLedger DEF ApplyPC, QuietPC
<1>7. CASE live[o].content = "original" /\ Save(p, Proceed(known, o), NextMutation(known, o), known)
  <2> DEFINE g == live[o].gen
  <2>1. Holds(o, "original") /\ g \in Nat /\ g # NoGen
    BY <1>2, <1>7 DEF Holds, NoGen
  <2>2. known = [record EXCEPT !.restored[o] = g] /\ record = proc[p].ledger /\ o = proc[p].at
    OBVIOUS
  <2> HIDE DEF known, g, record, o
  <2> QED
    BY <1>1, <1>7, <2>1, <2>2, NoteLedger
<1>8. CASE record.restored[o] # NoGen
  BY <1>4, <1>5, <1>8 DEF Look
<1>9. CASE record.restored[o] = NoGen
  BY <1>4, <1>6, <1>7, <1>9 DEF Look
<1> QED
  BY <1>8, <1>9

LEMMA RecordRestoredLedger ==
  ASSUME RemediationAssumption, RemedyInv, LedgerInv, NEW p \in Operator, RecordRestored(p)
  PROVE  LedgerInv'
<1> DEFINE o == proc[p].at
<1> DEFINE g == proc[p].gen
<1> DEFINE record == proc[p].ledger
<1> DEFINE known == [record EXCEPT !.restored[o] = g]
<1>1. /\ proc[p].pc = "restored" /\ UNCHANGED <<live, inFlight, touched>>
      /\ Save(p, Proceed(known, o), NextMutation(known, o), known)
      /\ known = [record EXCEPT !.restored[o] = g] /\ record = proc[p].ledger /\ o = proc[p].at
  BY DEF RecordRestored
<1>2. Holds(o, "original") /\ g # NoGen /\ g \in Nat
  BY <1>1, Rolls DEF LedgerInv, Passed
<1> HIDE DEF known, g, record, o
<1> QED
  BY <1>1, <1>2, NoteLedger

LEMMA SaveRolledBackLedger ==
  ASSUME RemediationAssumption, RemedyInv, LedgerInv, NEW p \in Operator, SaveRolledBack(p)
  PROVE  LedgerInv'
<1> DEFINE record == Status(proc[p].ledger, "ROLLED_BACK")
<1>1. /\ proc[p].pc = "verify" /\ proc[p].pc \in RollPC /\ UNCHANGED <<live, inFlight, touched>>
      /\ Save(p, "verify", 0, record)
  BY DEF SaveRolledBack, RollPC, QuietPC
<1>2. proc[p].ledger \in LedgerType /\ \A q \in Operator \ {p} : proc[q].pc \notin ApplyPC
  BY <1>1, Rolls
<1>3. /\ record \in LedgerType /\ Mutated(record) = Mutated(proc[p].ledger)
      /\ record.status = "ROLLED_BACK" /\ record.restored = proc[p].ledger.restored
  BY <1>2, NewStatus DEF Status, LedgerType
<1> HIDE DEF record
<1>4. /\ \A x \in Object : record.restored[x] # NoGen => Holds(x, "original")
      /\ \A x \in Mutated(record) : record.restored[x] # NoGen
  BY <1>1, <1>3, RollPassed
<1>5. "verify" \in PC /\ "verify" \notin ApplyPC /\ record.status \in RollStatus
  BY <1>3 DEF PC, ApplyPC, RollStatus, QuietPC
<1> QED
  BY <1>1, <1>2, <1>3, <1>4, <1>5, SaveLedger

LEMMA FinishRollbackLedger ==
  ASSUME RemediationAssumption, RemedyInv, LedgerInv, NEW p \in Operator, FinishRollback(p)
  PROVE  LedgerInv'
<1>1. proc[p].pc \in RollPC /\ proc[p].pc \notin QuietPC
  BY DEF FinishRollback, RollPC, QuietPC
<1> QED
  BY <1>1, EndLedger DEF FinishRollback, Stop

LEMMA FailureLedger ==
  ASSUME RemediationAssumption, RemedyInv, LedgerInv, NEW p \in Operator, RequestFails(p) \/ Kill(p)
  PROVE  LedgerInv'
<1>1. CASE Kill(p)
  BY <1>1, EndLedger DEF Kill
<1>2. CASE RequestFails(p)
  <2>1. proc[p].pc \in RollPC => Failed(p) = "ROLLBACK_FAILED"
    BY DEF Failed, RollPC, QuietPC
  <2>2. proc[p].pc \in ApplyPC => Failed(p) = "FAILED"
    BY DEF Failed, ApplyPC, QuietPC
  <2>3. proc[p].pc \in RollPC \cup ApplyPC /\ proc[p].pc \notin QuietPC
    BY <1>2, TypeFacts DEF RequestFails, RemedyInv, ProcType, PC, RollPC, ApplyPC, QuietPC
  <2> QED
    BY <1>2, <2>1, <2>2, <2>3, EndLedger DEF RequestFails, Stop
<1> QED
  BY <1>1, <1>2

\* An apply writes only after all that comes before is staged.
LEMMA UploadLedger ==
  ASSUME RemediationAssumption, RemedyInv, LedgerInv, NEW p \in Operator, Upload(p)
  PROVE  LedgerInv'
<1> DEFINE o == proc[p].at
<1>1. /\ proc[p].pc = "upload" /\ proc[p].pc \in ApplyPC /\ proc[p].pc \notin QuietPC /\ o \in Object
      /\ UNCHANGED <<inFlight, touched>>
  BY Applies DEF Upload, ApplyPC, QuietPC
<1>2. CASE UNCHANGED live /\ Stop(p, "FAILED")
  BY <1>1, <1>2, EndLedger DEF Stop
<1>3. CASE /\ Matches(Request(o, plan[o], "staged"))
           /\ live' = Written(Request(o, plan[o], "staged"))
           /\ \E g : proc' = [proc EXCEPT ![p].pc = "uploaded", ![p].gen = g]
           /\ UNCHANGED ledger
  <2>1. plan[o] = live[o].gen
    BY <1>3 DEF Matches, Request
  <2>2. /\ live'[o].content = "staged"
        /\ \A x \in Object \ {o} : live'[x] = live[x]
    BY <1>1, <1>3, <2>1, WrittenStep DEF Content, RemedyInv
  <2>3. /\ proc'[p].pc = "uploaded" /\ proc'[p].at = o /\ proc'[p].ledger = proc[p].ledger
        /\ \A q \in Operator \ {p} : proc'[q] = proc[q] /\ proc[q].pc \in QuietPC
    BY <1>1, <1>3, TypeFacts, Applies DEF RemedyInv, ProcType
  <2>4. \A x \in Object : Holds(x, "staged") => Holds(x, "staged")'
    BY <1>1, <2>2 DEF Holds
  <2>5. /\ proc[p].ledger.restored = NoPlan /\ ledger.restored = NoPlan /\ ledger.status = "APPLYING"
        /\ \A x \in Object : x < o => Holds(x, "staged")
    BY <1>1, ApplyPassed
  <2>6. \A x \in Object : x = o => Holds(x, "staged")'
    BY <2>2 DEF Holds
  <2>7. Passed(p)'
    <3>1. proc[p].ledger.status = "APPLYING"
      BY <1>1, Applies
    <3>2. RestoredIsBack(proc[p].ledger)'
      BY <2>3, <2>5, <3>1 DEF RestoredIsBack, NoPlan
    <3> QED
      BY <1>3, <2>3, <2>4, <2>5, <2>6, <3>2 DEF Passed, RollPC, QuietPC
  <2>8. ASSUME NEW q \in Operator \ {p} PROVE Passed(q)'
    <3>1. Passed(q) /\ proc'[q] = proc[q] /\ proc[q].pc \in QuietPC
      BY <2>3 DEF LedgerInv
    <3> QED
      BY <3>1 DEF Passed, RollPC, ApplyPC, RestoredIsBack, Holds, Mutated, QuietPC
  <2>9. InOrder'
    <3>1. ASSUME NEW x \in Object, live'[x].content = "staged", x \notin touched,
                 NEW b \in Object, b < x
          PROVE  Holds(b, "staged")'
      <4>1. CASE x = o
        BY <2>4, <2>5, <3>1, <4>1
      <4>2. CASE x # o
        <5>1. live[x].content = "staged"
          BY <2>2, <3>1, <4>2
        <5>2. Holds(b, "staged")
          BY <2>5, <3>1, <5>1 DEF LedgerInv, DatasetSafe, InOrder, RollStatus
        <5> QED
          BY <2>4, <5>2
      <4> QED
        BY <4>1, <4>2
    <3> QED
      BY <1>1, <3>1 DEF InOrder
  <2>10. DatasetSafe'
    <3>1. RestoredIsBack(ledger)'
      BY <1>3, <2>5 DEF RestoredIsBack, NoPlan
    <3>2. \A x \in Object : live'[x].content = "foreign" => x \in touched'
      BY <1>1, <2>2 DEF LedgerInv, DatasetSafe
    <3> QED
      BY <1>1, <2>9, <3>1, <3>2 DEF LedgerInv, DatasetSafe
  <2> QED
    BY <2>7, <2>8, <2>10 DEF LedgerInv
<1> QED
  BY <1>2, <1>3 DEF Upload

\* A rollback writes the original.
LEMMA RestoreLedger ==
  ASSUME RemediationAssumption, RemedyInv, LedgerInv, NEW p \in Operator, Restore(p)
  PROVE  LedgerInv'
<1> DEFINE o == proc[p].at
<1> DEFINE g == proc[p].gen
<1>1. /\ proc[p].pc = "restore" /\ proc[p].pc \in RollPC /\ proc[p].pc \notin QuietPC /\ o \in Object
      /\ g \in Nat /\ \A q \in Operator \ {p} : proc[q].pc \notin ApplyPC
      /\ UNCHANGED <<inFlight, touched>>
  BY Rolls DEF Restore, RollPC, QuietPC
<1>2. CASE UNCHANGED live /\ Stop(p, "ROLLBACK_FAILED")
  BY <1>1, <1>2, EndLedger DEF Stop
<1>3. CASE /\ Matches(Request(o, g, "original"))
           /\ live' = Written(Request(o, g, "original"))
           /\ proc' = [proc EXCEPT ![p].pc = "restored", ![p].gen = g + 1]
           /\ UNCHANGED ledger
  <2>1. g = live[o].gen
    BY <1>3 DEF Matches, Request
  <2>2. /\ live'[o].content = "original"
        /\ \A x \in Object \ {o} : live'[x] = live[x]
    BY <1>1, <1>3, <2>1, WrittenStep DEF Content, RemedyInv
  <2>3. /\ proc'[p].pc = "restored" /\ proc'[p].at = o /\ proc'[p].ledger = proc[p].ledger
        /\ proc'[p].gen # NoGen
        /\ \A q \in Operator \ {p} : proc'[q] = proc[q]
    BY <1>1, <1>3, TypeFacts DEF RemedyInv, ProcType, NoGen
  <2>4. \A x \in Object : /\ Holds(x, "original") => Holds(x, "original")'
                          /\ x = o => Holds(x, "original")'
    BY <1>1, <2>2 DEF Holds
  <2>5. ledger.status \in RollStatus
    BY <1>1, RollPassed
  <2>6. ASSUME NEW q \in Operator, proc[q].pc \notin QuietPC, proc'[q].ledger = proc[q].ledger
        PROVE  RestoredIsBack(proc[q].ledger)'
    BY <2>4, <2>6 DEF LedgerInv, Passed, RestoredIsBack, Mutated
  <2>7. Passed(p)'
    <3>1. Passed(p) /\ RestoredIsBack(proc[p].ledger)'
      BY <1>1, <2>3, <2>6 DEF LedgerInv
    <3> QED
      BY <1>1, <1>3, <2>3, <2>4, <3>1 DEF Passed, Mutated, ApplyPC, QuietPC
  <2>8. ASSUME NEW q \in Operator \ {p} PROVE Passed(q)'
    <3>1. Passed(q) /\ proc'[q] = proc[q] /\ proc[q].pc \notin ApplyPC
      BY <1>1, <2>3 DEF LedgerInv
    <3>2. proc[q].pc \notin QuietPC => RestoredIsBack(proc[q].ledger)'
      BY <2>6, <3>1
    <3>3. proc[q].pc = "restored" => proc[q].at \in Object
      BY Rolls
    <3> QED
      BY <1>3, <2>4, <3>1, <3>2, <3>3 DEF Passed, Mutated
  <2>9. DatasetSafe'
    <3>1. RestoredIsBack(ledger)'
      BY <1>3, <2>4 DEF LedgerInv, DatasetSafe, RestoredIsBack, Mutated
    <3>2. \A x \in Object : live'[x].content = "foreign" => x \in touched'
      BY <1>1, <2>2 DEF LedgerInv, DatasetSafe
    <3>3. InOrder'
      BY <1>3, <2>5 DEF InOrder
    <3> QED
      BY <1>1, <3>1, <3>2, <3>3 DEF LedgerInv, DatasetSafe
  <2> QED
    BY <2>7, <2>8, <2>9 DEF LedgerInv
<1> QED
  BY <1>2, <1>3 DEF Restore, Request

LEMMA LandLedger ==
  ASSUME RemediationAssumption, RemedyInv, LedgerInv, NEW r \in inFlight, Land(r)
  PROVE  LedgerInv'
<1>1. /\ r.object \in Object /\ r.content \in Content /\ r = Request(r.object, r.gen, r.content)
      /\ inFlight' \subseteq inFlight /\ UNCHANGED <<ledger, proc>>
  BY DEF RemedyInv, TypeOK, Request, Land
<1>2. CASE Matches(r)
  <2>1. live' = Written(Request(r.object, live[r.object].gen, r.content))
        /\ touched' = touched \cup {r.object}
    BY <1>1, <1>2 DEF Land, Matches
  <2> QED
    BY <1>1, <2>1, OthersLedger
<1>3. CASE ~ Matches(r)
  <2>1. UNCHANGED <<live, touched>>
    BY <1>3 DEF Land
  <2>2. \A q \in Operator : Passed(q)'
    BY <1>1, <2>1 DEF LedgerInv, Passed, RestoredIsBack, Holds, Mutated
  <2>3. DatasetSafe'
    BY <1>1, <2>1 DEF LedgerInv, DatasetSafe, RestoredIsBack, InOrder, Holds, Mutated
  <2> QED
    BY <2>2, <2>3 DEF LedgerInv
<1> QED
  BY <1>2, <1>3

LEMMA ForeignWriteLedger ==
  ASSUME RemediationAssumption, RemedyInv, LedgerInv, NEW o \in Object, ForeignWrite(o)
  PROVE  LedgerInv'
  BY OthersLedger DEF ForeignWrite, Content

LEMMA StepLedger ==
  ASSUME RemediationAssumption, RemedyInv, LedgerInv, [Next]_vars, ~reset'
  PROVE  LedgerInv'
<1>1. CASE \E p \in Operator : Plan(p) \/ StartApply(p) \/ StartRollback(p)
  BY <1>1, PlanLedger, StartApplyLedger, StartRollbackLedger
<1>2. CASE \E p \in Operator : Apply(p)
  BY <1>2, BeginApplyLedger, RecordPendingLedger, UploadLedger, ConfirmLedger, RebuildLedger,
     FinishApplyLedger DEF Apply
<1>3. CASE \E p \in Operator : Rollback(p)
  BY <1>3, LookLedger, RestoreLedger, RecordRestoredLedger, SaveRolledBackLedger, FinishRollbackLedger
     DEF Rollback
<1>4. CASE \E p \in Operator : RequestFails(p) \/ Kill(p)
  BY <1>4, FailureLedger
<1>5. CASE \E r \in inFlight : Land(r)
  BY <1>5, LandLedger
<1>6. CASE \E o \in Object : ForeignWrite(o)
  BY <1>6, ForeignWriteLedger
<1>7. CASE UNCHANGED vars
  <2>1. UNCHANGED <<live, ledger, proc, inFlight, touched>>
    BY <1>7 DEF vars
  <2>2. \A q \in Operator : Passed(q)'
    BY <2>1 DEF LedgerInv, Passed, RestoredIsBack, Holds, Mutated
  <2>3. DatasetSafe'
    BY <2>1 DEF LedgerInv, DatasetSafe, RestoredIsBack, InOrder, Holds, Mutated
  <2> QED
    BY <2>2, <2>3 DEF LedgerInv
<1> QED
  BY <1>1, <1>2, <1>3, <1>4, <1>5, <1>6, <1>7 DEF Next

\* For any number of shards, of terminals and of faults: a completed rollback leaves no
\* replacement of an object nothing else has changed, and the dataset manifest, the commit
\* marker, is replaced only after everything it describes; as long as no apply has saved its fresh
\* ledger over that of another.
THEOREM LedgerIsTrueHolds ==
  ASSUME RemediationAssumption
  PROVE  Spec => []LedgerIsTrue
<1>1. (~reset => RemedyInv /\ LedgerInv) => LedgerIsTrue
  <2> SUFFICES ASSUME RemedyInv, LedgerInv PROVE LedgerIsTrue
    BY DEF LedgerIsTrue
  <2>1. \A o \in Object : live[o].content \in Content
    BY DEF RemedyInv, TypeOK
  <2>2. \A o \in Object : live[o].content = "staged" => o \in Mutated(ledger)
    BY DEF RemedyInv, Recorded
  <2>3. ASSUME ledger.status = "ROLLED_BACK", NEW o \in Object \ touched
        PROVE  live[o].content = "original"
    <3>1. CASE o \in Mutated(ledger)
      BY <2>3, <3>1 DEF LedgerInv, DatasetSafe, RestoredIsBack, Holds
    <3>2. CASE o \notin Mutated(ledger)
      BY <2>1, <2>2, <3>2 DEF LedgerInv, DatasetSafe, Content
    <3> QED
      BY <3>1, <3>2
  <2>4. RolledBackIsOriginal
    BY <2>3 DEF RolledBackIsOriginal
  <2>5. ASSUME live[DatasetManifest].content = "staged", DatasetManifest \notin touched,
               ledger.status \notin {"ROLLING_BACK", "ROLLBACK_FAILED"}, NEW o \in Object \ touched
        PROVE  live[o].content = "staged"
    <3>1. DatasetManifest \in Object /\ \A b \in Object : b < DatasetManifest \/ b = DatasetManifest
      BY Sizes
    <3>2. ledger.status \notin RollStatus
      BY <2>3, <2>5, <3>1 DEF RollStatus
    <3>3. \A b \in Object : b < DatasetManifest => Holds(b, "staged")
      BY <2>5, <3>1, <3>2 DEF LedgerInv, DatasetSafe, InOrder
    <3> QED
      BY <2>5, <3>1, <3>3 DEF Holds
  <2>6. CommittedIsWhole
    BY <2>5 DEF CommittedIsWhole
  <2> QED
    BY <2>4, <2>6 DEF LedgerIsTrue
<1>2. Init => LedgerInv
  BY InitLedger
<1> DEFINE RemedyHolds == NotedInv /\ (~reset => RemedyInv)
<1>3. RemedyHolds /\ (~reset => LedgerInv) /\ [Next]_vars => (~reset => LedgerInv)'
  BY ResetStays, StepLedger DEF NotedInv
<1>4. RemedyHolds /\ (~reset => LedgerInv) => LedgerIsTrue
  BY <1>1
<1>5. Spec => []RemedyHolds
  BY RemedyInvariance
<1> HIDE DEF RemedyHolds
<1> QED
  BY <1>2, <1>3, <1>4, <1>5, PTL DEF Spec

=============================================================================
