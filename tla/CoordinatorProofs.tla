-------------------------- MODULE CoordinatorProofs --------------------------
(***************************************************************************)
(* For every set of handlers and fingerprints, every lease, retention and  *)
(* waiting time, and any number of faults: type correctness and the safety *)
(* of Coordinator, by the inductive invariant IInv, and, where Redis keeps *)
(* what it has acknowledged, that Coordinator implements OneDelegation.    *)
(***************************************************************************)
EXTENDS Coordinator, TLAPS

-----------------------------------------------------------------------------
(* The inductive invariant. *)

\* A delegation that started has no time to live, and a retained answer is the
\* answer of a handler that called the Specialist for that fingerprint.
RecordSound(r) ==
  /\ r.state \in {"started", "ambiguous"} => r.expireAt = NoExpiry
  /\ r.state = "completed" =>
       r.result \in Handler /\ sentAt[r.result] # 0 /\ fp[r.result] = r.fp

\* What the place of a handler says about what it has done.
HandlerSound(h) ==
  /\ pc[h] # "idle" => fp[h] \in Fingerprint
  /\ pc[h] = "idle" => straggler[h] = "none"
  /\ sentAt[h] # 0 => pc[h] \in {"awaiting", "answered", "completing", "returned", "failed"}
  /\ pc[h] \in {"awaiting", "answered", "completing"} => sentAt[h] # 0
  /\ straggler[h] = "completing" \/ doneAt[h] # 0 => sentAt[h] # 0
  /\ sentAt[h] <= now
  /\ pc[h] = "returned" =>
       result[h] \in Handler /\ sentAt[result[h]] # 0 /\ fp[result[h]] = fp[h]

\* A recorded answer is retained in the record, or its retention is over.
Retained(h) ==
  doneAt[h] # 0 =>
    \/ doneAt[h] + CompletedTtl <= now
    \/ rec.state = "completed" /\ rec.expireAt = doneAt[h] + CompletedTtl

\* Separated, for a handler b that may not have called the Specialist yet.
Before(a, b) ==
  doneAt[a] # 0 /\ doneAt[a] + CompletedTtl <= IF sentAt[b] # 0 THEN sentAt[b] ELSE now

\* An open delegation owns the record, or has been given up for good.
Kept(h) == InDoubt(h) => rec.state = "ambiguous" \/ (rec.state = "started" /\ rec.owner = h)

Apart ==
  \A a, b \in Handler :
    a # b /\ Committed(a) /\ Committed(b) => Before(a, b) \/ Before(b, a)

Fenced ==
  /\ \A h \in Handler : Kept(h) /\ Retained(h)
  /\ Apart
  /\ \A h \in Handler : verdict[h] = "ambiguous" => rec.state = "ambiguous"

IInv ==
  /\ TypeOK
  /\ RecordSound(rec) /\ RecordSound(aof)
  /\ \A h \in Handler : HandlerSound(h)
  /\ lostDecision \/ Fenced

-----------------------------------------------------------------------------
(* What a store call does to the record, whatever the record is. *)

\* The six ways a command of handler h changes the record r at time now into q.
Moves(h, call, r, q) ==
  \/ q = r
  \/ r.state \in {"absent", "claimed"} /\ q.state \in {"absent", "claimed"}
  \/ r.state = "completed" /\ now >= r.expireAt /\ q.state \in {"absent", "claimed"}
  \/ r.state = "started" /\ q.state = "ambiguous" /\ q.expireAt = NoExpiry
  \/ /\ call = "starting" /\ r.state = "claimed" /\ r.owner = h
     /\ q.state = "started" /\ q.owner = h /\ q.expireAt = NoExpiry
  \/ /\ call = "completing" /\ r.state = "started" /\ r.owner = h
     /\ q.state = "completed" /\ q.result = h /\ q.fp = fp[h]
     /\ q.expireAt = now + CompletedTtl

\* Expiry removes nothing but claims and retained answers.
LEMMA CurrentIs ==
  ASSUME TypeOK
  PROVE  /\ Current \in Record
         /\ \/ Current = rec
            \/ Current = Absent /\ rec.expireAt # NoExpiry /\ now >= rec.expireAt
BY NamesAssumption DEF TypeOK, Current, Live, Record, RecordState, Absent, NoExpiry, NoOwner, NoPrint

\* The scripts, on any record: what kind of record each leaves.
LEMMA ClaimMoves ==
  ASSUME NEW r \in Record, NEW f \in Fingerprint, NEW o \in Owner, NEW t \in Nat
  PROVE  LET q == AfterClaim(r, f, o, t) IN
         /\ q \in Record
         /\ \/ q = r
            \/ r.state \in {"absent", "claimed"} /\ q.state = "claimed"
            \/ r.state = "started" /\ q.state = "ambiguous" /\ q.expireAt = NoExpiry
<1>. USE DEF Record, RecordState, NoExpiry
<1>1. CASE Claimable(r, f, t)
  <2>1. t + Lease \in Nat /\ t + 2 * Lease \in Nat /\ r.gen + 1 \in Nat
    BY DurationsAssumption
  <2>2. AfterClaim(r, f, o, t) = Claimed(r, f, o, t)
    BY <1>1 DEF AfterClaim
  <2>. QED
    BY <1>1, <2>1, <2>2 DEF Claimable, Claimed
<1>2. CASE ~Claimable(r, f, t) /\ Abandoned(r, f, t)
  BY <1>2 DEF AfterClaim, Abandoned, Condemned
<1>3. CASE ~Claimable(r, f, t) /\ ~Abandoned(r, f, t)
  BY <1>3 DEF AfterClaim
<1>. QED
  BY <1>1, <1>2, <1>3

LEMMA ReadMoves ==
  ASSUME NEW r \in Record, NEW f \in Fingerprint, NEW t \in Nat
  PROVE  LET q == AfterRead(r, f, t) IN
         /\ q \in Record
         /\ \/ q = r
            \/ r.state = "started" /\ q.state = "ambiguous" /\ q.expireAt = NoExpiry
BY DEF AfterRead, Abandoned, Condemned, Record, RecordState, NoExpiry

LEMMA StartMoves ==
  ASSUME NEW r \in Record, NEW f \in Fingerprint, NEW o \in Owner, NEW g \in Nat,
         NEW t \in Nat
  PROVE  LET q == AfterStart(r, f, o, g, t) IN
         /\ q \in Record
         /\ ~Owned(r, f, o, g, "claimed") => q = r
         /\ Owned(r, f, o, g, "claimed") =>
              /\ r.state = "claimed" /\ r.owner = o
              /\ q.state = "started" /\ q.owner = o /\ q.expireAt = NoExpiry
<1>1. t + Lease \in Nat
  BY DurationsAssumption
<1>. QED
  BY <1>1 DEF AfterStart, Owned, Record, RecordState, NoExpiry

LEMMA CompleteMoves ==
  ASSUME NEW r \in Record, NEW f \in Fingerprint, NEW o \in Owner, NEW g \in Nat,
         NEW t \in Nat
  PROVE  LET q == AfterComplete(r, f, o, g, t) IN
         /\ q \in Record
         /\ ~Owned(r, f, o, g, "started") => q = r
         /\ Owned(r, f, o, g, "started") =>
              /\ r.state = "started" /\ r.owner = o
              /\ q.state = "completed" /\ q.result = o /\ q.fp = f
              /\ q.expireAt = t + CompletedTtl
<1>1. t + CompletedTtl \in Nat
  BY DurationsAssumption
<1>. QED
  BY <1>1 DEF AfterComplete, Owned, Record, RecordState, NoExpiry

LEMMA ReleaseMoves ==
  ASSUME NEW r \in Record, NEW f \in Fingerprint, NEW o \in Owner, NEW g \in Nat
  PROVE  LET q == AfterRelease(r, f, o, g) IN
         /\ q \in Record
         /\ \/ q = r
            \/ r.state = "claimed" /\ q.state = "absent"
BY NamesAssumption
DEF AfterRelease, Owned, Absent, Record, RecordState, NoExpiry, NoOwner, NoPrint

\* Every command makes one of the moves on the record it finds.
LEMMA CommandMoves ==
  ASSUME TypeOK, NEW h \in Handler, NEW call \in Calls, fp[h] \in Fingerprint
  PROVE  /\ Applied(h, call) \in Record
         /\ Moves(h, call, Current, Applied(h, call))
         /\ Completes(h, call) <=> Current.state = "started" /\ Applied(h, call).state = "completed"
         /\ call = "starting" /\ Owned(Current, fp[h], h, gen[h], "claimed")
              => Current.state = "claimed" /\ Applied(h, call).state = "started" /\ Applied(h, call).owner = h
<1>1. Current \in Record
  BY CurrentIs
<1>2. gen[h] \in Nat /\ now \in Nat /\ h \in Owner
  BY DEF TypeOK, Handler
<1>3. CASE call = "claiming"
  <2>1. Applied(h, call) = AfterClaim(Current, fp[h], h, now) /\ ~Completes(h, call)
    BY <1>3 DEF Applied, Completes
  <2>. QED
    BY <1>1, <1>2, <1>3, <2>1, ClaimMoves DEF Moves
<1>4. CASE call = "reading"
  <2>1. Applied(h, call) = AfterRead(Current, fp[h], now) /\ ~Completes(h, call)
    BY <1>4 DEF Applied, Completes
  <2>. QED
    BY <1>1, <1>2, <1>4, <2>1, ReadMoves DEF Moves
<1>5. CASE call = "releasing"
  <2>1. Applied(h, call) = AfterRelease(Current, fp[h], h, gen[h]) /\ ~Completes(h, call)
    BY <1>5 DEF Applied, Completes
  <2>. QED
    BY <1>1, <1>2, <1>5, <2>1, ReleaseMoves DEF Moves
<1>6. CASE call = "starting"
  <2>1. Applied(h, call) = AfterStart(Current, fp[h], h, gen[h], now) /\ ~Completes(h, call)
    BY <1>6 DEF Applied, Completes
  <2>. QED
    BY <1>1, <1>2, <1>6, <2>1, StartMoves DEF Moves
<1>7. CASE call = "completing"
  <2>1. Applied(h, call) = AfterComplete(Current, fp[h], h, gen[h], now)
    BY <1>7 DEF Applied
  <2>2. Completes(h, call) <=> Owned(Current, fp[h], h, gen[h], "started")
    BY <1>7 DEF Completes
  <2>. QED
    BY <1>1, <1>2, <1>7, <2>1, <2>2, CompleteMoves DEF Moves
<1>. QED
  BY <1>3, <1>4, <1>5, <1>6, <1>7 DEF Calls

\* The same, said of the stored record: expiry is one more way to change it.
LEMMA RecordMoves ==
  ASSUME TypeOK, RecordSound(rec), NEW h \in Handler, NEW call \in Calls, fp[h] \in Fingerprint
  PROVE  /\ Applied(h, call) \in Record
         /\ Moves(h, call, rec, Applied(h, call))
         /\ Completes(h, call) <=> rec.state = "started" /\ Applied(h, call).state = "completed"
         /\ call = "starting" /\ Owned(Current, fp[h], h, gen[h], "claimed") =>
              rec.state = "claimed" /\ Applied(h, call).state = "started" /\ Applied(h, call).owner = h
<1>1. CASE Current = rec
  BY <1>1, CommandMoves
<1>2. CASE Current = Absent /\ rec.expireAt # NoExpiry /\ now >= rec.expireAt
  <2>1. rec.state \in {"absent", "claimed", "completed"}
    BY <1>2 DEF TypeOK, Record, RecordState, RecordSound
  <2>2. Absent.state = "absent"
    BY DEF Absent
  <2>3. Applied(h, call) = Absent \/ Applied(h, call).state \in {"absent", "claimed"}
    BY <1>2, <2>2, CommandMoves DEF Moves
  <2>4. Applied(h, call).state \in {"absent", "claimed"}
    BY <2>2, <2>3
  <2>. QED
    BY <1>2, <2>1, <2>2, <2>4, CommandMoves DEF Moves
<1>. QED
  BY <1>1, <1>2, CurrentIs

-----------------------------------------------------------------------------
(* What a store call, or a straggler of one, preserves. *)

\* The circumstances of every executed command.
Executes(h, call) ==
  /\ call \in Calls /\ pc[h] # "idle"
  /\ call = "completing" => sentAt[h] # 0
  /\ Perform(h, call) /\ now' = now /\ fp' = fp

LEMMA ExecutesSound ==
  ASSUME IInv, NEW h \in Handler, NEW call, Executes(h, call)
  PROVE  /\ rec' \in Record /\ doneAt' \in [Handler -> Nat]
         /\ Moves(h, call, rec, rec')
         /\ RecordSound(rec)' /\ RecordSound(aof)'
         /\ \A k \in Handler : doneAt'[k] # 0 => sentAt[k] # 0
<1>. USE DEF IInv
<1>1. fp[h] \in Fingerprint /\ call \in Calls
  BY DEF Executes, HandlerSound
<1>2. rec' = Applied(h, call) /\ aof' = aof /\ sentAt' = sentAt /\ fp' = fp
  BY DEF Executes, Perform
<1>3. rec' \in Record /\ Moves(h, call, rec, rec')
  BY <1>1, <1>2, RecordMoves
<1>4. doneAt' = doneAt \/ (call = "completing" /\ doneAt' = [doneAt EXCEPT ![h] = now])
  BY DEF Executes, Perform, Completes
<1>5. doneAt' \in [Handler -> Nat]
  BY <1>4 DEF TypeOK
<1>6. \A k \in Handler : doneAt'[k] # 0 => sentAt[k] # 0
  BY <1>4 DEF TypeOK, HandlerSound, Executes
<1>7. RecordSound(aof)'
  BY <1>2 DEF RecordSound
<1>8. RecordSound(rec)'
  <2>1. RecordSound(rec)
    OBVIOUS
  <2>2. call = "completing" => sentAt[h] # 0
    BY DEF Executes
  <2>. QED
    BY <1>2, <1>3, <2>1, <2>2 DEF RecordSound, Moves
<1>. QED
  BY <1>3, <1>5, <1>6, <1>7, <1>8

\* A handler may become committed by this command only: its mark_started.
Enters(h, call) ==
  call = "starting" /\ rec.state = "claimed" /\ rec'.state = "started" /\ rec'.owner = h

LEMMA ExecutesFenced ==
  ASSUME IInv, Fenced, NEW h \in Handler, NEW call, Executes(h, call),
         \A k \in Handler : Committed(k)' => Committed(k) \/ (k = h /\ Enters(h, call))
  PROVE  /\ \A k \in Handler : Kept(k)' /\ Retained(k)'
         /\ Apart'
         /\ rec.state = "ambiguous" => rec'.state = "ambiguous"
<1>. USE DEF IInv, Fenced
<1>1. Moves(h, call, rec, rec')
  BY ExecutesSound
<1>2. sentAt' = sentAt /\ now' = now /\ now \in Nat \ {0} /\ doneAt \in [Handler -> Nat]
      /\ sentAt \in [Handler -> Nat] /\ CompletedTtl \in Nat
  BY DurationsAssumption DEF Executes, Perform, TypeOK
<1>3. Completes(h, call) <=> rec.state = "started" /\ rec'.state = "completed"
  <2>1. fp[h] \in Fingerprint /\ call \in Calls /\ rec' = Applied(h, call)
    BY DEF Executes, HandlerSound, Perform
  <2>. QED
    BY <2>1, RecordMoves
<1>4. doneAt' = IF Completes(h, call) /\ doneAt[h] = 0
                THEN [doneAt EXCEPT ![h] = now] ELSE doneAt
  BY DEF Executes, Perform
<1>5. \A k \in Handler : doneAt[k] # 0 => doneAt'[k] = doneAt[k]
  BY <1>2, <1>4
<1>6. ASSUME NEW k \in Handler PROVE Kept(k)'
  <2>1. SUFFICES ASSUME InDoubt(k)'
                 PROVE  rec'.state = "ambiguous" \/ (rec'.state = "started" /\ rec'.owner = k)
    BY DEF Kept
  <2>2. doneAt[k] = 0 /\ Committed(k)'
    BY <1>2, <1>5, <2>1 DEF InDoubt
  <2>3. CASE k = h /\ Enters(h, call)
    BY <2>3 DEF Enters
  <2>4. CASE Committed(k)
    <3>1. rec.state = "ambiguous" \/ (rec.state = "started" /\ rec.owner = k)
      BY <2>2, <2>4 DEF Kept, InDoubt
    <3>2. ~(rec.state = "started" /\ rec.owner = h /\ rec'.state = "completed" /\ k = h)
      BY <1>2, <1>3, <1>4, <2>1, <2>2 DEF InDoubt
    <3>. QED
      BY <1>1, <3>1, <3>2 DEF Moves
  <2>. QED
    BY <2>2, <2>3, <2>4
<1>7. ASSUME NEW k \in Handler PROVE Retained(k)'
  <2>1. CASE doneAt[k] # 0
    <3>1. doneAt'[k] = doneAt[k]
      BY <1>5, <2>1
    <3>2. \/ doneAt[k] + CompletedTtl <= now
          \/ rec.state = "completed" /\ rec.expireAt = doneAt[k] + CompletedTtl
      BY <2>1 DEF Retained
    <3>3. \/ doneAt[k] + CompletedTtl <= now
          \/ rec' = rec
      BY <1>1, <1>2, <3>2 DEF Moves
    <3>. QED
      BY <1>2, <3>1, <3>2, <3>3 DEF Retained
  <2>2. CASE doneAt[k] = 0 /\ doneAt'[k] # 0
    <3>1. k = h /\ Completes(h, call) /\ doneAt'[k] = now
      BY <1>2, <1>4, <2>2
    <3>2. rec'.state = "completed" /\ rec'.expireAt = now + CompletedTtl
      BY <1>1, <1>3, <3>1 DEF Moves
    <3>. QED
      BY <3>1, <3>2 DEF Retained
  <2>3. CASE doneAt[k] = 0 /\ doneAt'[k] = 0
    BY <2>3 DEF Retained
  <2>. QED
    BY <2>1, <2>2, <2>3
<1>8. Apart'
  <2>1. SUFFICES ASSUME NEW a \in Handler, NEW b \in Handler, a # b,
                        Committed(a)', Committed(b)'
                 PROVE  Before(a, b)' \/ Before(b, a)'
    BY DEF Apart
  <2>2. \A x, y \in Handler : Before(x, y) => Before(x, y)'
    BY <1>2, <1>5 DEF Before
  <2>3. \A x \in Handler : x # h /\ Committed(x) /\ ~Committed(h) /\ Enters(h, call) => Before(x, h)
    BY <1>2 DEF Enters, Kept, Retained, InDoubt, Before, Committed
  <2>4. CASE Committed(a) /\ Committed(b)
    BY <2>1, <2>2, <2>4 DEF Apart
  <2>5. CASE ~Committed(a)
    BY <2>1, <2>2, <2>3, <2>5
  <2>6. CASE ~Committed(b)
    BY <2>1, <2>2, <2>3, <2>6
  <2>. QED
    BY <2>4, <2>5, <2>6
<1>9. rec.state = "ambiguous" => rec'.state = "ambiguous"
  BY <1>1 DEF Moves
<1>. QED
  BY <1>6, <1>7, <1>8, <1>9

\* A step that leaves the store alone and commits nobody: what it preserves.
LEMMA QuietSound ==
  ASSUME IInv, UNCHANGED <<now, store, doneAt>>, sentAt' \in [Handler -> Nat],
         \A k \in Handler : sentAt'[k] = sentAt[k] \/ (sentAt[k] = 0 /\ sentAt'[k] = now),
         \A k \in Handler : sentAt[k] # 0 => fp'[k] = fp[k],
         \A k \in Handler : Committed(k)' => Committed(k),
         \A k \in Handler : verdict'[k] = "ambiguous" => verdict[k] = "ambiguous"
  PROVE  RecordSound(rec)' /\ RecordSound(aof)' /\ (lostDecision \/ Fenced)'
<1>. USE DEF IInv, store
<1>1. now \in Nat \ {0} /\ sentAt \in [Handler -> Nat]
  BY DEF TypeOK
<1>2. RecordSound(rec)' /\ RecordSound(aof)'
  BY <1>1 DEF RecordSound
<1>3. ASSUME Fenced PROVE Fenced'
  <2>1. \A k \in Handler : Kept(k)' /\ Retained(k)'
    BY <1>3 DEF Fenced, Kept, Retained, InDoubt
  <2>2. Apart'
    BY <1>1, <1>3 DEF Fenced, Apart, Before
  <2>. QED
    BY <1>3, <2>1, <2>2 DEF Fenced
<1>. QED
  BY <1>2, <1>3

-----------------------------------------------------------------------------
(* The actions, one by one. *)

LEMMA ArriveKeeps ==
  ASSUME IInv, NEW h \in Handler, NEW f \in Fingerprint, Arrive(h, f)
  PROVE  IInv'
<1>. USE DEF IInv, Arrive, Goto, ended, history, store
<1>1. TypeOK'
  BY DEF TypeOK, PC, Active, Calls, Delegation
<1>2. \A k \in Handler : HandlerSound(k)'
  BY DEF HandlerSound, TypeOK
<1>3. \A k \in Handler : Committed(k)' => Committed(k)
  BY DEF Committed, Delegation, TypeOK
<1>4. \A k \in Handler : sentAt[k] # 0 => fp'[k] = fp[k]
  BY DEF HandlerSound, TypeOK
<1>. QED
  BY <1>1, <1>2, <1>3, <1>4, QuietSound DEF TypeOK

\* A handler that only moves on inside handle(), or fails, with the store alone.
LEMMA MoveKeeps ==
  ASSUME IInv, NEW h \in Handler, pc[h] # "idle", TypeOK',
         UNCHANGED <<now, store, doneAt, sentAt, fp, result>>,
         NEW point \in Active \cup {"failed"}, pc' = [pc EXCEPT ![h] = point],
         point \in Delegation => pc[h] \in Delegation,
         point \in {"awaiting", "answered", "completing"} => sentAt[h] # 0,
         sentAt[h] # 0 => point \in {"awaiting", "answered", "completing", "failed"},
         \A k \in Handler :
           straggler'[k] = "completing" => straggler[k] = "completing" \/ sentAt[k] # 0,
         \A k \in Handler : pc[k] = "idle" => straggler'[k] = straggler[k],
         \A k \in Handler : verdict'[k] = "ambiguous" => verdict[k] = "ambiguous"
  PROVE  IInv'
<1>. USE DEF IInv, store
<1>1. \A k \in Handler : HandlerSound(k)'
  BY DEF HandlerSound, TypeOK, Active, Calls, Delegation
<1>2. \A k \in Handler : Committed(k)' => Committed(k)
  BY DEF Committed, TypeOK
<1>. QED
  BY <1>1, <1>2, QuietSound DEF TypeOK

LEMMA PollKeeps ==
  ASSUME IInv, NEW h \in Handler, Poll(h)
  PROVE  IInv'
<1>. USE DEF IInv, Poll, Goto, Fail, ended, history, store, local
<1>1. TypeOK'
  BY DEF TypeOK, PC, Active, Calls, Delegation, Verdict
<1>2. PICK point \in {"failed", "reading"} : pc' = [pc EXCEPT ![h] = point]
  OBVIOUS
<1>4. sentAt[h] = 0
  BY DEF HandlerSound
<1>3. \A k \in Handler : verdict'[k] = "ambiguous" => verdict[k] = "ambiguous"
  BY DEF TypeOK
<1>. QED
  BY <1>1, <1>2, <1>3, <1>4, MoveKeeps DEF Active, Calls, Delegation

LEMMA CheckCancelledKeeps ==
  ASSUME IInv, NEW h \in Handler, CheckCancelled(h)
  PROVE  IInv'
<1>. USE DEF IInv, CheckCancelled, Goto, ended, history, store, local
<1>1. TypeOK'
  BY DEF TypeOK, PC, Active, Calls, Delegation
<1>2. PICK point \in {"releasing", "starting"} : pc' = [pc EXCEPT ![h] = point]
  OBVIOUS
<1>3. sentAt[h] = 0
  BY DEF HandlerSound
<1>. QED
  BY <1>1, <1>2, <1>3, MoveKeeps DEF Active, Calls, Delegation

LEMMA TransportFailsKeeps ==
  ASSUME IInv, NEW h \in Handler, TransportFails(h)
  PROVE  IInv'
<1>. USE DEF IInv, TransportFails, Fail, Inject, history, store, local
<1>1. TypeOK'
  BY DEF TypeOK, PC, Active, Calls, Delegation, Verdict
<1>2. \A k \in Handler : verdict'[k] = "ambiguous" => verdict[k] = "ambiguous"
  BY DEF TypeOK
<1>. QED
  BY <1>1, <1>2, MoveKeeps DEF Active, Calls, Delegation

LEMMA RespondKeeps ==
  ASSUME IInv, NEW h \in Handler, Respond(h)
  PROVE  IInv'
<1>. USE DEF IInv, Respond, Goto, ended, history, store, local
<1>1. TypeOK'
  BY DEF TypeOK, PC, Active, Calls, Delegation
<1>2. sentAt[h] # 0
  BY DEF HandlerSound
<1>. QED
  BY <1>1, <1>2, MoveKeeps DEF Active, Calls, Delegation

LEMMA SettleKeeps ==
  ASSUME IInv, NEW h \in Handler, Settle(h)
  PROVE  IInv'
<1>. USE DEF IInv, Settle, Goto, Fail, ended, history, store, local
<1>1. TypeOK'
  BY DEF TypeOK, PC, Active, Calls, Delegation, Verdict
<1>2. PICK point \in {"failed", "completing"} : pc' = [pc EXCEPT ![h] = point]
  OBVIOUS
<1>3. \A k \in Handler : verdict'[k] = "ambiguous" => verdict[k] = "ambiguous"
  BY DEF TypeOK
<1>4. sentAt[h] # 0
  BY DEF HandlerSound
<1>. QED
  BY <1>1, <1>2, <1>3, <1>4, MoveKeeps DEF Active, Calls, Delegation

LEMMA UnavailableKeeps ==
  ASSUME IInv, NEW h \in Handler, Unavailable(h)
  PROVE  IInv'
<1>. USE DEF IInv, Unavailable, Fail, Inject, history, store, local
<1>1. TypeOK'
  BY DEF TypeOK, PC, Active, Calls, Delegation, Verdict
<1>2. \A k \in Handler : verdict'[k] = "ambiguous" => verdict[k] = "ambiguous"
  BY DEF TypeOK
<1>3. \A k \in Handler :
        straggler'[k] = "completing" => straggler[k] = "completing" \/ sentAt[k] # 0
  BY DEF TypeOK, HandlerSound
<1>4. \A k \in Handler : pc[k] = "idle" => straggler'[k] = straggler[k]
  BY DEF TypeOK, Calls
<1>. QED
  BY <1>1, <1>2, <1>3, <1>4, MoveKeeps DEF Active, Calls, Delegation

LEMMA CrashKeeps ==
  ASSUME IInv, NEW h \in Handler, Crash(h)
  PROVE  IInv'
<1>. USE DEF IInv, Crash, Fail, Inject, history, store, local
<1>1. TypeOK'
  BY DEF TypeOK, PC, Active, Calls, Delegation, Verdict
<1>2. \A k \in Handler : verdict'[k] = "ambiguous" => verdict[k] = "ambiguous"
  BY DEF TypeOK
<1>3. \A k \in Handler :
        straggler'[k] = "completing" => straggler[k] = "completing" \/ sentAt[k] # 0
  BY DEF TypeOK, HandlerSound
<1>4. \A k \in Handler : pc[k] = "idle" => straggler'[k] = straggler[k]
  BY DEF TypeOK, Calls, Active, Delegation
<1>. QED
  BY <1>1, <1>2, <1>3, <1>4, MoveKeeps DEF Active, Calls, Delegation

LEMMA ResendKeeps ==
  ASSUME IInv, NEW h \in Handler, Resend(h)
  PROVE  IInv'
<1>. USE DEF IInv, Resend, Inject, ended, history, store, local
<1>1. TypeOK'
  BY DEF TypeOK, Calls
<1>2. pc' = [pc EXCEPT ![h] = pc[h]]
  BY DEF TypeOK
<1>3. \A k \in Handler :
        straggler'[k] = "completing" => straggler[k] = "completing" \/ sentAt[k] # 0
  BY DEF TypeOK, HandlerSound
<1>4. \A k \in Handler : pc[k] = "idle" => straggler'[k] = straggler[k]
  BY DEF TypeOK, Calls
<1>5. pc[h] \in {"awaiting", "answered", "completing"} <=> sentAt[h] # 0
  BY DEF HandlerSound, Active, Calls, Delegation
<1>. QED
  BY <1>1, <1>2, <1>3, <1>4, <1>5, MoveKeeps DEF Active, Calls, Delegation

LEMMA CancelKeeps ==
  ASSUME IInv, NEW h \in Handler, Cancel(h)
  PROVE  IInv'
<1>. USE DEF IInv, Cancel, Inject, ended, history, store
<1>1. TypeOK'
  BY DEF TypeOK
<1>2. pc' = [pc EXCEPT ![h] = pc[h]] /\ pc[h] # "idle"
  BY DEF TypeOK, Active, Calls, Delegation
<1>3. pc[h] \in {"awaiting", "answered", "completing"} <=> sentAt[h] # 0
  BY DEF HandlerSound, Active, Calls, Delegation
<1>. QED
  BY <1>1, <1>2, <1>3, MoveKeeps DEF Active, Calls, Delegation

\* The call itself: the handler was committed already.
LEMMA SendKeeps ==
  ASSUME IInv, NEW h \in Handler, Send(h)
  PROVE  IInv'
<1>. USE DEF IInv, Send, Goto, ended, store, local
<1>1. TypeOK'
  BY DEF TypeOK, PC, Active, Calls, Delegation
<1>2. now # 0
  BY DEF TypeOK
<1>3. \A k \in Handler : HandlerSound(k)'
  BY <1>2 DEF HandlerSound, TypeOK
<1>4. \A k \in Handler : Committed(k)' => Committed(k)
  BY DEF Committed, Delegation, TypeOK
<1>5. sentAt[h] = 0
  BY DEF HandlerSound
<1>. QED
  BY <1>1, <1>3, <1>4, <1>5, QuietSound DEF TypeOK

\* The six actions that execute a store command: their common part.  What is
\* left to each is the place it leaves its handler in.
LEMMA ExecuteKeeps ==
  ASSUME IInv, TypeOK', NEW h \in Handler, NEW call, Executes(h, call),
         \A k \in Handler : Committed(k)' => Committed(k) \/ (k = h /\ Enters(h, call)),
         \A k \in Handler : HandlerSound(k)',
         \A k \in Handler :
           verdict'[k] = "ambiguous" => verdict[k] = "ambiguous" \/ rec'.state = "ambiguous"
  PROVE  IInv'
<1>1. RecordSound(rec)' /\ RecordSound(aof)'
  BY ExecutesSound
<1>2. lostDecision' = lostDecision
  BY DEF Executes, Perform
<1>3. CASE lostDecision
  BY <1>1, <1>2, <1>3 DEF IInv
<1>4. CASE Fenced
  <2>1. /\ \A k \in Handler : Kept(k)' /\ Retained(k)'
        /\ Apart'
        /\ rec.state = "ambiguous" => rec'.state = "ambiguous"
    BY <1>4, ExecutesFenced
  <2>2. \A k \in Handler : verdict'[k] = "ambiguous" => rec'.state = "ambiguous"
    BY <1>4, <2>1 DEF Fenced
  <2>. QED
    BY <1>1, <1>2, <2>1, <2>2 DEF IInv, Fenced
<1>. QED
  BY <1>3, <1>4 DEF IInv

\* A retained answer that a call reads is the answer to the caller's request.
LEMMA ReplayIsOwn ==
  ASSUME IInv, NEW h \in Handler, Current.fp = fp[h], Current.state = "completed"
  PROVE  LET a == Current.result IN a \in Handler /\ sentAt[a] # 0 /\ fp[a] = fp[h]
BY CurrentIs DEF IInv, RecordSound, Absent

LEMMA ClaimKeeps ==
  ASSUME IInv, NEW h \in Handler, Claim(h)
  PROVE  IInv'
<1>. DEFINE status == ClaimStatus(Current, fp[h], now)
<1>. USE DEF IInv
<1>1. Executes(h, "claiming") /\ sentAt' = sentAt /\ sentAt[h] = 0
  BY DEF Executes, Claim, Perform, Calls, HandlerSound
<1>2. rec' \in Record /\ doneAt' \in [Handler -> Nat]
      /\ \A k \in Handler : doneAt'[k] # 0 => sentAt[k] # 0
  BY <1>1, ExecutesSound
<1>3. Current \in Record /\ rec' = AfterClaim(Current, fp[h], h, now)
  BY CurrentIs DEF Claim, Perform, Applied
<1>4. status = "completed" => Current.fp = fp[h] /\ Current.state = "completed"
  BY <1>3 DEF ClaimStatus, Record, RecordState
<1>5. status = "ambiguous" => rec'.state = "ambiguous"
  BY <1>3 DEF ClaimStatus, AfterClaim, Condemned, Abandoned, Record, RecordState
<1>6. now + WaitFor \in Nat /\ rec'.gen \in Nat
  BY <1>2, BoundsAssumption DEF TypeOK, Record
<1>7. \/ /\ status = "acquired" /\ Goto(h, "owning")
         /\ gen' = [gen EXCEPT ![h] = rec'.gen] /\ waitUntil' = waitUntil
      \/ /\ status = "completed" /\ Return(h, Current.result)
         /\ gen' = gen /\ waitUntil' = waitUntil
      \/ /\ status \in {"ambiguous", "conflict"} /\ Fail(h, status)
         /\ gen' = gen /\ waitUntil' = waitUntil
      \/ /\ status = "in_progress" /\ Goto(h, "polling")
         /\ gen' = gen /\ waitUntil' = [waitUntil EXCEPT ![h] = now + WaitFor]
  BY DEF Claim
<1>8. UNCHANGED <<now, aof, lostDecision, fp, cancelled, straggler, faults, sentAt>>
  BY DEF Claim, Perform
<1>9. status = "completed" =>
        LET a == Current.result IN a \in Handler /\ sentAt[a] # 0 /\ fp[a] = fp[h]
  BY <1>4, ReplayIsOwn
<1>. HIDE DEF status
<1>10. TypeOK'
  BY <1>2, <1>6, <1>7, <1>8, <1>9
  DEF TypeOK, Goto, Fail, Return, ended, PC, Active, Calls, Delegation, Verdict, Handler
<1>11. pc[h] = "claiming"
  BY DEF Claim
<1>12. \A k \in Handler : HandlerSound(k)'
  BY <1>1, <1>2, <1>7, <1>8, <1>9, <1>11 DEF HandlerSound, TypeOK, Goto, Fail, Return, ended
<1>13. \A k \in Handler : Committed(k)' => Committed(k)
  BY <1>7, <1>8, <1>11 DEF Committed, Delegation, TypeOK, Goto, Fail, Return
<1>14. \A k \in Handler :
         verdict'[k] = "ambiguous" => verdict[k] = "ambiguous" \/ rec'.state = "ambiguous"
  BY <1>5, <1>7 DEF TypeOK, Goto, Fail, Return, ended
<1>. QED
  BY <1>1, <1>10, <1>12, <1>13, <1>14, ExecuteKeeps

LEMMA ReadKeeps ==
  ASSUME IInv, NEW h \in Handler, Read(h)
  PROVE  IInv'
<1>. DEFINE status == ReadStatus(Current, fp[h], now)
<1>. USE DEF IInv
<1>1. Executes(h, "reading") /\ sentAt' = sentAt /\ sentAt[h] = 0 /\ pc[h] = "reading"
  BY DEF Executes, Read, Perform, Calls, HandlerSound, local
<1>2. rec' \in Record /\ doneAt' \in [Handler -> Nat]
      /\ \A k \in Handler : doneAt'[k] # 0 => sentAt[k] # 0
  BY <1>1, ExecutesSound
<1>3. Current \in Record /\ rec' = AfterRead(Current, fp[h], now)
  BY CurrentIs DEF Read, Perform, Applied
<1>4. status = "completed" => Current.fp = fp[h] /\ Current.state = "completed"
  BY <1>3 DEF ReadStatus, Record, RecordState
<1>5. status = "ambiguous" => rec'.state = "ambiguous"
  BY <1>3 DEF ReadStatus, AfterRead, Condemned, Abandoned, Record, RecordState
<1>6. \/ status = "completed" /\ Return(h, Current.result)
      \/ status \in {"ambiguous", "conflict"} /\ Fail(h, status)
      \/ status = "missing" /\ Fail(h, "state_invalid")
      \/ status = "in_progress" /\ Goto(h, "polling")
  BY DEF Read
<1>7. UNCHANGED <<now, aof, lostDecision, local, straggler, faults, sentAt>>
  BY DEF Read, Perform
<1>8. status = "completed" =>
        LET a == Current.result IN a \in Handler /\ sentAt[a] # 0 /\ fp[a] = fp[h]
  BY <1>4, ReplayIsOwn
<1>. HIDE DEF status
<1>9. TypeOK'
  BY <1>2, <1>6, <1>7, <1>8
  DEF TypeOK, Goto, Fail, Return, ended, local, PC, Active, Calls, Delegation, Verdict, Handler
<1>10. \A k \in Handler : HandlerSound(k)'
  BY <1>1, <1>2, <1>6, <1>7, <1>8 DEF HandlerSound, TypeOK, Goto, Fail, Return, ended, local
<1>11. \A k \in Handler : Committed(k)' => Committed(k)
  BY <1>1, <1>6, <1>7 DEF Committed, Delegation, TypeOK, Goto, Fail, Return
<1>12. \A k \in Handler :
         verdict'[k] = "ambiguous" => verdict[k] = "ambiguous" \/ rec'.state = "ambiguous"
  BY <1>5, <1>6 DEF TypeOK, Goto, Fail, Return, ended
<1>. QED
  BY <1>1, <1>9, <1>10, <1>11, <1>12, ExecuteKeeps

LEMMA ReleaseKeeps ==
  ASSUME IInv, NEW h \in Handler, Release(h)
  PROVE  IInv'
<1>. USE DEF IInv
<1>1. Executes(h, "releasing") /\ sentAt' = sentAt /\ sentAt[h] = 0 /\ pc[h] = "releasing"
  BY DEF Executes, Release, Perform, Calls, HandlerSound, local
<1>2. rec' \in Record /\ doneAt' \in [Handler -> Nat]
      /\ \A k \in Handler : doneAt'[k] # 0 => sentAt[k] # 0
  BY <1>1, ExecutesSound
<1>3. /\ Fail(h, "cancelled") \/ Fail(h, "backend_unavailable")
      /\ UNCHANGED <<now, aof, lostDecision, local, straggler, faults, sentAt>>
  BY DEF Release, Perform
<1>4. TypeOK'
  BY <1>2, <1>3 DEF TypeOK, Fail, local, PC, Active, Verdict
<1>5. \A k \in Handler : HandlerSound(k)'
  BY <1>1, <1>2, <1>3 DEF HandlerSound, TypeOK, Fail, local
<1>6. \A k \in Handler : Committed(k)' => Committed(k)
  BY <1>1, <1>3 DEF Committed, Delegation, TypeOK, Fail
<1>7. \A k \in Handler : verdict'[k] = "ambiguous" => verdict[k] = "ambiguous"
  BY <1>3 DEF TypeOK, Fail
<1>. QED
  BY <1>1, <1>4, <1>5, <1>6, <1>7, ExecuteKeeps

LEMMA StartKeeps ==
  ASSUME IInv, NEW h \in Handler, Start(h)
  PROVE  IInv'
<1>. USE DEF IInv
<1>1. Executes(h, "starting") /\ sentAt' = sentAt /\ sentAt[h] = 0 /\ pc[h] = "starting"
  BY DEF Executes, Start, Perform, Calls, HandlerSound, local
<1>2. rec' \in Record /\ doneAt' \in [Handler -> Nat]
      /\ \A k \in Handler : doneAt'[k] # 0 => sentAt[k] # 0
  BY <1>1, ExecutesSound
<1>3. /\ \/ Owned(Current, fp[h], h, gen[h], "claimed") /\ Goto(h, "delegating")
         \/ Fail(h, "state_invalid")
      /\ UNCHANGED <<now, aof, lostDecision, local, straggler, faults, sentAt>>
  BY DEF Start, Perform
<1>4. TypeOK'
  BY <1>2, <1>3 DEF TypeOK, Goto, Fail, ended, local, PC, Active, Delegation, Verdict
<1>5. \A k \in Handler : HandlerSound(k)'
  BY <1>1, <1>2, <1>3 DEF HandlerSound, TypeOK, Goto, Fail, ended, local
<1>6. Owned(Current, fp[h], h, gen[h], "claimed") => Enters(h, "starting")
  BY <1>1, RecordMoves DEF Enters, Executes, Perform, HandlerSound
<1>7. \A k \in Handler : Committed(k)' => Committed(k) \/ (k = h /\ Enters(h, "starting"))
  BY <1>1, <1>3, <1>6 DEF Committed, Delegation, TypeOK, Goto, Fail
<1>8. \A k \in Handler : verdict'[k] = "ambiguous" => verdict[k] = "ambiguous"
  BY <1>3 DEF TypeOK, Goto, Fail, ended
<1>. QED
  BY <1>1, <1>4, <1>5, <1>7, <1>8, ExecuteKeeps

LEMMA CompleteKeeps ==
  ASSUME IInv, NEW h \in Handler, Complete(h)
  PROVE  IInv'
<1>. USE DEF IInv
<1>1. Executes(h, "completing") /\ sentAt' = sentAt /\ sentAt[h] # 0 /\ pc[h] = "completing"
  BY DEF Executes, Complete, Perform, Calls, HandlerSound, local
<1>2. rec' \in Record /\ doneAt' \in [Handler -> Nat]
      /\ \A k \in Handler : doneAt'[k] # 0 => sentAt[k] # 0
  BY <1>1, ExecutesSound
<1>3. /\ Return(h, h) \/ Fail(h, "state_invalid")
      /\ UNCHANGED <<now, aof, lostDecision, local, straggler, faults, sentAt>>
  BY DEF Complete, Perform
<1>4. TypeOK'
  BY <1>2, <1>3 DEF TypeOK, Return, Fail, local, PC, Active, Verdict, Handler
<1>5. \A k \in Handler : HandlerSound(k)'
  BY <1>1, <1>2, <1>3 DEF HandlerSound, TypeOK, Return, Fail, local
<1>6. \A k \in Handler : Committed(k)' => Committed(k)
  BY <1>1, <1>3 DEF Committed, Delegation, TypeOK, Return, Fail
<1>7. \A k \in Handler : verdict'[k] = "ambiguous" => verdict[k] = "ambiguous"
  BY <1>3 DEF TypeOK, Return, Fail
<1>. QED
  BY <1>1, <1>4, <1>5, <1>6, <1>7, ExecuteKeeps

LEMMA LandKeeps ==
  ASSUME IInv, NEW h \in Handler, Land(h)
  PROVE  IInv'
<1>. USE DEF IInv
<1>1. Executes(h, straggler[h]) /\ sentAt' = sentAt
  BY DEF Executes, Land, Perform, HandlerSound, local, TypeOK
<1>2. rec' \in Record /\ doneAt' \in [Handler -> Nat]
      /\ \A k \in Handler : doneAt'[k] # 0 => sentAt[k] # 0
  BY <1>1, ExecutesSound
<1>3. /\ straggler' = [straggler EXCEPT ![h] = "none"]
      /\ UNCHANGED <<now, aof, lostDecision, pc, local, ended, faults, sentAt>>
  BY DEF Land, Perform
<1>4. TypeOK'
  BY <1>2, <1>3 DEF TypeOK, local, ended
<1>5. \A k \in Handler : HandlerSound(k)'
  BY <1>2, <1>3 DEF HandlerSound, TypeOK, local, ended
<1>6. \A k \in Handler : Committed(k)' => Committed(k)
  BY <1>3 DEF Committed
<1>7. \A k \in Handler : verdict'[k] = "ambiguous" => verdict[k] = "ambiguous"
  BY <1>3 DEF ended
<1>. QED
  BY <1>1, <1>4, <1>5, <1>6, <1>7, ExecuteKeeps

LEMMA FsyncKeeps ==
  ASSUME IInv, Fsync
  PROVE  IInv'
<1>. USE DEF IInv, Fsync, local, ended, history
<1>1. TypeOK'
  BY DEF TypeOK
<1>2. RecordSound(rec)' /\ RecordSound(aof)' /\ \A k \in Handler : HandlerSound(k)'
  BY DEF RecordSound, HandlerSound
<1>3. Fenced => Fenced'
  BY DEF Fenced, Kept, Retained, Apart, Before, InDoubt, Committed
<1>. QED
  BY <1>1, <1>2, <1>3

\* A restart that loses nothing decided finds no delegation in doubt.
LEMMA RestartKeeps ==
  ASSUME IInv, RedisRestart
  PROVE  IInv'
<1>. USE DEF IInv, RedisRestart, local, ended, history
<1>1. TypeOK'
  BY DEF TypeOK, Inject
<1>2. RecordSound(rec)' /\ RecordSound(aof)'
  BY DEF RecordSound
<1>3. \A k \in Handler : HandlerSound(k)'
  BY DEF HandlerSound
<1>4. CASE rec' = rec /\ Fenced
  <2>1. Fenced'
    BY <1>4 DEF Fenced, Kept, Retained, Apart, Before, InDoubt, Committed
  <2>. QED
    BY <1>1, <1>2, <1>3, <2>1
<1>5. CASE rec.state \in {"absent", "claimed"} /\ Fenced
  <2>1. \A h \in Handler : Kept(h)'
    BY <1>5 DEF Fenced, Kept, InDoubt, Committed
  <2>2. \A h \in Handler : Retained(h)'
    BY <1>5 DEF Fenced, Retained
  <2>3. Apart'
    BY <1>5 DEF Fenced, Apart, Before, Committed
  <2>4. \A h \in Handler : verdict[h] # "ambiguous"
    BY <1>5 DEF Fenced
  <2>. QED
    BY <1>1, <1>2, <1>3, <2>1, <2>2, <2>3, <2>4 DEF Fenced
<1>6. CASE lostDecision'
  BY <1>1, <1>2, <1>3, <1>6
<1>. QED
  BY <1>1, <1>2, <1>3, <1>4, <1>5, <1>6

LEMMA TickKeeps ==
  ASSUME IInv, Tick
  PROVE  IInv'
<1>. USE DEF IInv, Tick, store, local, ended, history
<1>1. TypeOK'
  BY DEF TypeOK
<1>2. now \in Nat /\ sentAt \in [Handler -> Nat] /\ doneAt \in [Handler -> Nat]
      /\ CompletedTtl \in Nat
  BY DurationsAssumption DEF TypeOK
<1>3. RecordSound(rec)' /\ RecordSound(aof)'
  BY DEF RecordSound
<1>4. \A k \in Handler : HandlerSound(k)'
  BY <1>2 DEF HandlerSound
<1>5. ASSUME Fenced PROVE Fenced'
  <2>1. \A k \in Handler : Kept(k)'
    BY <1>5 DEF Fenced, Kept, InDoubt, Committed
  <2>2. \A k \in Handler : Retained(k)'
    BY <1>2, <1>5 DEF Fenced, Retained
  <2>3. Apart'
    <3>1. \A a, b \in Handler : Before(a, b) => Before(a, b)'
      BY <1>2 DEF Before
    <3>. QED
      BY <1>5, <3>1 DEF Fenced, Apart, Committed
  <2>. QED
    BY <1>5, <2>1, <2>2, <2>3 DEF Fenced
<1>. QED
  BY <1>1, <1>3, <1>4, <1>5

LEMMA StutterKeeps ==
  ASSUME IInv, UNCHANGED vars
  PROVE  IInv'
<1>. USE DEF IInv, vars, store, local, ended, history
<1>1. TypeOK'
  BY DEF TypeOK
<1>2. RecordSound(rec)' /\ RecordSound(aof)' /\ \A k \in Handler : HandlerSound(k)'
  BY DEF RecordSound, HandlerSound
<1>3. Fenced => Fenced'
  BY DEF Fenced, Kept, Retained, Apart, Before, InDoubt, Committed
<1>. QED
  BY <1>1, <1>2, <1>3

-----------------------------------------------------------------------------
LEMMA InitSound == Init => IInv
<1>. SUFFICES ASSUME Init PROVE IInv
  OBVIOUS
<1>0. Absent \in Record
  BY DEF Absent, Record, RecordState, NoExpiry
<1>1. TypeOK
  <2>1. now = 1 /\ lostDecision \in BOOLEAN
    BY Zenon DEF Init
  <2>6. rec \in Record /\ aof \in Record
    BY <1>0, Zenon DEF Init
  <2>2. pc \in [Handler -> PC] /\ verdict \in [Handler -> Verdict]
    BY DEF Init, PC, Verdict
  <2>3. fp \in [Handler -> Fingerprint \cup {NoPrint}] /\ result \in [Handler -> Owner \cup {NoOwner}]
    BY DEF Init
  <2>4. /\ gen \in [Handler -> Nat] /\ waitUntil \in [Handler -> Nat]
        /\ sentAt \in [Handler -> Nat] /\ doneAt \in [Handler -> Nat] /\ faults \in Nat
    BY DEF Init
  <2>5. cancelled \in [Handler -> BOOLEAN] /\ straggler \in [Handler -> Calls \cup {"none"}]
    BY DEF Init
  <2>. QED
    BY <2>1, <2>2, <2>3, <2>4, <2>5, <2>6 DEF TypeOK
<1>2. RecordSound(rec) /\ RecordSound(aof) /\ \A h \in Handler : HandlerSound(h)
  BY DEF Init, RecordSound, HandlerSound, Absent
<1>3. Fenced
  BY DEF Init, Fenced, Kept, Retained, Apart, Before, InDoubt, Committed, Delegation
<1>. QED
  BY <1>1, <1>2, <1>3 DEF IInv

LEMMA NextKeeps == IInv /\ [Next]_vars => IInv'
<1>. SUFFICES ASSUME IInv, [Next]_vars PROVE IInv'
  OBVIOUS
<1>1. ASSUME NEW h \in Handler, Step(h) PROVE IInv'
  BY <1>1, ClaimKeeps, PollKeeps, ReadKeeps, CheckCancelledKeeps, ReleaseKeeps, StartKeeps,
     SendKeeps, RespondKeeps, SettleKeeps, CompleteKeeps DEF Step
<1>2. ASSUME NEW h \in Handler, Fault(h) PROVE IInv'
  BY <1>2, UnavailableKeeps, ResendKeeps, LandKeeps, CancelKeeps, CrashKeeps,
     TransportFailsKeeps DEF Fault
<1>3. ASSUME NEW h \in Handler, NEW f \in Fingerprint, Arrive(h, f) PROVE IInv'
  BY <1>3, ArriveKeeps
<1>4. CASE Fsync \/ RedisRestart \/ Tick \/ UNCHANGED vars
  BY <1>4, FsyncKeeps, RestartKeeps, TickKeeps, StutterKeeps
<1>. QED
  BY <1>1, <1>2, <1>3, <1>4 DEF Next

\* The inductive invariant holds of every behaviour.
THEOREM Invariance == Spec => []IInv
BY InitSound, NextKeeps, PTL DEF Spec

\* Every variable keeps its type, whatever is lost, repeated or late.
THEOREM TypeCorrect == Spec => []TypeOK
<1>1. IInv => TypeOK
  BY DEF IInv
<1>. QED
  BY <1>1, Invariance, PTL

\* Two delegations of one request are a recorded answer and its whole retention
\* apart, unless a Redis restart lost a decision.
THEOREM DelegatesAtMostOnce == Spec => []AtMostOnce
<1>1. IInv => AtMostOnce
  BY DEF IInv, Fenced, Apart, Before, Committed, AtMostOnce, Separated
<1>. QED
  BY <1>1, Invariance, PTL

\* The outcome of at most one delegation is open at any moment.
THEOREM DoubtIsSingle == Spec => []SingleInDoubt
<1>1. IInv => SingleInDoubt
  BY DEF IInv, Fenced, Apart, Before, InDoubt, SingleInDoubt
<1>. QED
  BY <1>1, Invariance, PTL

\* An open delegation stays in the record, without a time to live.
THEOREM DoubtIsKept == Spec => []InDoubtIsKept
<1>1. IInv => InDoubtIsKept
  BY DEF IInv, Fenced, Kept, RecordSound, InDoubtIsKept
<1>. QED
  BY <1>1, Invariance, PTL

\* An answer returned to a caller was produced for the caller's own request, even
\* if Redis loses writes.
THEOREM AnswersAreOwn == Spec => []AnswerIsOwn
<1>1. IInv => AnswerIsOwn
  BY DEF IInv, HandlerSound, AnswerIsOwn
<1>. QED
  BY <1>1, Invariance, PTL

\* A request reported ambiguous stays ambiguous.
THEOREM AmbiguityIsFinal == Spec => []AmbiguousIsFinal
<1>1. IInv => AmbiguousIsFinal
  BY DEF IInv, Fenced, AmbiguousIsFinal
<1>. QED
  BY <1>1, Invariance, PTL
-----------------------------------------------------------------------------
(* Coordinator implements OneDelegation, as long as Redis keeps what it has  *)
(* acknowledged.                                                             *)

Past == {"completing", "returned", "failed"}

\* A handler whose completion was recorded never owns a delegation again, although a
\* late claim of it may still take the record, and a late start may still land.
Over(h) ==
  /\ straggler[h] = "completing" => pc[h] \in Past
  /\ doneAt[h] # 0 =>
       /\ pc[h] \in Past
       /\ ~(rec.state = "started" /\ rec.owner = h)
       /\ straggler[h] = "starting" => ~(rec.state = "claimed" /\ rec.owner = h)

Durable == ~RedisCrashes /\ ~lostDecision /\ \A h \in Handler : Over(h)

Fresh(r, t) == r.expireAt = NoExpiry \/ t < r.expireAt

\* The ways a command of h changes a record that has not expired.
Goes(h, call, r, q) ==
  \/ q = r
  \/ /\ r.state \in {"absent", "claimed"}
     /\ call = "claiming" /\ q.state = "claimed" /\ q.owner = h
  \/ r.state = "claimed" /\ q.state = "absent"
  \/ r.state = "started" /\ q.state = "ambiguous"
  \/ /\ call = "starting" /\ r.state = "claimed" /\ r.owner = h
     /\ q.state = "started" /\ q.owner = h
  \/ /\ call = "completing" /\ r.state = "started" /\ r.owner = h
     /\ q.state = "completed" /\ q.result = h

LEMMA CurrentIsFresh ==
  ASSUME TypeOK
  PROVE  Current \in Record /\ Fresh(Current, now)
BY CurrentIs DEF TypeOK, Current, Live, Record, Fresh, Absent, NoExpiry

\* The record a command leaves has not expired when it leaves it.
LEMMA ClaimGoes ==
  ASSUME NEW r \in Record, NEW f \in Fingerprint, NEW h \in Owner, NEW t \in Nat, Fresh(r, t)
  PROVE  LET q == AfterClaim(r, f, h, t) IN Goes(h, "claiming", r, q) /\ Fresh(q, t)
<1>1. CASE Claimable(r, f, t)
  <2>1. t + Lease \in Nat /\ t + 2 * Lease \in Nat /\ t < t + 2 * Lease
    BY DurationsAssumption
  <2>2. AfterClaim(r, f, h, t) = Claimed(r, f, h, t)
    BY <1>1 DEF AfterClaim
  <2>. QED
    BY <1>1, <2>1, <2>2 DEF Claimable, Claimed, Goes, Fresh
<1>2. CASE ~Claimable(r, f, t) /\ Abandoned(r, f, t)
  BY <1>2 DEF AfterClaim, Abandoned, Condemned, Goes, Fresh, Record
<1>3. CASE ~Claimable(r, f, t) /\ ~Abandoned(r, f, t)
  BY <1>3 DEF AfterClaim, Goes
<1>. QED
  BY <1>1, <1>2, <1>3

LEMMA CommandGoes ==
  ASSUME IInv, NEW h \in Handler, NEW call, Executes(h, call)
  PROVE  Goes(h, call, Current, rec') /\ Current' = rec'
<1>1. Current \in Record /\ Fresh(Current, now) /\ h \in Owner /\ gen[h] \in Nat /\ now \in Nat
      /\ fp[h] \in Fingerprint /\ call \in Calls /\ rec' = Applied(h, call) /\ now' = now
  BY CurrentIsFresh DEF IInv, TypeOK, Handler, HandlerSound, Executes, Perform
<1>2. now + CompletedTtl \in Nat /\ now < now + CompletedTtl
  BY <1>1, DurationsAssumption
<1>3. Goes(h, call, Current, rec') /\ Fresh(rec', now)
  <2>1. CASE call = "claiming"
    BY <1>1, <2>1, ClaimGoes DEF Applied
  <2>2. CASE call = "reading"
    BY <1>1, <2>2 DEF Applied, AfterRead, Abandoned, Condemned, Goes, Fresh, Record
  <2>3. CASE call = "releasing"
    BY <1>1, <2>3 DEF Applied, AfterRelease, Owned, Absent, Goes, Fresh, Record
  <2>4. CASE call = "starting"
    BY <1>1, <2>4 DEF Applied, AfterStart, Owned, Goes, Fresh, Record
  <2>5. CASE call = "completing"
    BY <1>1, <1>2, <2>5 DEF Applied, AfterComplete, Owned, Goes, Fresh, Record
  <2>. QED
    BY <1>1, <2>1, <2>2, <2>3, <2>4, <2>5 DEF Calls
<1>4. rec'.expireAt \in Nat
  BY ExecutesSound DEF Record
<1>. QED
  BY <1>1, <1>3, <1>4 DEF Current, Live, Fresh, NoExpiry

\* Only a completion is recorded.
LEMMA CommandRecords ==
  ASSUME IInv, NEW h \in Handler, NEW call, Executes(h, call)
  PROVE  \A k \in Handler : doneAt'[k] # doneAt[k] =>
           k = h /\ call = "completing" /\ Current.state = "started" /\ rec'.state = "completed"
<1>1. fp[h] \in Fingerprint /\ call \in Calls /\ rec' = Applied(h, call)
  BY DEF IInv, Executes, HandlerSound, Perform
<1>2. Completes(h, call) =>
        call = "completing" /\ Current.state = "started" /\ rec'.state = "completed"
  BY <1>1, CommandMoves DEF IInv, Completes
<1>. QED
  BY <1>2 DEF IInv, TypeOK, Executes, Perform

LEMMA OverExecutes ==
  ASSUME IInv, Durable, NEW h \in Handler, NEW call, Executes(h, call), lostDecision' = lostDecision,
         pc[h] = call \/ straggler[h] = call,
         \A k \in Handler : pc'[k] = pc[k] \/ (k = h /\ pc[k] = call),
         pc[h] = call /\ call = "completing" => pc'[h] \in Past,
         \A k \in Handler : straggler'[k] \in {straggler[k], "none"}
  PROVE  Durable'
<1>1. Goes(h, call, Current, rec') /\ (Current = rec \/ Current = Absent)
  BY CommandGoes, CurrentIs DEF IInv
<1>2. \A k \in Handler :
        doneAt'[k] # doneAt[k] => k = h /\ call = "completing" /\ rec'.state = "completed"
  BY CommandRecords
<1>3. ASSUME NEW k \in Handler PROVE Over(k)'
  <2>1. pc[k] \in Past => pc'[k] \in Past
    BY DEF Past, Executes, Calls
  <2>2. CASE doneAt'[k] # doneAt[k]
    BY <1>2, <2>1, <2>2 DEF Durable, Over, Past
  <2>3. CASE doneAt'[k] = doneAt[k]
    <3>1. ASSUME doneAt[k] # 0
          PROVE  /\ ~(rec'.state = "started" /\ rec'.owner = k)
                 /\ straggler'[k] = "starting" => ~(rec'.state = "claimed" /\ rec'.owner = k)
      BY <1>1, <3>1 DEF Durable, Over, Past, Goes, Absent
    <3>. QED
      BY <2>1, <2>3, <3>1 DEF Durable, Over
  <2>. QED
    BY <2>2, <2>3
<1>. QED
  BY <1>3 DEF Durable

\* A step that leaves the store alone.
LEMMA OverQuiet ==
  ASSUME Durable, UNCHANGED <<rec, doneAt, lostDecision>>,
         \A k \in Handler : pc[k] \in Past => pc'[k] \in Past,
         \A k \in Handler :
           \/ straggler'[k] \in {straggler[k], "none"}
           \/ straggler'[k] = pc[k]
  PROVE  Durable'
BY DEF Durable, Over, Past

LEMMA DurableStep ==
  ASSUME IInv, Durable, [Next]_vars
  PROVE  Durable'
<1>. USE DEF IInv
<1>0. pc \in [Handler -> PC] /\ straggler \in [Handler -> Calls \cup {"none"}]
  BY DEF TypeOK
<1>1. ASSUME NEW h \in Handler, Claim(h) \/ Read(h) \/ Release(h) \/ Start(h) \/ Complete(h)
      PROVE  Durable'
  <2>1. pc[h] \in Calls /\ Executes(h, pc[h]) /\ UNCHANGED <<straggler, lostDecision>>
    BY <1>1 DEF Claim, Read, Release, Start, Complete, Executes, Perform, Calls, HandlerSound, local
  <2>2. \A k \in Handler : pc'[k] = pc[k] \/ k = h
    BY <1>0, <1>1 DEF Claim, Read, Release, Start, Complete, Goto, Fail, Return
  <2>3. pc[h] = "completing" => pc'[h] \in Past
    BY <1>0, <1>1 DEF Claim, Read, Release, Start, Complete, Goto, Fail, Return, Past
  <2>. QED
    BY <2>1, <2>2, <2>3, OverExecutes
<1>2. ASSUME NEW h \in Handler, Land(h) PROVE Durable'
  <2>1. Executes(h, straggler[h]) /\ UNCHANGED <<pc, lostDecision>>
    BY <1>2 DEF Executes, Land, Perform, HandlerSound, local, TypeOK
  <2>2. straggler[h] = "completing" => pc[h] \in Past
    BY DEF Durable, Over
  <2>3. \A k \in Handler : straggler'[k] \in {straggler[k], "none"}
    BY <1>0, <1>2 DEF Land
  <2>. QED
    BY <2>1, <2>2, <2>3, OverExecutes
<1>3. ASSUME NEW h \in Handler,
             \/ Poll(h) \/ CheckCancelled(h) \/ Send(h) \/ Respond(h) \/ Settle(h)
             \/ TransportFails(h) \/ Cancel(h) \/ \E f \in Fingerprint : Arrive(h, f)
      PROVE  Durable'
  <2>1. UNCHANGED <<rec, doneAt, lostDecision, straggler>>
    BY <1>3 DEF Poll, CheckCancelled, Send, Respond, Settle, TransportFails, Cancel, Arrive,
       store, history, local
  <2>2. \A k \in Handler : pc[k] \in Past => pc'[k] \in Past
    BY <1>0, <1>3 DEF Poll, CheckCancelled, Send, Respond, Settle, TransportFails, Cancel, Arrive,
       Goto, Fail, Past
  <2>. QED
    BY <2>1, <2>2, OverQuiet
<1>4. ASSUME NEW h \in Handler, Unavailable(h) \/ Resend(h) \/ Crash(h) PROVE Durable'
  <2>1. UNCHANGED <<rec, doneAt, lostDecision>>
    BY <1>4 DEF Unavailable, Resend, Crash, store, history
  <2>2. \A k \in Handler : pc[k] \in Past => pc'[k] \in Past
    BY <1>0, <1>4 DEF Unavailable, Resend, Crash, Fail, Past
  <2>3. \A k \in Handler : straggler'[k] = straggler[k] \/ straggler'[k] = pc[k]
    BY <1>0, <1>4 DEF Unavailable, Resend, Crash
  <2>. QED
    BY <2>1, <2>2, <2>3, OverQuiet
<1>5. CASE Fsync \/ RedisRestart
  BY <1>5 DEF Durable, Fsync, RedisRestart
<1>6. CASE Tick \/ UNCHANGED vars
  BY <1>6, OverQuiet DEF Tick, vars, store, history
<1>. QED
  BY <1>1, <1>2, <1>3, <1>4, <1>5, <1>6 DEF Next, Step, Fault

-----------------------------------------------------------------------------
\* What is in doubt is under way or stuck, and Redis still holds it.
LEMMA DoubtShows ==
  ASSUME IInv, Durable, NEW h \in Handler, InDoubt(h)
  PROVE  Phase = "stuck" \/ (Phase = "running" /\ Current.owner = h)
<1>1. rec.state = "ambiguous" \/ (rec.state = "started" /\ rec.owner = h)
  BY DEF IInv, Durable, Fenced, Kept
<1>2. Current = rec
  BY <1>1 DEF IInv, RecordSound, Current, Live
<1>. QED
  BY <1>1, <1>2 DEF Phase

Unanswered == \E h \in Handler : sentAt[h] # 0 /\ doneAt[h] = 0

LEMMA OpenIsQuiet ==
  ASSUME IInv, Durable, Phase = "open"
  PROVE  ~Unanswered
BY DoubtShows DEF Unanswered, InDoubt, Committed

\* The five phases of a record, and what a command of h makes of each.
LEMMA CommandSimulates ==
  ASSUME IInv, Durable, NEW h \in Handler, NEW call, Executes(h, call)
  PROVE  [Promise!Next]_(Promise!vars)
<1>1. Goes(h, call, Current, Current') /\ Current' = rec' /\ Current \in Record /\ sentAt' = sentAt
  BY CommandGoes, CurrentIsFresh DEF IInv, Executes, Perform
<1>2. \A k \in Handler : doneAt'[k] # doneAt[k] =>
        k = h /\ call = "completing" /\ Current.state = "started" /\ Current'.state = "completed"
  BY <1>1, CommandRecords
<1>3. Current'.state # "completed" \/ Current.state # "started" => (Unanswered' <=> Unanswered)
  <2>. SUFFICES ASSUME \A k \in Handler : doneAt'[k] = doneAt[k] PROVE Unanswered' <=> Unanswered
    BY <1>2
  <2>. QED
    BY <1>1 DEF Unanswered
<1>4. Called <=> Phase # "open" /\ (Phase = "done" \/ Unanswered)
  BY DEF Called, Unanswered
<1>5. Called' <=> Phase' # "open" /\ (Phase' = "done" \/ Unanswered')
  BY DEF Called, Unanswered
<1>6. CASE Current' = Current
  <2>1. Phase' = Phase /\ Who' = Who
    BY <1>6 DEF Phase, Who
  <2>2. Unanswered' <=> Unanswered
    BY <1>3, <1>6
  <2>3. Called' = Called
    BY <2>1, <2>2, <1>4, <1>5 DEF Called
  <2>. QED
    BY <2>1, <2>3 DEF Promise!vars
<1>7. CASE Current.state \in {"absent", "claimed"} /\ Current'.state \in {"absent", "claimed"}
  <2>1. Phase = "open" /\ Phase' = "open"
    BY <1>7 DEF Phase
  <2>2. Who' = Who /\ Called' = Called
    BY <2>1 DEF Who, Called
  <2>. QED
    BY <2>1, <2>2 DEF Promise!vars
<1>8. CASE Current.state = "started" /\ Current'.state = "ambiguous"
  <2>1. Phase = "running" /\ Phase' = "stuck" /\ Who' = NoOwner
    BY <1>8 DEF Phase, Who
  <2>2. Called' = Called
    BY <1>3, <1>4, <1>5, <1>8, <2>1 DEF Called
  <2>. QED
    BY <2>1, <2>2 DEF Promise!Next, Promise!GiveUp
<1>9. CASE Current.state = "claimed" /\ Current'.state = "started" /\ Current'.owner = h
  <2>1. Phase = "open" /\ Phase' = "running" /\ Who' = h
    BY <1>9 DEF Phase, Who
  <2>2. ~Unanswered'
    BY <1>3, <1>9, <2>1, OpenIsQuiet
  <2>3. Called' = FALSE
    BY <1>5, <2>1, <2>2 DEF Called
  <2>. QED
    BY <2>1, <2>3 DEF Promise!Next, Promise!Begin, Handler
<1>10. CASE /\ call = "completing" /\ Current.state = "started" /\ Current.owner = h
            /\ Current'.state = "completed" /\ Current'.result = h
  <2>1. Phase = "running" /\ Phase' = "done" /\ Who = h /\ Who' = h
    BY <1>10 DEF Phase, Who
  <2>2. Current = rec
    BY <1>10, CurrentIs DEF IInv, Absent
  <2>3. sentAt[h] # 0 /\ doneAt[h] = 0
    BY <1>10, <2>2 DEF Executes, Durable, Over
  <2>4. Called /\ Called'
    BY <1>4, <1>5, <2>1, <2>3 DEF Unanswered
  <2>. QED
    BY <2>1, <2>4 DEF Promise!Next, Promise!Finish, Called
<1>. QED
  BY <1>1, <1>6, <1>7, <1>8, <1>9, <1>10 DEF Goes

\* Between two commands only a call to the Specialist changes the abstract state.
LEMMA SendSimulates ==
  ASSUME IInv, Durable, NEW h \in Handler, Send(h)
  PROVE  [Promise!Next]_(Promise!vars)
<1>1. /\ pc[h] = "delegating" /\ UNCHANGED <<now, rec, doneAt>>
      /\ sentAt' = [sentAt EXCEPT ![h] = now]
  BY DEF Send, store
<1>2. sentAt[h] = 0 /\ doneAt[h] = 0 /\ now # 0 /\ sentAt'[h] = now
  BY <1>1 DEF IInv, HandlerSound, TypeOK
<1>3. InDoubt(h)
  BY <1>1, <1>2 DEF InDoubt, Committed, Delegation
<1>4. Phase \in {"running", "stuck"} /\ Phase' = Phase /\ Who' = Who
  <2>1. Current' = Current
    BY <1>1 DEF Current
  <2>. QED
    BY <1>3, <2>1, DoubtShows DEF Phase, Who
<1>5. ASSUME NEW k \in Handler, sentAt[k] # 0, doneAt[k] = 0 PROVE FALSE
  <2>1. InDoubt(k)
    BY <1>5 DEF InDoubt, Committed
  <2>2. k = h
    BY <1>3, <2>1 DEF IInv, Durable, Fenced, Apart, Before, InDoubt
  <2>. QED
    BY <1>2, <1>5, <2>2
<1>6. ~Called
  BY <1>4, <1>5 DEF Called
<1>7. Called' = TRUE
  BY <1>1, <1>2, <1>4 DEF Called
<1>. QED
  BY <1>4, <1>6, <1>7 DEF Promise!Next, Promise!Call

\* The clock ends claims, which the promise does not see, and the retention of answers.
LEMMA TickSimulates ==
  ASSUME IInv, Durable, Tick
  PROVE  [Promise!Next]_(Promise!vars)
<1>1. now' = now + 1 /\ UNCHANGED <<rec, sentAt, doneAt>>
  BY DEF Tick, store, history
<1>2. now \in Nat /\ rec \in Record /\ rec.expireAt \in Nat
  BY DEF IInv, TypeOK, Record
<1>3. CASE Current' = Current
  <2>1. Phase' = Phase /\ Who' = Who
    BY <1>3 DEF Phase, Who
  <2>2. Called' = Called
    BY <1>1, <2>1 DEF Called
  <2>. QED
    BY <2>1, <2>2 DEF Promise!vars
<1>4. CASE Current' # Current
  <2>1. Current = rec /\ Current' = Absent /\ rec.expireAt # NoExpiry
    BY <1>1, <1>2, <1>4 DEF Current, Live, NoExpiry
  <2>2. rec.state \in {"absent", "claimed", "completed"}
    BY <1>2, <2>1 DEF IInv, RecordSound, Record, RecordState
  <2>3. Phase' = "open" /\ Who' = NoOwner /\ Called' = FALSE
    BY <2>1 DEF Phase, Who, Called, Absent
  <2>4. CASE rec.state = "completed"
    <3>1. Phase = "done"
      BY <2>1, <2>4 DEF Phase
    <3>. QED
      BY <2>3, <3>1 DEF Promise!Next, Promise!Forget
  <2>5. CASE rec.state \in {"absent", "claimed"}
    <3>1. Phase = "open" /\ Who = NoOwner /\ Called = FALSE
      BY <2>1, <2>5 DEF Phase, Who, Called
    <3>. QED
      BY <2>3, <3>1 DEF Promise!vars
  <2>. QED
    BY <2>2, <2>4, <2>5
<1>. QED
  BY <1>3, <1>4

LEMMA StepSimulates ==
  ASSUME IInv, Durable, [Next]_vars
  PROVE  [Promise!Next]_(Promise!vars)
<1>1. ASSUME NEW h \in Handler,
             Claim(h) \/ Read(h) \/ Release(h) \/ Start(h) \/ Complete(h)
      PROVE  [Promise!Next]_(Promise!vars)
  <2>1. Executes(h, pc[h])
    BY <1>1 DEF IInv, Claim, Read, Release, Start, Complete, Executes, Perform, Calls,
       HandlerSound, local
  <2>. QED
    BY <2>1, CommandSimulates
<1>2. ASSUME NEW h \in Handler, Land(h) PROVE [Promise!Next]_(Promise!vars)
  <2>1. Executes(h, straggler[h])
    BY <1>2 DEF IInv, Executes, Land, Perform, HandlerSound, local, TypeOK
  <2>. QED
    BY <2>1, CommandSimulates
<1>3. CASE UNCHANGED <<now, rec, sentAt, doneAt>>
  <2>1. Current' = Current
    BY <1>3 DEF Current
  <2>2. Phase' = Phase /\ Who' = Who
    BY <2>1 DEF Phase, Who
  <2>3. Called' = Called
    BY <1>3, <2>2 DEF Called
  <2>. QED
    BY <2>2, <2>3 DEF Promise!vars
<1>4. ASSUME NEW h \in Handler,
             \/ Poll(h) \/ CheckCancelled(h) \/ Respond(h) \/ Settle(h) \/ TransportFails(h)
             \/ Unavailable(h) \/ Resend(h) \/ Cancel(h) \/ Crash(h)
             \/ \E f \in Fingerprint : Arrive(h, f)
      PROVE  UNCHANGED <<now, rec, sentAt, doneAt>>
  BY <1>4 DEF Poll, CheckCancelled, Respond, Settle, TransportFails, Unavailable, Resend, Cancel,
     Crash, Arrive, store, history
<1>5. CASE Fsync \/ RedisRestart
  BY <1>5 DEF Durable, Fsync, RedisRestart
<1>6. CASE UNCHANGED vars
  BY <1>3, <1>6 DEF vars, store, history
<1>. QED
  BY <1>1, <1>2, <1>3, <1>4, <1>5, <1>6, SendSimulates, TickSimulates DEF Next, Step, Fault

LEMMA InitSimulates ==
  ASSUME Init, ~RedisCrashes
  PROVE  Promise!Init /\ Durable
<1>1. Current = Absent
  BY DEF Init, Current, Live, Absent
<1>2. Phase = "open"
  BY <1>1 DEF Phase, Absent
<1>3. Promise!Init
  BY <1>2 DEF Promise!Init, Who, Called
<1>4. Durable
  BY DEF Init, Durable, Over
<1>. QED
  BY <1>3, <1>4

\* For a Redis that keeps what it acknowledged, whatever else is lost, late or repeated:
\* the handlers and the record together do what OneDelegation allows, and nothing else.
THEOREM PromiseIsKept ==
  ASSUME ~RedisCrashes
  PROVE  Spec => KeepsPromise
<1>1. Init => Promise!Init /\ Durable
  BY InitSimulates
<1>2. IInv /\ Durable /\ [Next]_vars => Durable' /\ [Promise!Next]_(Promise!vars)
  BY DurableStep, StepSimulates
<1>. QED
  BY <1>1, <1>2, Invariance, PTL DEF Spec, KeepsPromise, Promise!Spec
=============================================================================
