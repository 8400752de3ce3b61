---------------------------- MODULE AgentsProofs ----------------------------
(***************************************************************************)
(* The processes of the agents, proved for any number of executions, calls, *)
(* owners, requests, tasks and threads: the Specialist's cache, the two      *)
(* stores and the executor each with its inductive invariant, and at the     *)
(* end the invariants of the whole.                                          *)
(***************************************************************************)
EXTENDS Agents, TLAPS

-----------------------------------------------------------------------------
(* The cache.  Completed tasks agree because each agrees with the cached     *)
(* entry, from its second look at the cache on, and because the entry never  *)
(* changes: it is stored only over nothing.                                  *)

\* What e is about to report, or has reported, is the cached entry.
Agrees(e) ==
  /\ at[e] = "report" =>
       completed # NoAnswer /\ completed.data = DataOf[e] /\ completed.evidence = answer[e]
  /\ reported[e].state = "completed" =>
       completed # NoAnswer /\ completed.data = DataOf[e]
       /\ completed.evidence = reported[e].evidence

\* Only an answer of the tools is stored.
Answers(e) == at[e] = "store" => answer[e] \in Evidence

CacheInv == TypeOK /\ \A e \in Execution : Agrees(e) /\ Answers(e)

-----------------------------------------------------------------------------
\* An execution that leaves the cache and the other executions alone.
LEMMA OneMoves ==
  ASSUME CacheInv, TypeOK', NEW e \in Execution, completed' = completed \/ completed = NoAnswer,
         Agrees(e)', Answers(e)',
         \A f \in Execution \ {e} :
           at'[f] = at[f] /\ answer'[f] = answer[f] /\ reported'[f] = reported[f]
  PROVE  CacheInv'
<1>1. ASSUME NEW f \in Execution \ {e} PROVE (Agrees(f) /\ Answers(f))'
  BY <1>1 DEF CacheInv, Agrees, Answers
<1> QED
  BY <1>1 DEF CacheInv

LEMMA CacheStep ==
  ASSUME CacheAssumption, CacheInv, [Next]_vars
  PROVE  CacheInv'
<1> USE DEF CacheInv, Goto
<1>1. ASSUME NEW e \in Execution, Start(e) PROVE CacheInv'
  <2>1. PICK where \in {"planning", "lookup"} : at' = [at EXCEPT ![e] = where]
    BY <1>1 DEF Start
  <2>2. TypeOK'
    BY <1>1, <2>1 DEF Start, TypeOK, Running
  <2> QED
    BY <1>1, <2>1, <2>2, OneMoves DEF Start, TypeOK, Agrees, Answers
<1>2. ASSUME NEW e \in Execution, NEW state \in {"failed", "rejected", "canceled"},
             Final(e, state, NoAnswer), UNCHANGED <<answer, completed>>
      PROVE  CacheInv'
  <2>1. TypeOK'
    BY <1>2 DEF Final, TypeOK
  <2> QED
    BY <1>2, <2>1, OneMoves DEF Final, TypeOK, Agrees, Answers
<1>3. ASSUME NEW e \in Execution, Plan(e) PROVE CacheInv'
  <2>1. CASE Final(e, "rejected", NoAnswer)
    BY <1>2, <1>3, <2>1 DEF Plan
  <2>2. CASE Goto(e, "lookup") /\ UNCHANGED reported
    <3>1. TypeOK'
      BY <1>3, <2>2 DEF Plan, TypeOK, Running
    <3> QED
      BY <1>3, <2>2, <3>1, OneMoves DEF Plan, TypeOK, Agrees, Answers
  <2> QED
    BY <1>3, <2>1, <2>2 DEF Plan
<1>4. ASSUME NEW e \in Execution, completed # NoAnswer, Served(e), UNCHANGED completed
      PROVE  CacheInv'
  <2>1. CASE completed.data = DataOf[e]
    <3>1. completed.evidence \in Evidence
      BY <1>4 DEF TypeOK, Entry
    <3>2. TypeOK'
      BY <1>4, <2>1, <3>1 DEF Served, TypeOK, Running
    <3> QED
      BY <1>4, <2>1, <3>2, OneMoves DEF Served, TypeOK, Agrees, Answers
  <2>2. CASE completed.data # DataOf[e]
    BY <1>2, <1>4, <2>2 DEF Served
  <2> QED
    BY <2>1, <2>2
<1>5. ASSUME NEW e \in Execution, Lookup(e) PROVE CacheInv'
  <2>1. CASE completed # NoAnswer
    BY <1>4, <1>5, <2>1 DEF Lookup
  <2>2. CASE completed = NoAnswer
    <3>1. TypeOK'
      BY <1>5, <2>2 DEF Lookup, TypeOK, Running
    <3> QED
      BY <1>5, <2>2, <3>1, OneMoves DEF Lookup, TypeOK, Agrees, Answers
  <2> QED
    BY <2>1, <2>2
<1>6. ASSUME NEW e \in Execution, Tools(e) PROVE CacheInv'
  <2>1. CASE Final(e, "failed", NoAnswer) /\ UNCHANGED answer
    BY <1>2, <1>6, <2>1 DEF Tools
  <2>2. CASE answer' = [answer EXCEPT ![e] = e] /\ Goto(e, "store") /\ UNCHANGED reported
    <3>1. TypeOK'
      BY <1>6, <2>2 DEF Tools, TypeOK, Running, Evidence
    <3> QED
      BY <1>6, <2>2, <3>1, OneMoves DEF Tools, TypeOK, Agrees, Answers, Evidence
  <2> QED
    BY <1>6, <2>1, <2>2 DEF Tools
<1>7. ASSUME NEW e \in Execution, Store(e) PROVE CacheInv'
  <2>1. CASE completed # NoAnswer
    BY <1>4, <1>7, <2>1 DEF Store
  <2>2. CASE completed = NoAnswer
    <3>1. answer[e] \in Evidence
      BY <1>7 DEF Store, Answers
    <3>2. completed' = [data |-> DataOf[e], evidence |-> answer[e]] /\ completed' \in Entry
      BY <1>7, <2>2, <3>1 DEF Store, Entry
    <3>3. completed' # NoAnswer
      BY <3>2, CacheAssumption DEF CacheAssumption
    <3>4. TypeOK'
      BY <1>7, <2>2, <3>2 DEF Store, TypeOK, Running
    <3> QED
      BY <1>7, <2>2, <3>2, <3>3, <3>4, OneMoves DEF Store, TypeOK, Agrees, Answers
  <2> QED
    BY <2>1, <2>2
<1>8. ASSUME NEW e \in Execution, Report(e) PROVE CacheInv'
  <2>1. TypeOK'
    BY <1>8 DEF Report, Final, TypeOK
  <2> QED
    BY <1>8, <2>1, OneMoves DEF Report, Final, TypeOK, Agrees, Answers
<1>9. ASSUME NEW e \in Execution, CancelLate(e) PROVE CacheInv'
  <2>1. at'[e] \in {"report", "ended"} /\ TypeOK'
    BY <1>9 DEF CancelLate, TypeOK, Running
  <2> QED
    BY <1>9, <2>1, OneMoves DEF CancelLate, TypeOK, Agrees, Answers
<1>10. CASE UNCHANGED vars
  BY <1>10 DEF vars, TypeOK, Agrees, Answers
<1> QED
  BY <1>1, <1>2, <1>3, <1>5, <1>6, <1>7, <1>8, <1>9, <1>10 DEF Next, Timeout, Cancel

LEMMA CacheStart ==
  ASSUME Init PROVE CacheInv
BY DEF Init, CacheInv, TypeOK, Agrees, Answers, Running

-----------------------------------------------------------------------------
(* The stores.  Until they have parted their records are alike in all but    *)
(* the time to live, or both would be found absent: an answer whose          *)
(* retention is over leaves Redis at the next command and stays in memory,   *)
(* where no owner can change it any more.                                    *)

\* A record some calls of a store have left.
Sound(r) ==
  /\ r \in S!Record
  /\ r.state = "absent" => r = S!Absent
  /\ r.state \in {"started", "ambiguous"} => r.expireAt = S!NoExpiry
  /\ r.state = "completed" => r.expireAt # S!NoExpiry

\* The same record, its time to live apart unless it is an answer's retention.
Alike(r, m) ==
  /\ r.state = m.state /\ r.fp = m.fp /\ r.owner = m.owner /\ r.gen = m.gen
  /\ r.leaseUntil = m.leaseUntil /\ r.result = m.result
  /\ r.state = "completed" => r.expireAt = m.expireAt

\* An answer whose retention is over: a command removed it from Redis, memory keeps it.
Outlived == redis = S!Absent /\ mem.state = "completed" /\ now >= mem.expireAt

Agreed ==
  /\ replies[1] = replies[2]
  /\ \A o \in Owner : held[o].redis = held[o].mem
  /\ Alike(redis, mem) \/ Outlived

ParityInv ==
  /\ now \in Nat /\ Sound(redis) /\ Sound(mem)
  /\ held \in [Owner -> [redis : Nat, mem : Nat]]
  /\ ~parted => Agreed

-----------------------------------------------------------------------------
LEMMA AbsentIsSound == Sound(S!Absent) /\ Alike(S!Absent, S!Absent)
  BY DEF Sound, Alike, S!Absent, S!Record, S!RecordState, S!NoExpiry, S!NoOwner, S!NoPrint

\* What a command finds is sound.
LEMMA FoundIsSound ==
  ASSUME NEW r, Sound(r), NEW time \in Nat
  PROVE  Sound(S!Live(r, time))
  BY AbsentIsSound DEF S!Live

LEMMA MemFoundIsSound ==
  ASSUME NEW r, Sound(r)
  PROVE  Sound(S!MemLive(r))
  BY AbsentIsSound DEF S!MemLive

\* Two stores that agree answer a command out of like records.
LEMMA FoundAlike ==
  ASSUME ParityInv, Agreed, ~S!KeyExpired
  PROVE  Alike(S!Live(redis, now), S!MemLive(mem))
<1> USE DEF ParityInv
<1>1. CASE Alike(redis, mem)
  <2>1. CASE redis.state \in {"absent", "claimed"}
    <3>1. S!Live(redis, now) = redis
      BY <2>1 DEF S!Live, Sound, S!KeyExpired, S!Absent
    <3>2. S!MemLive(mem) = mem
      BY <1>1, <2>1 DEF S!MemLive, Alike
    <3> QED
      BY <1>1, <3>1, <3>2
  <2>2. CASE redis.state \in {"started", "ambiguous"}
    BY <1>1, <2>2 DEF S!Live, S!MemLive, Alike, Sound
  <2>3. CASE redis.state = "completed"
    BY <1>1, <2>3, AbsentIsSound DEF S!Live, S!MemLive, Alike, Sound
  <2> QED
    BY <2>1, <2>2, <2>3 DEF Sound, S!Record, S!RecordState
<1>2. CASE Outlived
  BY <1>2, AbsentIsSound DEF Outlived, S!Live, S!MemLive
<1> QED
  BY <1>1, <1>2 DEF Agreed

-----------------------------------------------------------------------------
\* claim: like records are answered alike and left alike.
LEMMA ClaimAlike ==
  ASSUME AgentsAssumption, NEW r, NEW m, Sound(r), Sound(m), now \in Nat,
         NEW f \in Fingerprint, NEW o \in Owner
  PROVE  /\ Sound(S!AfterClaim(r, f, o, now)) /\ Sound(S!MemAfterClaim(m, f, o))
         /\ Alike(r, m) =>
              /\ S!ClaimStatus(r, f, now) = S!ClaimStatus(m, f, now)
              /\ S!Claimable(r, f, now) = S!Claimable(m, f, now)
              /\ Alike(S!AfterClaim(r, f, o, now), S!MemAfterClaim(m, f, o))
<1> USE DEF Sound, S!Record, S!RecordState, S!NoExpiry
<1>1. now + Lease \in Nat /\ now + 2 * Lease \in Nat /\ r.gen + 1 \in Nat /\ m.gen + 1 \in Nat
  BY DEF AgentsAssumption
<1>2. Sound(S!AfterClaim(r, f, o, now))
  <2>1. CASE S!Claimable(r, f, now)
    BY <1>1, <2>1 DEF S!AfterClaim, S!Claimed
  <2>2. CASE ~S!Claimable(r, f, now)
    BY <2>2 DEF S!AfterClaim, S!Abandoned, S!Condemned
  <2> QED
    BY <2>1, <2>2
<1>3. Sound(S!MemAfterClaim(m, f, o))
  <2>1. CASE S!Claimable(m, f, now)
    BY <1>1, <2>1 DEF S!MemAfterClaim, S!AfterClaim, S!Claimed
  <2>2. CASE ~S!Claimable(m, f, now)
    <3>1. S!AfterClaim(m, f, o, now) \in {m, S!Condemned(m)} /\ Sound(S!Condemned(m))
      BY <2>2 DEF S!AfterClaim, S!Condemned
    <3>2. CASE S!AfterClaim(m, f, o, now) = m
      BY <2>2, <3>2 DEF S!MemAfterClaim
    <3>3. CASE S!Abandoned(m, f, now)
      BY <2>2, <3>3 DEF S!MemAfterClaim, S!AfterClaim, S!Abandoned, S!Condemned
    <3> QED
      BY <2>2, <3>2, <3>3 DEF S!AfterClaim
  <2> QED
    BY <2>1, <2>2
<1>4. ASSUME Alike(r, m) PROVE S!ClaimStatus(r, f, now) = S!ClaimStatus(m, f, now)
  BY <1>4 DEF Alike, S!ClaimStatus, S!Claimable, S!Abandoned, S!LeaseOver
<1>5. ASSUME Alike(r, m) PROVE S!Claimable(r, f, now) = S!Claimable(m, f, now)
  BY <1>5 DEF Alike, S!Claimable, S!LeaseOver
<1>6. ASSUME Alike(r, m) PROVE Alike(S!AfterClaim(r, f, o, now), S!MemAfterClaim(m, f, o))
  <2>1. CASE S!Claimable(r, f, now)
    BY <1>5, <1>6, <2>1 DEF Alike, S!MemAfterClaim, S!AfterClaim, S!Claimed
  <2>2. CASE ~S!Claimable(r, f, now)
    BY <1>5, <1>6, <2>2 DEF Alike, S!MemAfterClaim, S!AfterClaim, S!Abandoned, S!LeaseOver, S!Condemned
  <2> QED
    BY <2>1, <2>2
<1> QED
  BY <1>2, <1>3, <1>4, <1>5, <1>6

\* The transitions: what an owner's call leaves.
Left(r, f, o, g, action) ==
  CASE action = "start" -> S!AfterStart(r, f, o, g, now)
    [] action = "complete" -> S!AfterComplete(r, f, o, g, now)
    [] action = "release" -> S!AfterRelease(r, f, o, g)

LEMMA LeftAlike ==
  ASSUME AgentsAssumption, NEW r, NEW m, Sound(r), Sound(m), now \in Nat,
         NEW f \in Fingerprint, NEW o \in Owner, NEW g \in Nat,
         NEW action \in {"start", "complete", "release"}
  PROVE  /\ Sound(Left(r, f, o, g, action))
         /\ Alike(r, m) => Alike(Left(r, f, o, g, action), Left(m, f, o, g, action))
<1> USE DEF Sound, S!Record, S!RecordState, S!NoExpiry, Left
<1>0. now + Lease \in Nat /\ now + CompletedTtl \in Nat \ {0}
  BY DEF AgentsAssumption
<1>1. CASE action = "start"
  <2>1. Sound(S!AfterStart(r, f, o, g, now))
    BY <1>0 DEF S!AfterStart, S!Owned
  <2>2. Alike(r, m) => Alike(S!AfterStart(r, f, o, g, now), S!AfterStart(m, f, o, g, now))
    BY DEF S!AfterStart, S!Owned, Alike
  <2> QED
    BY <1>1, <2>1, <2>2
<1>2. CASE action = "complete"
  <2>1. Sound(S!AfterComplete(r, f, o, g, now))
    BY <1>0 DEF S!AfterComplete, S!Owned
  <2>2. Alike(r, m) => Alike(S!AfterComplete(r, f, o, g, now), S!AfterComplete(m, f, o, g, now))
    BY DEF S!AfterComplete, S!Owned, Alike
  <2> QED
    BY <1>2, <2>1, <2>2
<1>3. CASE action = "release"
  <2>1. Sound(S!AfterRelease(r, f, o, g))
    BY AbsentIsSound DEF S!AfterRelease
  <2>2. Alike(r, m) => Alike(S!AfterRelease(r, f, o, g), S!AfterRelease(m, f, o, g))
    BY AbsentIsSound DEF S!AfterRelease, S!Owned, Alike
  <2> QED
    BY <1>3, <2>1, <2>2
<1> QED
  BY <1>1, <1>2, <1>3

-----------------------------------------------------------------------------
LEMMA ClaimStep ==
  ASSUME AgentsAssumption, ParityInv, NEW o \in Owner, NEW f \in Fingerprint, S!Claim(o, f)
  PROVE  ParityInv'
<1> DEFINE r == S!Live(redis, now)
           m == S!MemLive(mem)
<1>1. Sound(r) /\ Sound(m) /\ now \in Nat
  BY FoundIsSound, MemFoundIsSound DEF ParityInv
<1>2. redis' = S!AfterClaim(r, f, o, now) /\ mem' = S!MemAfterClaim(m, f, o) /\ now' = now
  BY DEF S!Claim
<1>3. Sound(redis)' /\ Sound(mem)' /\ now' \in Nat
  <2>1. Sound(S!AfterClaim(r, f, o, now)) /\ Sound(S!MemAfterClaim(m, f, o))
    BY <1>1, ClaimAlike
  <2> QED
    BY <1>1, <1>2, <2>1 DEF Sound
<1>4. /\ redis'.gen \in Nat /\ mem'.gen \in Nat
  BY <1>3 DEF Sound, S!Record
<1>5. held' = [held EXCEPT ![o] = [redis |-> IF S!Claimable(r, f, now) THEN redis'.gen ELSE 0,
                                   mem |-> IF S!Claimable(m, f, now) THEN mem'.gen ELSE 0]]
  BY DEF S!Claim
<1>6. held' \in [Owner -> [redis : Nat, mem : Nat]]
  BY <1>4, <1>5 DEF ParityInv
<1>7. ASSUME ~parted' PROVE Agreed'
  <2>1. ~parted /\ ~S!KeyExpired /\ Agreed
    BY <1>7 DEF S!Claim, ParityInv
  <2>2. Alike(r, m)
    BY <2>1, FoundAlike
  <2>3. /\ S!ClaimStatus(r, f, now) = S!ClaimStatus(m, f, now)
        /\ S!Claimable(r, f, now) = S!Claimable(m, f, now)
        /\ Alike(S!AfterClaim(r, f, o, now), S!MemAfterClaim(m, f, o))
    BY <1>1, <2>2, ClaimAlike
  <2>4. replies'[1] = replies'[2]
    BY <2>3 DEF S!Claim
  <2>5. Alike(redis', mem')
    BY <1>2, <2>3
  <2>6. redis'.gen = mem'.gen
    BY <2>5 DEF Alike
  <2>7. \A p \in Owner : held'[p].redis = held'[p].mem
    BY <1>5, <2>1, <2>3, <2>6 DEF ParityInv, Agreed
  <2> QED
    BY <2>4, <2>5, <2>7 DEF Agreed, Alike
<1> QED
  BY <1>3, <1>6, <1>7 DEF ParityInv

\* read: only an abandoned start, which parts the stores, is changed by it.
LEMMA ReadStep ==
  ASSUME ParityInv, NEW f \in Fingerprint, S!Read(f)
  PROVE  ParityInv'
<1> DEFINE r == S!Live(redis, now)
           m == S!MemLive(mem)
<1>1. Sound(r) /\ Sound(m) /\ now \in Nat
  BY FoundIsSound, MemFoundIsSound DEF ParityInv
<1>2. redis' = S!AfterRead(r, f, now) /\ mem' = m /\ now' = now /\ held' = held
  BY DEF S!Read
<1>3. Sound(redis)' /\ Sound(mem)'
  <2>1. Sound(S!AfterRead(r, f, now))
    BY <1>1 DEF S!AfterRead, S!Abandoned, S!Condemned, Sound, S!Record, S!RecordState, S!NoExpiry, S!NoOwner
  <2> QED
    BY <1>1, <1>2, <2>1 DEF Sound
<1>4. ASSUME ~parted' PROVE Agreed'
  <2>1. ~parted /\ ~S!KeyExpired /\ ~S!ReadsAbandoned(f) /\ Agreed
    BY <1>4 DEF S!Read, ParityInv
  <2>2. Alike(r, m)
    BY <2>1, FoundAlike
  <2>3. ~S!Abandoned(r, f, now)
    BY <2>1 DEF S!ReadsAbandoned, S!Abandoned, S!Live, S!Absent
  <2>4. redis' = r /\ Alike(redis', mem')
    BY <1>2, <2>2, <2>3 DEF S!AfterRead
  <2>5. S!ReadStatus(r, f, now) = S!MemReadStatus(m, f)
    BY <2>2, <2>3 DEF S!ReadStatus, S!MemReadStatus, Alike
  <2>6. replies'[1] = replies'[2]
    BY <2>5 DEF S!Read
  <2> QED
    BY <1>2, <2>1, <2>4, <2>6 DEF Agreed, Alike
<1> QED
  BY <1>1, <1>2, <1>3, <1>4 DEF ParityInv

\* mark_started, complete, release_unstarted: a record nobody owns is left alone.
LEMMA TransitionStep ==
  ASSUME AgentsAssumption, ParityInv, NEW o \in Owner, NEW f \in Fingerprint,
         NEW from \in {"claimed", "started"}, NEW action \in {"start", "complete", "release"},
         action = "complete" <=> from = "started",
         S!Transition(o, f, from, Left(S!Live(redis, now), f, o, held[o].redis, action),
                    Left(mem, f, o, held[o].mem, action))
  PROVE  ParityInv'
<1> DEFINE r == S!Live(redis, now)
           g == held[o].redis
           h == held[o].mem
<1>1. Sound(r) /\ Sound(mem) /\ now \in Nat /\ g \in Nat /\ h \in Nat
  BY FoundIsSound DEF ParityInv
<1>2. /\ redis' = Left(r, f, o, g, action) /\ mem' = Left(mem, f, o, h, action)
      /\ now' = now /\ held' = held
  BY DEF S!Transition
<1>3. Sound(redis)' /\ Sound(mem)'
  <2>1. Sound(Left(r, f, o, g, action)) /\ Sound(Left(mem, f, o, h, action))
    BY <1>1, LeftAlike
  <2> QED
    BY <1>2, <2>1 DEF Sound
<1>4. ASSUME ~parted' PROVE Agreed'
  <2>1. ~parted /\ ~S!KeyExpired /\ Agreed /\ g = h
    BY <1>4 DEF S!Transition, ParityInv, Agreed
  <2>2. CASE Alike(r, mem)
    <3>1. Alike(redis', mem')
      BY <1>1, <1>2, <2>1, <2>2, LeftAlike
    <3>2. S!Owned(r, f, o, g, from) = S!Owned(mem, f, o, h, from)
      BY <2>1, <2>2 DEF S!Owned, Alike
    <3>3. replies'[1] = replies'[2]
      BY <3>2 DEF S!Transition
    <3> QED
      BY <1>2, <2>1, <3>1, <3>3 DEF Agreed, Alike
  <2>3. CASE ~Alike(r, mem)
    <3>1. r = S!Absent /\ mem.state = "completed" /\ now >= mem.expireAt
      <4>1. Alike(r, S!MemLive(mem))
        BY <2>1, FoundAlike
      <4>2. mem.state = "completed" /\ now >= mem.expireAt /\ S!MemLive(mem) = S!Absent
        BY <2>3, <4>1 DEF S!MemLive
      <4>3. r.state = "absent"
        BY <4>1, <4>2 DEF Alike, S!Absent
      <4> QED
        BY <1>1, <4>2, <4>3 DEF Sound
    <3>2. ~S!Owned(r, f, o, g, "claimed") /\ ~S!Owned(r, f, o, g, "started")
      BY <3>1 DEF S!Owned, S!Absent
    <3>3. ~S!Owned(mem, f, o, h, "claimed") /\ ~S!Owned(mem, f, o, h, "started")
      BY <3>1 DEF S!Owned
    <3>4. redis' = S!Absent
      BY <1>2, <3>1, <3>2 DEF Left, S!AfterStart, S!AfterComplete, S!AfterRelease
    <3>5. mem' = mem
      BY <1>2, <3>3 DEF Left, S!AfterStart, S!AfterComplete, S!AfterRelease
    <3>6. S!Owned(r, f, o, g, from) = FALSE /\ S!Owned(mem, f, o, h, from) = FALSE
      BY <3>2, <3>3
    <3>7. replies'[1] = replies'[2]
      BY <3>6 DEF S!Transition
    <3> QED
      BY <1>2, <2>1, <3>1, <3>4, <3>5, <3>7 DEF Agreed, Outlived
  <2> QED
    BY <2>2, <2>3
<1> QED
  BY <1>1, <1>2, <1>3, <1>4 DEF ParityInv

LEMMA ParityStep ==
  ASSUME AgentsAssumption, ParityInv, [S!Next]_(S!vars)
  PROVE  ParityInv'
<1>1. ASSUME NEW f \in Fingerprint, NEW o \in Owner, S!MarkStarted(o, f) PROVE ParityInv'
  BY <1>1, TransitionStep DEF S!MarkStarted, Left
<1>2. ASSUME NEW f \in Fingerprint, NEW o \in Owner, S!Complete(o, f) PROVE ParityInv'
  BY <1>2, TransitionStep DEF S!Complete, Left
<1>3. ASSUME NEW f \in Fingerprint, NEW o \in Owner, S!Release(o, f) PROVE ParityInv'
  BY <1>3, TransitionStep DEF S!Release, Left
<1>4. CASE S!Tick
  BY <1>4 DEF S!Tick, ParityInv, Agreed, Outlived, Alike, Sound, S!Record
<1>5. CASE UNCHANGED S!vars
  BY <1>5 DEF S!vars, ParityInv, Agreed, Outlived, Alike, Sound
<1> QED
  BY <1>1, <1>2, <1>3, <1>4, <1>5, ClaimStep, ReadStep DEF S!Next

LEMMA ParityStart ==
  ASSUME S!Init PROVE ParityInv
BY AbsentIsSound DEF S!Init, ParityInv, Agreed

LEMMA ParityIsSame ==
  ASSUME ParityInv PROVE SameUntilParted
<1> SUFFICES ASSUME ~parted
             PROVE  /\ replies[1] = replies[2]
                    /\ \/ [S!Live(redis, now) EXCEPT !.expireAt = S!NoExpiry]
                          = [S!MemLive(mem) EXCEPT !.expireAt = S!NoExpiry]
                       \/ S!KeyExpired
  BY DEF SameUntilParted, S!SameUntilParted
<1>1. Sound(S!Live(redis, now)) /\ Sound(S!MemLive(mem))
  BY FoundIsSound, MemFoundIsSound DEF ParityInv
<1>2. ~S!KeyExpired => Alike(S!Live(redis, now), S!MemLive(mem))
  BY FoundAlike DEF ParityInv
<1>3. ASSUME NEW r, NEW m, Sound(r), Sound(m), Alike(r, m)
      PROVE  [r EXCEPT !.expireAt = S!NoExpiry] = [m EXCEPT !.expireAt = S!NoExpiry]
  BY <1>3 DEF Sound, Alike, S!Record
<1> QED
  BY <1>1, <1>2, <1>3 DEF ParityInv, Agreed

-----------------------------------------------------------------------------
(* The executor.  A task whose handler is yet to check has its cancellation  *)
(* set before it is reported: a task still known keeps it settable, one that *)
(* has ended has no handler waiting for its check unless it is set.          *)

\* What the handler and the final report of t wait for.
Told(t) ==
  /\ taskAt[t] \notin {"new", "ended"} => t \in known
  /\ canceller[t] # "none" /\ taskAt[t] # "ended" => t \in cancelled
  /\ taskAt[t] = "timedOut" => t \in cancelled
  /\ taskAt[t] \in {"new", "intake", "submit"} => thread[t] = "none"
  /\ taskAt[t] = "wait" => thread[t] # "none"
  /\ taskAt[t] = "artifacts" => thread[t] = "returned"
  /\ taskAt[t] = "new" => canceller[t] = "none"
  /\ taskAt[t] = "ended" => t \in cancelled \/ thread[t] \in {"none", "dropped", "returned", "raised"}
  /\ taskAt[t] # "ended" /\ reports[t] # {} => t \in cancelled
  /\ t \in early => reports[t] # {} /\ thread[t] \notin {"starting", "delegating"}

TasksInv == T!TypeOK /\ \A t \in Task : Told(t)

-----------------------------------------------------------------------------
\* A step of one task leaves what the others are told.
LEMMA OneTask ==
  ASSUME TasksInv, T!TypeOK', NEW t \in Task, Told(t)',
         \A u \in Task \ {t} :
           /\ taskAt'[u] = taskAt[u] /\ thread'[u] = thread[u] /\ canceller'[u] = canceller[u]
           /\ reports'[u] = reports[u]
           /\ u \in known' <=> u \in known
           /\ u \in early' <=> u \in early
           /\ u \in cancelled' <=> u \in cancelled
  PROVE  TasksInv'
<1>1. ASSUME NEW u \in Task \ {t} PROVE Told(u)'
  BY <1>1 DEF TasksInv, Told
<1> QED
  BY <1>1 DEF TasksInv

LEMMA ExecuteStep ==
  ASSUME TasksInv, NEW t \in Task, T!Start(t) \/ T!Intake(t) \/ T!IntakeCancelled(t) \/ T!Execute(t)
  PROVE  TasksInv'
<1> USE DEF TasksInv, T!Goto, T!End, T!Report, T!Abandoned
<1>1. CASE T!Start(t)
  <2>1. PICK where \in {"intake", "submit"} : taskAt' = [taskAt EXCEPT ![t] = where]
    BY <1>1 DEF T!Start
  <2>2. T!TypeOK'
    BY <1>1, <2>1 DEF T!Start, T!TypeOK
  <2> QED
    BY <1>1, <2>1, <2>2, OneTask DEF T!Start, T!TypeOK, Told
<1>2. CASE T!Intake(t)
  <2>1. CASE T!Goto(t, "submit") /\ UNCHANGED <<reports, known, early>>
    <3>1. T!TypeOK'
      BY <1>2, <2>1 DEF T!Intake, T!TypeOK
    <3> QED
      BY <1>2, <2>1, <3>1, OneTask DEF T!Intake, T!TypeOK, Told
  <2>2. ASSUME NEW state \in {"rejected", "failed"}, T!End(t), T!Report(t, state) PROVE TasksInv'
    <3>1. T!TypeOK'
      BY <1>2, <2>2 DEF T!Intake, T!TypeOK, T!States
    <3> QED
      BY <1>2, <2>2, <3>1, OneTask DEF T!Intake, T!TypeOK, Told
  <2> QED
    BY <1>2, <2>1, <2>2 DEF T!Intake
<1>3. CASE T!IntakeCancelled(t)
  <2>1. T!TypeOK'
    BY <1>3 DEF T!IntakeCancelled, T!TypeOK
  <2> QED
    BY <1>3, <2>1, OneTask DEF T!IntakeCancelled, T!TypeOK, Told
<1>4. CASE T!Submit(t)
  <2>1. T!TypeOK'
    BY <1>4 DEF T!Submit, T!TypeOK
  <2> QED
    BY <1>4, <2>1, OneTask DEF T!Submit, T!TypeOK, Told
<1>5. CASE T!Timeout(t)
  <2>1. PICK outcome \in {thread[t], "dropped"} : thread' = [thread EXCEPT ![t] = outcome]
    BY <1>5 DEF T!Timeout, T!TypeOK
  <2>2. T!TypeOK'
    BY <1>5, <2>1 DEF T!Timeout, T!TypeOK
  <2> QED
    BY <1>5, <2>1, <2>2, OneTask DEF T!Timeout, T!TypeOK, Told
<1>6. CASE T!ReportTimeout(t)
  <2>1. T!TypeOK'
    BY <1>6 DEF T!ReportTimeout, T!TypeOK, T!States
  <2> QED
    BY <1>6, <2>1, OneTask DEF T!ReportTimeout, T!TypeOK, Told
<1>7. CASE T!Result(t)
  <2>1. ASSUME thread[t] = "raised", NEW state \in {"rejected", "failed"}, T!End(t), T!Report(t, state)
        PROVE  TasksInv'
    <3>1. T!TypeOK'
      BY <1>7, <2>1 DEF T!Result, T!TypeOK, T!States
    <3> QED
      BY <1>7, <2>1, <3>1, OneTask DEF T!Result, T!TypeOK, Told
  <2>2. CASE thread[t] = "returned" /\ T!End(t) /\ UNCHANGED <<reports, early>>
    <3>1. T!TypeOK'
      BY <1>7, <2>2 DEF T!Result, T!TypeOK
    <3> QED
      BY <1>7, <2>2, <3>1, OneTask DEF T!Result, T!TypeOK, Told
  <2>3. CASE thread[t] = "returned" /\ T!Goto(t, "artifacts") /\ UNCHANGED <<known, reports, early>>
    <3>1. T!TypeOK'
      BY <1>7, <2>3 DEF T!Result, T!TypeOK
    <3> QED
      BY <1>7, <2>3, <3>1, OneTask DEF T!Result, T!TypeOK, Told
  <2> QED
    BY <1>7, <2>1, <2>2, <2>3 DEF T!Result
<1>8. CASE T!Finish(t)
  <2>1. T!TypeOK'
    BY <1>8 DEF T!Finish, T!TypeOK, T!States
  <2> QED
    BY <1>8, <2>1, OneTask DEF T!Finish, T!TypeOK, Told
<1> QED
  BY <1>1, <1>2, <1>3, <1>4, <1>5, <1>6, <1>7, <1>8 DEF T!Execute

LEMMA CancelStep ==
  ASSUME TasksInv, NEW t \in Task, T!Cancel(t) \/ T!ReportCancel(t) \/ T!Interrupt(t)
  PROVE  TasksInv'
<1> USE DEF TasksInv, T!Goto, T!End, T!Report, T!Abandoned
<1>1. CASE T!Cancel(t)
  <2>1. PICK set \in {cancelled, cancelled \cup {t}} : cancelled' = set
    BY <1>1 DEF T!Cancel
  <2>2. T!TypeOK'
    BY <1>1, <2>1 DEF T!Cancel, T!TypeOK
  <2> QED
    BY <1>1, <2>1, <2>2, OneTask DEF T!Cancel, T!TypeOK, Told
<1>2. CASE T!ReportCancel(t)
  <2>1. T!TypeOK'
    BY <1>2 DEF T!ReportCancel, T!TypeOK, T!States
  <2> QED
    BY <1>2, <2>1, OneTask DEF T!ReportCancel, T!TypeOK, Told
<1>3. CASE T!Interrupt(t)
  <2>1. PICK outcome \in {thread[t], "dropped"} : thread' = [thread EXCEPT ![t] = outcome]
    BY <1>3 DEF T!Interrupt, T!TypeOK
  <2>2. T!TypeOK'
    BY <1>3, <2>1 DEF T!Interrupt, T!TypeOK
  <2> QED
    BY <1>3, <2>1, <2>2, OneTask DEF T!Interrupt, T!TypeOK, Told
<1> QED
  BY <1>1, <1>2, <1>3

\* The step of the property: a handler that passes its check was not cancelled, so not
\* reported.
LEMMA HandleStep ==
  ASSUME TasksInv, NEW t \in Task, T!Handle(t)
  PROVE  TasksInv'
<1> USE DEF TasksInv
<1>1. ASSUME NEW state \in {"checking", "starting", "delegating", "returned", "raised"},
             thread[t] \in {"queued", "checking", "starting", "delegating"},
             thread' = [thread EXCEPT ![t] = state],
             thread[t] \in {"checking", "starting", "delegating"} \/ state = "checking",
             state \in {"starting", "delegating"} => t \notin early,
             UNCHANGED <<taskAt, cancelled, known, canceller, reports, early>>
      PROVE  TasksInv'
  <2>1. T!TypeOK'
    BY <1>1 DEF T!TypeOK
  <2> QED
    BY <1>1, <2>1, OneTask DEF T!TypeOK, Told
<1>2. CASE T!Check(t)
  <2>1. CASE t \in cancelled
    BY <1>1, <1>2, <2>1 DEF T!Check
  <2>2. CASE t \notin cancelled
    <3>1. reports[t] = {}
      BY <1>2, <2>2 DEF T!Check, Told
    <3>2. t \notin early
      BY <3>1 DEF Told
    <3> QED
      BY <1>1, <1>2, <2>2, <3>2 DEF T!Check
  <2> QED
    BY <2>1, <2>2
<1>3. CASE T!MarkStarted(t)
  <2>1. t \notin early
    BY <1>3 DEF T!MarkStarted, Told
  <2> QED
    BY <1>1, <1>3, <2>1 DEF T!MarkStarted
<1>4. CASE T!Run(t) \/ T!NoDelegation(t) \/ T!Delegated(t)
  BY <1>1, <1>4 DEF T!Run, T!NoDelegation, T!Delegated
<1> QED
  BY <1>2, <1>3, <1>4 DEF T!Handle

LEMMA TasksStart ==
  ASSUME T!Init PROVE TasksInv
BY DEF T!Init, TasksInv, T!TypeOK, Told

LEMMA TasksStep ==
  ASSUME TasksInv, [T!Next]_(T!vars)
  PROVE  TasksInv'
<1>1. CASE UNCHANGED T!vars
  BY <1>1 DEF T!vars, TasksInv, T!TypeOK, Told
<1> QED
  BY <1>1, ExecuteStep, CancelStep, HandleStep DEF T!Next

-----------------------------------------------------------------------------
(* The whole.                                                              *)

AgentsInv == CacheInv /\ ParityInv /\ TasksInv

\* The inductive invariants of the three parts hold in every state of the whole.
THEOREM AgentsInvariance == ASSUME AgentsAssumption PROVE AgentsSpec => []AgentsInv
<1>1. AgentsInit => AgentsInv
  BY CacheStart, ParityStart, TasksStart DEF AgentsInit, AgentsInv
<1>2. AgentsInv /\ [AgentsNext]_all => AgentsInv'
  <2> SUFFICES ASSUME AgentsInv, [AgentsNext]_all PROVE AgentsInv'
    OBVIOUS
  <2>1. [Next]_vars /\ [S!Next]_(S!vars) /\ [T!Next]_(T!vars)
    BY DEF AgentsNext, all, vars, stores, tasks, S!vars, T!vars
  <2> QED
    BY <2>1, CacheStep, ParityStep, TasksStep DEF AgentsInv, AgentsAssumption
<1> QED
  BY <1>1, <1>2, PTL DEF AgentsSpec

\* Whatever ran side by side, completed tasks of one request id had the same data and
\* report the same evidence, however many there are.
THEOREM EvidenceIsOne == ASSUME AgentsAssumption PROVE AgentsSpec => []OneEvidence
<1>1. AgentsInv => OneEvidence
  BY DEF AgentsInv, CacheInv, Agrees, OneEvidence
<1> QED
  BY <1>1, AgentsInvariance, PTL

\* Until a call meets an expired claim or reads an abandoned start, the two stores answer
\* every call alike and keep the same record, for any owners, requests and durations.
THEOREM SameUntilPartedHolds == ASSUME AgentsAssumption PROVE AgentsSpec => []SameUntilParted
<1>1. AgentsInv => SameUntilParted
  BY ParityIsSame DEF AgentsInv
<1> QED
  BY <1>1, AgentsInvariance, PTL

\* A task reported timed out, failed or canceled before its handler's check is never
\* delegated, for any number of tasks and threads and every order of execute() and
\* cancel().
THEOREM ReportedEarlyIsNotDelegatedHolds ==
  ASSUME AgentsAssumption PROVE AgentsSpec => []ReportedEarlyIsNotDelegated
<1>1. AgentsInv => ReportedEarlyIsNotDelegated
  BY DEF AgentsInv, TasksInv, T!TypeOK, Told, ReportedEarlyIsNotDelegated, T!ReportedEarlyIsNotDelegated
<1> QED
  BY <1>1, AgentsInvariance, PTL
=============================================================================
