----------------------------- MODULE StoreParity -----------------------------
(***************************************************************************)
(* The Redis store and InMemoryIdempotencyStore side by side: the same     *)
(* calls, at the same times, on one key of each.  idempotency.py calls the *)
(* in-memory store the executable specification, and the tests of the      *)
(* Coordinator run on it; this module says where the two part.             *)
(***************************************************************************)
EXTENDS IdempotencyStore

CONSTANT MaxTime   \* bound: the last tick

VARIABLES
  now,
  redis, mem,      \* the record of each store
  held,            \* the generation each store told an owner it acquired, or 0
  replies,         \* what the two stores answered to the last call
  parted           \* history: a call met one of the two known differences

vars == <<now, redis, mem, held, replies, parted>>

\* expireAt of an in-memory record is completed_until_ms; a claim has none.
MemLive(r) == IF r.state = "completed" /\ now >= r.expireAt THEN Absent ELSE r

\* Mutant: a started record past its lease may be taken over.
MemAfterClaimReset(r, f, o) ==
  IF r.state # "absent" /\ r.fp = f /\ r.state = "started" /\ now >= r.leaseUntil
  THEN [r EXCEPT !.state = "claimed", !.owner = o]
  ELSE [AfterClaim(r, f, o, now) EXCEPT !.expireAt =
          IF Claimable(r, f, now) THEN NoExpiry ELSE r.expireAt]

MemAfterClaim(r, f, o) == [AfterClaim(r, f, o, now) EXCEPT !.expireAt =
  IF Claimable(r, f, now) THEN NoExpiry ELSE r.expireAt]

\* read takes no transition: an abandoned record stays `in progress'.
MemReadStatus(r, f) ==
  IF r.state = "absent" THEN "missing"
  ELSE IF r.fp # f THEN "conflict"
  ELSE IF r.state \in {"completed", "ambiguous"} THEN r.state
  ELSE "in_progress"

Init ==
  /\ now = 1
  /\ redis = Absent /\ mem = Absent
  /\ held = [o \in Owner |-> [redis |-> 0, mem |-> 0]]
  /\ replies = <<"none", "none">> /\ parted = FALSE

\* The differences: a claim nobody renewed expires as a Redis key, not in memory;
\* a read condemns an abandoned record in Redis, not in memory.
KeyExpired == redis.state = "claimed" /\ now >= redis.expireAt
ReadsAbandoned(f) == Abandoned(redis, f, now)

Claim(o, f) ==
  LET r == Live(redis, now)  m == MemLive(mem) IN
  /\ held[o] = [redis |-> 0, mem |-> 0]
  /\ redis' = AfterClaim(r, f, o, now) /\ mem' = MemAfterClaim(m, f, o)
  /\ replies' = <<ClaimStatus(r, f, now), ClaimStatus(m, f, now)>>
  /\ held' = [held EXCEPT ![o] =
       [redis |-> IF Claimable(r, f, now) THEN redis'.gen ELSE 0,
        mem   |-> IF Claimable(m, f, now) THEN mem'.gen ELSE 0]]
  /\ parted' = (parted \/ KeyExpired)
  /\ UNCHANGED now

Read(f) ==
  LET r == Live(redis, now)  m == MemLive(mem) IN
  /\ redis' = AfterRead(r, f, now) /\ mem' = m
  /\ replies' = <<ReadStatus(r, f, now), MemReadStatus(m, f)>>
  /\ parted' = (parted \/ KeyExpired \/ ReadsAbandoned(f))
  /\ UNCHANGED <<now, held>>

\* mark_started, complete and release_unstarted by an owner of a claim.
Transition(o, f, from, redisNext, memNext) ==
  LET r == Live(redis, now)  g == held[o] IN
  /\ g.redis # 0 \/ g.mem # 0
  /\ redis' = redisNext /\ mem' = memNext
  /\ replies' = <<Owned(r, f, o, g.redis, from), Owned(mem, f, o, g.mem, from)>>
  /\ parted' = (parted \/ KeyExpired)
  /\ UNCHANGED <<now, held>>

MarkStarted(o, f) ==
  Transition(o, f, "claimed",
    AfterStart(Live(redis, now), f, o, held[o].redis, now),
    AfterStart(mem, f, o, held[o].mem, now))

Complete(o, f) ==
  Transition(o, f, "started",
    AfterComplete(Live(redis, now), f, o, held[o].redis, now),
    AfterComplete(mem, f, o, held[o].mem, now))

Release(o, f) ==
  Transition(o, f, "claimed",
    AfterRelease(Live(redis, now), f, o, held[o].redis),
    AfterRelease(mem, f, o, held[o].mem))

Tick ==
  /\ now < MaxTime /\ now' = now + 1
  /\ UNCHANGED <<redis, mem, held, replies, parted>>

Next ==
  \/ \E f \in Fingerprint :
       \/ Read(f)
       \/ \E o \in Owner : Claim(o, f) \/ MarkStarted(o, f) \/ Complete(o, f) \/ Release(o, f)
  \/ Tick

Spec == Init /\ [][Next]_vars

-----------------------------------------------------------------------------
\* "Thread-safe executable specification": two differences are the only ones.  Until a
\* call meets an expired claim or reads an abandoned start, calls are answered alike and
\* leave the same record, its time to live apart.
SameUntilParted ==
  ~parted =>
    /\ replies[1] = replies[2]
    /\ [Live(redis, now) EXCEPT !.expireAt = NoExpiry] = [MemLive(mem) EXCEPT !.expireAt = NoExpiry]
       \/ KeyExpired
=============================================================================
