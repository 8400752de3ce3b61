-------------------------- MODULE IdempotencyStore --------------------------
(***************************************************************************)
(* The record the Redis authority keeps for one business request, and the  *)
(* five Lua scripts of redis_idempotency.py as operators: what a script    *)
(* answers and what it leaves in the key.  A script runs atomically in     *)
(* Redis, on the clock it reads there, so each operator takes the record   *)
(* and the time `now'.                                                     *)
(*                                                                         *)
(* A record is never removed by an action of its own: a key whose expiry   *)
(* has passed is absent to every command (`Live').                         *)
(***************************************************************************)
EXTENDS Naturals

CONSTANTS
  Owner,          \* owner tokens (uuid4 per call of handle, never reused)
  Fingerprint,    \* digests of the canonical request
  Lease,          \* lease_ms
  CompletedTtl    \* completed_ttl_ms

\* ProgrammaticCoordinator.__init__ refuses a lease or a TTL that is not positive.
ASSUME DurationsAssumption == Lease \in Nat \ {0} /\ CompletedTtl \in Nat \ {0}

NoOwner == "none"
NoPrint == "none"
NoExpiry == 0        \* a key after PERSIST: it has no time to live

\* Tokens and digests are never empty strings.
ASSUME NamesAssumption == NoOwner \notin Owner /\ NoPrint \notin Fingerprint

RecordState == {"absent", "claimed", "started", "completed", "ambiguous"}

\* `result' names the owner whose delegation produced the stored answer.
Record ==
  [state: RecordState, fp: Fingerprint \cup {NoPrint}, owner: Owner \cup {NoOwner},
   gen: Nat, leaseUntil: Nat, expireAt: Nat, result: Owner \cup {NoOwner}]

Absent ==
  [state |-> "absent", fp |-> NoPrint, owner |-> NoOwner, gen |-> 0,
   leaseUntil |-> 0, expireAt |-> NoExpiry, result |-> NoOwner]

\* The record a command issued at `now' finds in the key.
Live(r, now) ==
  IF r.expireAt # NoExpiry /\ now >= r.expireAt THEN Absent ELSE r

-----------------------------------------------------------------------------
\* A lease protects a claimed or a started record while now < lease_until.
LeaseOver(r, now) == now >= r.leaseUntil

\* Mutants of Claimable: a started record is taken over like a claimed one; the
\* exceptions are started and completed, so an ambiguous record is open again.
ClaimableStarted(r, f, now) ==
  r.state = "absent" \/ (r.state \in {"claimed", "started"} /\ r.fp = f /\ LeaseOver(r, now))

ClaimableAmbiguous(r, f, now) ==
  \/ r.state = "absent"
  \/ r.state \notin {"started", "completed"} /\ r.fp = f /\ LeaseOver(r, now)

\* _CLAIM writes the claim of the caller into an absent key, or takes over a
\* claim that nobody marked started before its lease ran out.
Claimable(r, f, now) ==
  \/ r.state = "absent"
  \/ r.state = "claimed" /\ r.fp = f /\ LeaseOver(r, now)

\* _CLAIM and _READ condemn a started record whose lease ran out.
Abandoned(r, f, now) ==
  r.state = "started" /\ r.fp = f /\ LeaseOver(r, now)

Claimed(r, f, o, now) ==
  [state |-> "claimed", fp |-> f, owner |-> o, gen |-> r.gen + 1,
   leaseUntil |-> now + Lease, expireAt |-> now + 2 * Lease, result |-> NoOwner]

\* Mutant of Condemned: the state is misspelt.
CondemnedMisspelt(r) ==
  [r EXCEPT !.state = "ambigous", !.owner = NoOwner, !.leaseUntil = 0, !.expireAt = NoExpiry]

Condemned(r) ==
  [r EXCEPT !.state = "ambiguous", !.owner = NoOwner, !.leaseUntil = 0,
            !.expireAt = NoExpiry]

\* Mutant of ClaimStatus: a completed answer is replayed before the fingerprints
\* are compared.
ClaimStatusReplayFirst(r, f, now) ==
  IF Claimable(r, f, now) THEN "acquired"
  ELSE IF r.state = "completed" THEN "completed"
  ELSE IF r.fp # f THEN "conflict"
  ELSE IF Abandoned(r, f, now) \/ r.state = "ambiguous" THEN "ambiguous"
  ELSE "in_progress"

ClaimStatus(r, f, now) ==
  IF Claimable(r, f, now) THEN "acquired"
  ELSE IF r.fp # f THEN "conflict"
  ELSE IF Abandoned(r, f, now) THEN "ambiguous"
  ELSE IF r.state \in {"completed", "ambiguous"} THEN r.state
  ELSE "in_progress"

AfterClaim(r, f, o, now) ==
  IF Claimable(r, f, now) THEN Claimed(r, f, o, now)
  ELSE IF Abandoned(r, f, now) THEN Condemned(r)
  ELSE r

ReadStatus(r, f, now) ==
  IF r.state = "absent" THEN "missing"
  ELSE IF r.fp # f THEN "conflict"
  ELSE IF Abandoned(r, f, now) THEN "ambiguous"
  ELSE IF r.state \in {"completed", "ambiguous"} THEN r.state
  ELSE "in_progress"

AfterRead(r, f, now) == IF Abandoned(r, f, now) THEN Condemned(r) ELSE r

-----------------------------------------------------------------------------
\* Mutant of Owned: the generation alone is the fencing token.
OwnedByGeneration(r, f, o, g, state) == r.fp = f /\ r.state = state /\ r.gen = g

\* The guard of _START, _COMPLETE and _RELEASE: same request, expected state,
\* same owner token and same generation.  None of them looks at the lease.
Owned(r, f, o, g, state) ==
  r.fp = f /\ r.state = state /\ r.owner = o /\ r.gen = g

\* Mutant of AfterStart: the key keeps the time to live of the claim.
AfterStartKeepsTtl(r, f, o, g, now) ==
  IF Owned(r, f, o, g, "claimed")
  THEN [r EXCEPT !.state = "started", !.leaseUntil = now + Lease] ELSE r

AfterStart(r, f, o, g, now) ==
  IF Owned(r, f, o, g, "claimed")
  THEN [r EXCEPT !.state = "started", !.leaseUntil = now + Lease, !.expireAt = NoExpiry]
  ELSE r

AfterComplete(r, f, o, g, now) ==
  IF Owned(r, f, o, g, "started")
  THEN [r EXCEPT !.state = "completed", !.owner = NoOwner, !.leaseUntil = 0,
                 !.expireAt = now + CompletedTtl, !.result = o]
  ELSE r

AfterRelease(r, f, o, g) ==
  IF Owned(r, f, o, g, "claimed") THEN Absent ELSE r
=============================================================================
