----------------------------- MODULE Coordinator -----------------------------
(***************************************************************************)
(* ProgrammaticCoordinator.handle: every call of it that shares one        *)
(* idempotency key, on any replica, with the Redis record they share.      *)
(*                                                                         *)
(* A handler is one call of handle, in a worker thread of one Coordinator  *)
(* replica.  Its owner token is its own name: uuid4 never repeats.  Each   *)
(* store call is one atomic script on the server, but the call may fail    *)
(* with IdempotencyBackendError before or after the script ran, or be sent *)
(* twice by the Redis client: a command that its caller no longer waits    *)
(* for is a `straggler' and lands later, or never.                         *)
(***************************************************************************)
EXTENDS IdempotencyStore

CONSTANTS
  WaitFor,        \* duplicate_wait_seconds
  RedisCrashes,   \* TRUE: Redis may stop and reload its append-only file
  MaxFaults,      \* bound: faults injected in one behaviour
  MaxTime         \* bound: the last tick of the clock, unless somebody waits for it

ASSUME BoundsAssumption ==
  /\ WaitFor \in Nat /\ RedisCrashes \in BOOLEAN
  /\ MaxFaults \in Nat /\ MaxTime \in Nat

Handler == Owner

VARIABLES
  now,         \* Redis TIME and the monotonic clock of the replicas
  rec,         \* the record in the memory of Redis
  aof,         \* the record as far as appendfsync has made it durable
  lostDecision, \* history: a restart has lost a write that followed mark_started
  pc,          \* where the handler stands in handle()
  fp,          \* the fingerprint of its request
  gen,         \* the generation of the claim it holds
  waitUntil,   \* the deadline of its duplicate wait
  cancelled,   \* its cancellation Event
  straggler,   \* its store command still under way, that no call waits for
  result,      \* the answer it returned
  verdict,     \* why it failed
  sentAt,      \* history: when it called the Specialist, 0 if it did not
  doneAt,      \* history: when its completion was first recorded, 0 if it was not
  faults       \* history: faults injected so far

store == <<rec, aof, lostDecision>>
local == <<fp, gen, waitUntil, cancelled>>
ended == <<result, verdict>>
history == <<sentAt, doneAt>>
vars == <<now, store, pc, local, straggler, ended, history, faults>>

\* The points of handle() at which a store call is outstanding.
Calls == {"claiming", "reading", "releasing", "starting", "completing"}
\* From mark_started's return to complete's return.
Delegation == {"delegating", "awaiting", "answered", "completing"}
Active == Calls \cup Delegation \cup {"polling", "owning"}
PC == Active \cup {"idle", "returned", "failed"}
Verdict == {"none", "conflict", "ambiguous", "in_progress", "state_invalid",
            "cancelled", "backend_unavailable", "downstream", "crashed"}

Current == Live(rec, now)

TypeOK ==
  /\ now \in Nat \ {0}
  /\ rec \in Record /\ aof \in Record /\ lostDecision \in BOOLEAN
  /\ pc \in [Handler -> PC]
  /\ fp \in [Handler -> Fingerprint \cup {NoPrint}]
  /\ gen \in [Handler -> Nat]
  /\ waitUntil \in [Handler -> Nat]
  /\ cancelled \in [Handler -> BOOLEAN]
  /\ straggler \in [Handler -> Calls \cup {"none"}]
  /\ result \in [Handler -> Owner \cup {NoOwner}]
  /\ verdict \in [Handler -> Verdict]
  /\ sentAt \in [Handler -> Nat] /\ doneAt \in [Handler -> Nat]
  /\ faults \in Nat

Init ==
  /\ now = 1
  /\ rec = Absent /\ aof = Absent /\ lostDecision = FALSE
  /\ pc = [h \in Handler |-> "idle"]
  /\ fp = [h \in Handler |-> NoPrint]
  /\ gen = [h \in Handler |-> 0]
  /\ waitUntil = [h \in Handler |-> 0]
  /\ cancelled = [h \in Handler |-> FALSE]
  /\ straggler = [h \in Handler |-> "none"]
  /\ result = [h \in Handler |-> NoOwner]
  /\ verdict = [h \in Handler |-> "none"]
  /\ sentAt = [h \in Handler |-> 0] /\ doneAt = [h \in Handler |-> 0]
  /\ faults = 0

-----------------------------------------------------------------------------
Goto(h, point) == pc' = [pc EXCEPT ![h] = point] /\ UNCHANGED ended

Fail(h, why) ==
  /\ pc' = [pc EXCEPT ![h] = "failed"]
  /\ verdict' = [verdict EXCEPT ![h] = why]
  /\ UNCHANGED result

Return(h, answer) ==
  /\ pc' = [pc EXCEPT ![h] = "returned"]
  /\ result' = [result EXCEPT ![h] = answer]
  /\ UNCHANGED verdict

Inject == faults < MaxFaults /\ faults' = faults + 1

\* What the command of a store call does to the record.
Applied(h, call) ==
  CASE call = "claiming"   -> AfterClaim(Current, fp[h], h, now)
    [] call = "reading"    -> AfterRead(Current, fp[h], now)
    [] call = "starting"   -> AfterStart(Current, fp[h], h, gen[h], now)
    [] call = "completing" -> AfterComplete(Current, fp[h], h, gen[h], now)
    [] call = "releasing"  -> AfterRelease(Current, fp[h], h, gen[h])

\* History: the command records the completion of h.
Completes(h, call) == call = "completing" /\ Owned(Current, fp[h], h, gen[h], "started")

\* A store call of h, or its straggler, is executed.
Perform(h, call) ==
  /\ rec' = Applied(h, call)
  /\ doneAt' = IF Completes(h, call) /\ doneAt[h] = 0
               THEN [doneAt EXCEPT ![h] = now] ELSE doneAt
  /\ UNCHANGED <<aof, lostDecision, sentAt>>

-----------------------------------------------------------------------------
\* A validated request reaches handle().
Arrive(h, f) ==
  /\ pc[h] = "idle"
  /\ fp' = [fp EXCEPT ![h] = f]
  /\ Goto(h, "claiming")
  /\ UNCHANGED <<now, store, gen, waitUntil, cancelled, straggler, history, faults>>

\* _claim_or_wait up to its wait loop: one _CLAIM and the decision on its status.
Claim(h) ==
  LET status == ClaimStatus(Current, fp[h], now) IN
  /\ pc[h] = "claiming"
  /\ Perform(h, "claiming")
  /\ \/ /\ status = "acquired"
        /\ gen' = [gen EXCEPT ![h] = rec'.gen]
        /\ Goto(h, "owning")
        /\ UNCHANGED waitUntil
     \/ /\ status = "completed"
        /\ Return(h, Current.result)
        /\ UNCHANGED <<gen, waitUntil>>
     \/ /\ status \in {"ambiguous", "conflict"}
        /\ Fail(h, status)
        /\ UNCHANGED <<gen, waitUntil>>
     \/ /\ status = "in_progress"
        /\ waitUntil' = [waitUntil EXCEPT ![h] = now + WaitFor]
        /\ Goto(h, "polling")
        /\ UNCHANGED gen
  /\ UNCHANGED <<now, fp, cancelled, straggler, faults>>

\* Mutant of Poll: the loop has no deadline.
PollForever(h) ==
  /\ pc[h] = "polling"
  /\ IF cancelled[h] THEN Fail(h, "cancelled") ELSE Goto(h, "reading")
  /\ UNCHANGED <<now, store, local, straggler, history, faults>>

\* The head of the wait loop: the deadline, then the cancellation, then a sleep.
Poll(h) ==
  /\ pc[h] = "polling"
  /\ \/ now >= waitUntil[h] /\ Fail(h, "in_progress")
     \/ now < waitUntil[h] /\ cancelled[h] /\ Fail(h, "cancelled")
     \/ now < waitUntil[h] /\ ~cancelled[h] /\ Goto(h, "reading")
  /\ UNCHANGED <<now, store, local, straggler, history, faults>>

\* The _READ of the wait loop.
Read(h) ==
  LET status == ReadStatus(Current, fp[h], now) IN
  /\ pc[h] = "reading"
  /\ Perform(h, "reading")
  /\ \/ status = "completed" /\ Return(h, Current.result)
     \/ status \in {"ambiguous", "conflict"} /\ Fail(h, status)
     \/ status = "missing" /\ Fail(h, "state_invalid")
     \/ status = "in_progress" /\ Goto(h, "polling")
  /\ UNCHANGED <<now, local, straggler, faults>>

\* handle() looks at the cancellation once between the claim and mark_started.
CheckCancelled(h) ==
  /\ pc[h] = "owning"
  /\ Goto(h, IF cancelled[h] THEN "releasing" ELSE "starting")
  /\ UNCHANGED <<now, store, local, straggler, history, faults>>

Release(h) ==
  /\ pc[h] = "releasing"
  /\ Perform(h, "releasing")
  /\ Fail(h, IF Owned(Current, fp[h], h, gen[h], "claimed")
             THEN "cancelled" ELSE "backend_unavailable")
  /\ UNCHANGED <<now, local, straggler, faults>>

Start(h) ==
  /\ pc[h] = "starting"
  /\ Perform(h, "starting")
  /\ IF Owned(Current, fp[h], h, gen[h], "claimed")
     THEN Goto(h, "delegating")
     ELSE Fail(h, "state_invalid")
  /\ UNCHANGED <<now, local, straggler, faults>>

\* The transport posts the request: from here the Specialist may act on it.
Send(h) ==
  /\ pc[h] = "delegating"
  /\ sentAt' = [sentAt EXCEPT ![h] = now]
  /\ Goto(h, "awaiting")
  /\ UNCHANGED <<now, store, local, straggler, doneAt, faults>>

\* The transport raises, before the request left or while it waits (timeout).
TransportFails(h) ==
  /\ pc[h] \in {"delegating", "awaiting"}
  /\ Fail(h, "downstream")
  /\ Inject
  /\ UNCHANGED <<now, store, local, straggler, history>>

Respond(h) ==
  /\ pc[h] = "awaiting"
  /\ Goto(h, "answered")
  /\ UNCHANGED <<now, store, local, straggler, history, faults>>

\* A cancelled call drops the answer; an answer that is no valid terminal
\* evidence, or a refused synthesis, fails; both leave the record started.
Settle(h) ==
  /\ pc[h] = "answered"
  /\ \/ cancelled[h] /\ Fail(h, "cancelled")
     \/ ~cancelled[h] /\ Fail(h, "downstream")
     \/ ~cancelled[h] /\ Goto(h, "completing")
  /\ UNCHANGED <<now, store, local, straggler, history, faults>>

Complete(h) ==
  /\ pc[h] = "completing"
  /\ Perform(h, "completing")
  /\ IF Completes(h, "completing") THEN Return(h, h) ELSE Fail(h, "state_invalid")
  /\ UNCHANGED <<now, local, straggler, faults>>

-----------------------------------------------------------------------------
\* A store call raises IdempotencyBackendError; its command may land later.
Unavailable(h) ==
  /\ pc[h] \in Calls
  /\ Fail(h, "backend_unavailable")
  /\ straggler' \in {straggler, [straggler EXCEPT ![h] = pc[h]]}
  /\ Inject
  /\ UNCHANGED <<now, store, local, history>>

\* The Redis client loses the connection and sends the command once more.
Resend(h) ==
  /\ pc[h] \in Calls /\ straggler[h] = "none"
  /\ straggler' = [straggler EXCEPT ![h] = pc[h]]
  /\ Inject
  /\ UNCHANGED <<now, store, pc, local, ended, history>>

\* A command nobody waits for reaches Redis; its reply is lost.
Land(h) ==
  /\ straggler[h] # "none"
  /\ Perform(h, straggler[h])
  /\ straggler' = [straggler EXCEPT ![h] = "none"]
  /\ UNCHANGED <<now, pc, local, ended, faults>>

\* The executor sets the Event: tasks/cancel, or its own deadline passed.
Cancel(h) ==
  /\ pc[h] \in Active /\ ~cancelled[h]
  /\ cancelled' = [cancelled EXCEPT ![h] = TRUE]
  /\ Inject
  /\ UNCHANGED <<now, store, pc, fp, gen, waitUntil, straggler, ended, history>>

\* The replica dies: its handlers stop wherever they are.
Crash(h) ==
  /\ pc[h] \in Active
  /\ Fail(h, "crashed")
  /\ straggler' \in {straggler} \cup
       {[straggler EXCEPT ![h] = call] : call \in {pc[h]} \cap Calls}
  /\ Inject
  /\ UNCHANGED <<now, store, local, history>>

\* appendfsync everysec.
Fsync ==
  /\ RedisCrashes /\ aof # rec
  /\ aof' = rec
  /\ UNCHANGED <<now, rec, lostDecision, pc, local, straggler, ended, history, faults>>

\* Redis stops, loses what was not fsynced, and reloads the append-only file.
RedisRestart ==
  /\ RedisCrashes
  /\ rec' = aof
  /\ lostDecision' = (lostDecision \/ (rec # aof /\ rec.state \notin {"absent", "claimed"}))
  /\ straggler' = [h \in Handler |-> "none"]
  /\ Inject
  /\ UNCHANGED <<now, aof, pc, local, ended, history>>

\* The clock is bounded, but never stops under a handler that waits for it.
Tick ==
  /\ now < MaxTime \/ \E h \in Handler : pc[h] \in {"polling", "reading"} /\ now < waitUntil[h]
  /\ now' = now + 1
  /\ UNCHANGED <<store, pc, local, straggler, ended, history, faults>>

\* What the code of h does next; none of these waits for anything but a reply.
Step(h) ==
  \/ Claim(h) \/ Poll(h) \/ Read(h) \/ CheckCancelled(h) \/ Release(h)
  \/ Start(h) \/ Send(h) \/ Respond(h) \/ Settle(h) \/ Complete(h)

Fault(h) ==
  Unavailable(h) \/ Resend(h) \/ Land(h) \/ Cancel(h) \/ Crash(h) \/ TransportFails(h)

Next ==
  \/ \E h \in Handler : Step(h) \/ Fault(h) \/ \E f \in Fingerprint : Arrive(h, f)
  \/ Fsync \/ RedisRestart \/ Tick

Spec == Init /\ [][Next]_vars

\* A thread whose call has returned goes on, a store call or the transport
\* returns or raises (both have timeouts), and the clock advances.
FairSpec == Spec /\ WF_vars(Tick) /\ \A h \in Handler : WF_vars(Step(h))

-----------------------------------------------------------------------------
\* The Specialist was, or may any moment be, called by h.
Committed(h) == pc[h] \in Delegation \/ sentAt[h] # 0

\* ... and no answer of it has been recorded.
InDoubt(h) == Committed(h) /\ doneAt[h] = 0

\* The answer of a was durable, and its retention over, before b went out.
Separated(a, b) == doneAt[a] # 0 /\ doneAt[a] + CompletedTtl <= sentAt[b]

\* Two handlers never reach the Specialist for one request while the first
\* answer is unknown or retained: takeover, conflict, retry and replay all pass
\* through the record.  The one excuse is a Redis restart that loses the write
\* of mark_started or a later one; losing claims and releases is none.
AtMostOnce ==
  \A a, b \in Handler :
    a # b /\ sentAt[a] # 0 /\ sentAt[b] # 0 /\ ~lostDecision
      => Separated(a, b) \/ Separated(b, a)

\* At no moment is the outcome of two delegations open: however long a handler
\* overstays its lease and whatever became of it, nobody else gets in.
SingleInDoubt ==
  \A a, b \in Handler : InDoubt(a) /\ InDoubt(b) /\ ~lostDecision => a = b

\* An answer handed to a caller is the answer of a delegation made for the
\* caller's own canonical request, whoever made it and however it was replayed.
AnswerIsOwn ==
  \A h \in Handler :
    pc[h] = "returned" =>
      /\ result[h] \in Handler
      /\ sentAt[result[h]] # 0
      /\ fp[result[h]] = fp[h]

\* Whoever is told `ambiguous' was told for good: the record still says so.
AmbiguousIsFinal ==
  \A h \in Handler :
    verdict[h] = "ambiguous" => rec.state = "ambiguous" \/ lostDecision

\* A delegation in doubt is never forgotten: until the answer is recorded, the
\* record is started by that handler or ambiguous, and has no time to live.
InDoubtIsKept ==
  \A h \in Handler :
    InDoubt(h) /\ ~lostDecision =>
      /\ rec.state = "ambiguous" \/ (rec.state = "started" /\ rec.owner = h)
      /\ rec.expireAt = NoExpiry

\* Every request that arrives is answered or refused.
Terminates ==
  \A h \in Handler : pc[h] \in Active ~> pc[h] \in {"returned", "failed"}

\* The record read as a phase of OneDelegation: an unstarted claim, however
\* often it changes hands, leaves the request open.
Phase ==
  CASE Current.state \in {"absent", "claimed"} -> "open"
    [] Current.state = "started"   -> "running"
    [] Current.state = "completed" -> "done"
    [] Current.state = "ambiguous" -> "stuck"

\* The handler that delegates, or whose answer is retained.
Who ==
  CASE Phase = "running" -> Current.owner
    [] Phase = "done"    -> Current.result
    [] OTHER             -> NoOwner

Called ==
  /\ Phase # "open"
  /\ Phase = "done" \/ \E h \in Handler : sentAt[h] # 0 /\ doneAt[h] = 0

Promise == INSTANCE OneDelegation WITH
  Nobody <- NoOwner, phase <- Phase, who <- Who, called <- Called

\* Everything the handlers do to the record, through every fault but a Redis
\* crash, is a step of OneDelegation or changes nothing of it.
KeepsPromise == Promise!Spec
=============================================================================
