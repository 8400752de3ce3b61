-------------------------- MODULE CoordinatorTasks --------------------------
(***************************************************************************)
(* The tasks of one Coordinator process (CoordinatorExecutor in            *)
(* llm_agent/byo_coordinator.py): execute() hands the request to a thread of *)
(* the shared pool and waits for it up to a deadline; cancel() runs beside   *)
(* it in the event loop.  The handler in the thread is the subject of the    *)
(* module Coordinator: here it checks for cancellation once, records the     *)
(* start of the delegation and delegates.                                  *)
(***************************************************************************)
EXTENDS FiniteSets, Naturals

CONSTANTS
  Task,
  Threads        \* threads of the shared pool

VARIABLES
  at,            \* where the execution of each task is
  cancelled,     \* tasks whose cancellation Event is set
  known,         \* tasks with an entry in _cancellations
  thread,        \* the handler of each task
  canceller,     \* the cancel() of each task: "none", "signalled" or "returned"
  reports,       \* final reports of each task
  early          \* history: tasks reported before their handler's check

vars == <<at, cancelled, known, thread, canceller, reports, early>>

Init ==
  /\ at = [t \in Task |-> "new"]
  /\ cancelled = {} /\ known = {}
  /\ thread = [t \in Task |-> "none"]
  /\ canceller = [t \in Task |-> "none"]
  /\ reports = [t \in Task |-> {}]
  /\ early = {}

Goto(t, where) == at' = [at EXCEPT ![t] = where]
Report(t, state) ==
  /\ reports' = [reports EXCEPT ![t] = @ \cup {state}]
  /\ early' = IF thread[t] \in {"none", "queued", "dropped", "checking"}
              THEN early \cup {t} ELSE early

\* The finally clause.
End(t) == Goto(t, "ended") /\ known' = known \ {t}

-----------------------------------------------------------------------------
(* execute                                                                 *)

\* A question is planned first.
Start(t) ==
  /\ at[t] = "new"
  /\ at' \in {[at EXCEPT ![t] = "intake"], [at EXCEPT ![t] = "submit"]}
  /\ known' = known \cup {t}
  /\ UNCHANGED <<cancelled, thread, canceller, reports, early>>

\* The plan is a request; or a rejection or failure, reported at once.
Intake(t) ==
  /\ at[t] = "intake"
  /\ \/ Goto(t, "submit") /\ UNCHANGED <<reports, known, early>>
     \/ End(t) /\ \E state \in {"rejected", "failed"} : Report(t, state)
  /\ UNCHANGED <<cancelled, thread, canceller>>

Submit(t) ==
  /\ at[t] = "submit"
  /\ Goto(t, "wait")
  /\ thread' = [thread EXCEPT ![t] = "queued"]
  /\ UNCHANGED <<cancelled, known, canceller, reports, early>>

\* A handler that is not running yet is taken from the queue.
Abandoned(t) == [thread EXCEPT ![t] = IF @ = "queued" THEN "dropped" ELSE @]

\* Mutant: the handler is not told.
TimeoutForgets(t) ==
  /\ at[t] = "wait"
  /\ thread' = Abandoned(t)
  /\ Goto(t, "timedOut")
  /\ UNCHANGED <<cancelled, known, canceller, reports, early>>

\* The deadline passes: the Event is set, then the failure reported.
Timeout(t) ==
  /\ at[t] = "wait"
  /\ thread' = Abandoned(t)
  /\ cancelled' = cancelled \cup {t}
  /\ Goto(t, "timedOut")
  /\ UNCHANGED <<known, canceller, reports, early>>

ReportTimeout(t) ==
  /\ at[t] = "timedOut"
  /\ Report(t, "failed") /\ End(t)
  /\ UNCHANGED <<cancelled, thread, canceller>>

\* The handler has returned a result or raised a failure.  A result is dropped if the
\* task has been cancelled by now.
Result(t) ==
  /\ at[t] = "wait"
  /\ \/ /\ thread[t] = "returned"
        /\ IF t \in cancelled THEN End(t) ELSE Goto(t, "artifacts") /\ UNCHANGED known
        /\ UNCHANGED <<reports, early>>
     \/ /\ thread[t] = "raised"
        /\ End(t) /\ \E state \in {"rejected", "failed"} : Report(t, state)
  /\ UNCHANGED <<cancelled, thread, canceller>>

Finish(t) ==
  /\ at[t] = "artifacts"
  /\ Report(t, "completed") /\ End(t)
  /\ UNCHANGED <<cancelled, thread, canceller>>

-----------------------------------------------------------------------------
(* cancel                                                                  *)

\* The Event of a registered execution is set, and its planner cancelled.
Cancel(t) ==
  /\ at[t] # "new" /\ canceller[t] = "none" /\ reports[t] = {}
  /\ canceller' = [canceller EXCEPT ![t] = "signalled"]
  /\ cancelled' = IF t \in known THEN cancelled \cup {t} ELSE cancelled
  /\ UNCHANGED <<at, known, thread, reports, early>>

\* The planner was cancelled: the execution returns without a report.
IntakeCancelled(t) ==
  /\ at[t] = "intake" /\ canceller[t] # "none"
  /\ End(t)
  /\ UNCHANGED <<cancelled, thread, canceller, reports, early>>

ReportCancel(t) ==
  /\ canceller[t] = "signalled"
  /\ canceller' = [canceller EXCEPT ![t] = "returned"]
  /\ Report(t, "canceled")
  /\ UNCHANGED <<at, cancelled, known, thread>>

\* After cancel() the SDK cancels the execution at the await it is in.
Interrupt(t) ==
  /\ canceller[t] = "returned" /\ at[t] \notin {"new", "ended"}
  /\ thread' = Abandoned(t)
  /\ End(t)
  /\ UNCHANGED <<cancelled, canceller, reports, early>>

-----------------------------------------------------------------------------
(* The pool and the handler.                                               *)

Busy == {t \in Task : thread[t] \in {"checking", "starting", "delegating"}}

Run(t) ==
  /\ thread[t] = "queued" /\ Cardinality(Busy) < Threads
  /\ thread' = [thread EXCEPT ![t] = "checking"]
  /\ UNCHANGED <<at, cancelled, known, canceller, reports, early>>

\* After its claim the handler reads the Event, once.
Check(t) ==
  /\ thread[t] = "checking"
  /\ thread' = [thread EXCEPT ![t] = IF t \in cancelled THEN "raised" ELSE "starting"]
  /\ UNCHANGED <<at, cancelled, known, canceller, reports, early>>

\* mark_started, a call to the store that may fail; the Event is not read again before
\* the delegation.
MarkStarted(t) ==
  /\ thread[t] = "starting"
  /\ \E outcome \in {"delegating", "raised"} : thread' = [thread EXCEPT ![t] = outcome]
  /\ UNCHANGED <<at, cancelled, known, canceller, reports, early>>

\* It fails before its check, or replays a recorded answer.
NoDelegation(t) ==
  /\ thread[t] = "checking"
  /\ \E outcome \in {"returned", "raised"} : thread' = [thread EXCEPT ![t] = outcome]
  /\ UNCHANGED <<at, cancelled, known, canceller, reports, early>>

Delegated(t) ==
  /\ thread[t] = "delegating"
  /\ \E outcome \in {"returned", "raised"} : thread' = [thread EXCEPT ![t] = outcome]
  /\ UNCHANGED <<at, cancelled, known, canceller, reports, early>>

Execute(t) == Submit(t) \/ Timeout(t) \/ ReportTimeout(t) \/ Result(t) \/ Finish(t)
Handle(t) == Run(t) \/ Check(t) \/ MarkStarted(t) \/ NoDelegation(t) \/ Delegated(t)

Next ==
  \E t \in Task :
    \/ Start(t) \/ Intake(t) \/ IntakeCancelled(t) \/ Execute(t)
    \/ Cancel(t) \/ ReportCancel(t) \/ Interrupt(t)
    \/ Handle(t)

Spec == Init /\ [][Next]_vars

-----------------------------------------------------------------------------
States == {"rejected", "failed", "completed", "canceled"}

TypeOK ==
  /\ at \in [Task -> {"new", "intake", "submit", "wait", "timedOut", "artifacts", "ended"}]
  /\ cancelled \subseteq Task /\ known \subseteq Task /\ early \subseteq Task
  /\ thread \in [Task -> {"none", "queued", "dropped", "checking", "starting", "delegating",
                          "returned", "raised"}]
  /\ canceller \in [Task -> {"none", "signalled", "returned"}]
  /\ reports \in [Task -> SUBSET States]

\* "cancelled before delegation": a task reported timed out, failed or canceled before
\* its handler's check is never delegated, wherever execute() and cancel() were and
\* however long the handler waited for a thread.  A report made later, during
\* mark_started, may be followed by the delegation.
ReportedEarlyIsNotDelegated == \A t \in early : thread[t] \notin {"starting", "delegating"}
=============================================================================
