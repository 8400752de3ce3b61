-------------------------- MODULE SpecialistCache --------------------------
(***************************************************************************)
(* The completed requests of one Feature-RAG Specialist process            *)
(* (llm_agent/byo_feature_rag_specialist.py).  Executions of one context    *)
(* and request id look the answer up, ask the tools without the lock, and   *)
(* store theirs unless another one was faster.                              *)
(***************************************************************************)
CONSTANTS
  Execution,     \* executions of tasks of one context and request id
  DataOf,        \* [Execution -> the business data of its request]
  NoAnswer

VARIABLES
  at,            \* where each execution is
  answer,        \* what it has got from the tools, or from the cache
  completed,     \* the cached [data, evidence], or NoAnswer
  reported       \* the final report of each task, and its evidence if completed

vars == <<at, answer, completed, reported>>

\* The tools answer each run on its own: evidence is named for the run.
Evidence == Execution
Entry == [data : {DataOf[e] : e \in Execution}, evidence : Evidence]

CacheAssumption == NoAnswer \notin Entry

Running == {"planning", "lookup", "tools", "store", "report"}

Init ==
  /\ at = [e \in Execution |-> "new"]
  /\ answer = [e \in Execution |-> NoAnswer]
  /\ completed = NoAnswer
  /\ reported = [e \in Execution |-> [state |-> "none", evidence |-> NoAnswer]]

Goto(e, where) == at' = [at EXCEPT ![e] = where]

Final(e, state, evidence) ==
  /\ Goto(e, "ended")
  /\ reported' = [reported EXCEPT ![e] = [state |-> state, evidence |-> evidence]]

\* A question goes through the planner, a typed request is parsed.
Start(e) ==
  /\ at[e] = "new"
  /\ at' \in {[at EXCEPT ![e] = "planning"], [at EXCEPT ![e] = "lookup"]}
  /\ UNCHANGED <<answer, completed, reported>>

\* The plan is a request, or a rejection.
Plan(e) ==
  /\ at[e] = "planning"
  /\ \/ Goto(e, "lookup") /\ UNCHANGED reported
     \/ Final(e, "rejected", NoAnswer)
  /\ UNCHANGED <<answer, completed>>

\* A cached answer serves the same data only: "idempotency_conflict".
Served(e) ==
  IF completed.data = DataOf[e]
  THEN /\ answer' = [answer EXCEPT ![e] = completed.evidence]
       /\ Goto(e, "report") /\ UNCHANGED reported
  ELSE Final(e, "rejected", NoAnswer) /\ UNCHANGED answer

Lookup(e) ==
  /\ at[e] = "lookup"
  /\ IF completed # NoAnswer THEN Served(e)
     ELSE Goto(e, "tools") /\ UNCHANGED <<answer, reported>>
  /\ UNCHANGED completed

\* The tools answer, or fail, or exceed their deadline.
Tools(e) ==
  /\ at[e] = "tools"
  /\ \/ answer' = [answer EXCEPT ![e] = e] /\ Goto(e, "store") /\ UNCHANGED reported
     \/ Final(e, "failed", NoAnswer) /\ UNCHANGED answer
  /\ UNCHANGED completed

\* Mutant: the answer is stored without a second look.
StoreOver(e) ==
  /\ at[e] = "store"
  /\ completed' = [data |-> DataOf[e], evidence |-> answer[e]]
  /\ Goto(e, "report")
  /\ UNCHANGED <<answer, reported>>

Store(e) ==
  /\ at[e] = "store"
  /\ IF completed = NoAnswer
     THEN /\ completed' = [data |-> DataOf[e], evidence |-> answer[e]]
          /\ Goto(e, "report") /\ UNCHANGED <<answer, reported>>
     ELSE Served(e) /\ UNCHANGED completed

Report(e) ==
  /\ at[e] = "report"
  /\ Final(e, "completed", answer[e])
  /\ UNCHANGED <<answer, completed>>

\* The deadline of the task: its run is cancelled with it, wherever it is.
Timeout(e) ==
  /\ at[e] \in {"lookup", "tools", "store"}
  /\ Final(e, "failed", NoAnswer)
  /\ UNCHANGED <<answer, completed>>

\* cancel() cancels the planner or the run, and reports.
Cancel(e) ==
  /\ at[e] \in Running \ {"report"}
  /\ Final(e, "canceled", NoAnswer)
  /\ UNCHANGED <<answer, completed>>

\* It finds the run done: the execution may go on and report as well.
CancelLate(e) ==
  /\ at[e] = "report" /\ reported[e].state = "none"
  /\ reported' = [reported EXCEPT ![e] = [state |-> "canceled", evidence |-> NoAnswer]]
  /\ at' \in {at, [at EXCEPT ![e] = "ended"]}
  /\ UNCHANGED <<answer, completed>>

Next ==
  \E e \in Execution :
    \/ Start(e) \/ Plan(e) \/ Lookup(e) \/ Tools(e) \/ Store(e) \/ Report(e)
    \/ Timeout(e) \/ Cancel(e) \/ CancelLate(e)

Spec == Init /\ [][Next]_vars

-----------------------------------------------------------------------------
TypeOK ==
  /\ at \in [Execution -> Running \cup {"new", "ended"}]
  /\ answer \in [Execution -> Evidence \cup {NoAnswer}]
  /\ completed \in Entry \cup {NoAnswer}
  /\ reported \in [Execution -> [state : {"none", "completed", "failed", "rejected", "canceled"},
                                evidence : Evidence \cup {NoAnswer}]]

\* "Request identity was reused with different business data": whatever ran side by
\* side, all completed tasks of one request id had the same data and report the same
\* evidence.
OneEvidence ==
  \A e, f \in Execution :
    reported[e].state = "completed" /\ reported[f].state = "completed" =>
      DataOf[e] = DataOf[f] /\ reported[e].evidence = reported[f].evidence
=============================================================================
