------------------------------ MODULE MCAgents ------------------------------
(* Agents on small instances.                                                *)
EXTENDS Agents, TLC

CONSTANTS e1, e2, e3

ASSUME AgentsAssumption

\* Two of the executions repeat a request, one reuses its id.
Executions == {e1, e2, e3}
Requests == e1 :> "data" @@ e2 :> "data" @@ e3 :> "other"
=============================================================================
