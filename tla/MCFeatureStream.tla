-------------------------- MODULE MCFeatureStream --------------------------
(* Scenarios for the model checker: ta and tb are peers, tc follows them,    *)
(* td carries the watermark past all three, te does not parse.               *)
EXTENDS FeatureStream, TLC

CONSTANTS ta, tb, tc, td, te

ASSUME StreamAssumption

All == {ta, tb, tc, td, te}
Parsed == {ta, tb, tc, td}
ScenarioTime == [t \in Tx |-> CASE t \in {ta, tb} -> 1 [] t = tc -> 2 [] t = td -> 4 + OutOfOrder + Lateness [] OTHER -> 0]
Unparsed == {te}
Failing == {ta}

User == <<"user_behavior", "u">>
Merchant == <<"merchant_behavior", "m">>

\* One key, one subtask.
Once == [t \in Tx |-> 1]
Users == {User}
UsersOf == [t \in Tx |-> Users]
OneSubtask == [t \in Tx |-> 1]

\* Two views and two subtasks; tb is not a payment, and is delivered twice.
Twice == [t \in Tx |-> IF t = tb THEN 2 ELSE 1]
Views == {User, Merchant}
ViewsOf == [t \in Tx |-> IF t = tb THEN Users ELSE Views]
Two == {1, 2}
TwoSubtasks == [t \in Tx |-> IF t \in {ta, tc} THEN 1 ELSE 2]

\* The claims about a job until its first restart are checked of Streaming alone.
UntilRestart == Init /\ [][Streaming]_vars
=============================================================================
