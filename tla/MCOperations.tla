---------------------------- MODULE MCOperations ----------------------------
(* Operations on small instances.                                            *)
EXTENDS Operations, TLC

CONSTANTS s1, s2, s3, x, y, z

ASSUME OperationsAssumption

BothStages == <<"silver", "gold">>

\* The steps of one profile, and the last one.
GoldSteps ==
  LET S(action) == [action |-> action, profile |-> "baseline"] IN
  <<S("quota"), S("submit"), S("verify"), S("summary"), S("evidence"), S("finalize")>>

\* Three runs of the publication, whose files differ in name or content.
Runs == {s1, s2, s3}
Names == {x, y, z}
Files == s1 :> <<x, y>> @@ s2 :> <<x, z>> @@ s3 :> <<z>>
=============================================================================
