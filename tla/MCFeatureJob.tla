---------------------------- MODULE MCFeatureJob ----------------------------
(* FeatureJob on small instances.                                            *)
EXTENDS FeatureJob, MCFeatureStream

ASSUME JobAssumption

\* Two rows of the history and two live transactions.
FourTimes == <<1, 2, 4, 6>>
=============================================================================
