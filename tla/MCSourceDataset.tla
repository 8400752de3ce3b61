-------------------------- MODULE MCSourceDataset --------------------------
(* Instances for the model checker: all publishers on one host, or each on  *)
(* its own.                                                                 *)
EXTENDS SourceDataset, TLC

CONSTANTS oneHost

SameHost == [p \in Publisher |-> oneHost]
OwnHost == [p \in Publisher |-> p]

\* Publishers and tables are interchangeable.
Symmetric == Permutations(Publisher) \cup Permutations(Table)
=============================================================================
