---------------------------- MODULE MCCoordinator ----------------------------
(* Small instances of Coordinator for TLC. *)
EXTENDS Coordinator, TLC

\* Owner tokens and digests are interchangeable.
Symmetry == Permutations(Owner) \cup Permutations(Fingerprint)
=============================================================================
