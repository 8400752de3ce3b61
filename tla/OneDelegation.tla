---------------------------- MODULE OneDelegation ----------------------------
(***************************************************************************)
(* What the Coordinator promises for one business request, with no leases, *)
(* tokens, calls or clocks: at most one handler at a time may call the     *)
(* Specialist, it calls at most once, its answer is retained for a while   *)
(* and then forgotten, and a delegation whose outcome nobody recorded      *)
(* leaves the request stuck for good.                                      *)
(***************************************************************************)
CONSTANTS Owner, Nobody

VARIABLES
  phase,   \* "open", "running", "done" or "stuck"
  who,     \* the handler that runs, or whose answer is retained
  called   \* the Specialist was called since the request was last open

vars == <<phase, who, called>>

Init == phase = "open" /\ who = Nobody /\ called = FALSE

Begin(h) ==
  /\ phase = "open"
  /\ phase' = "running" /\ who' = h /\ called' = FALSE

\* A handler that overstays may still call after it was given up.
Call ==
  /\ phase \in {"running", "stuck"} /\ ~called
  /\ called' = TRUE
  /\ UNCHANGED <<phase, who>>

Finish ==
  /\ phase = "running" /\ called
  /\ phase' = "done"
  /\ UNCHANGED <<who, called>>

Forget ==
  /\ phase = "done"
  /\ phase' = "open" /\ who' = Nobody /\ called' = FALSE

GiveUp ==
  /\ phase = "running"
  /\ phase' = "stuck" /\ who' = Nobody
  /\ UNCHANGED called

Next == (\E h \in Owner : Begin(h)) \/ Call \/ Finish \/ Forget \/ GiveUp

Spec == Init /\ [][Next]_vars
=============================================================================
