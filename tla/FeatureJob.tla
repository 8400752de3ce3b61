----------------------------- MODULE FeatureJob -----------------------------
(* The two lives of the feature job, explored side by side: normal streaming  *)
(* (FeatureStream) and the first deployment (Bootstrap), of one out-of-order  *)
(* bound, allowed lateness and window.  A behaviour is of `setting'.          *)
EXTENDS FeatureStream

CONSTANTS Rows, Live, Times, Runs, MaxLost, MaxQueue   \* of the first deployment

VARIABLES
  feeder, queue, log, lost, mode, offset, managed, latest, watermark, complete, savepoint,
  online, starts,
  setting

first == <<feeder, queue, log, lost, mode, offset, managed, latest, watermark, complete,
           savepoint, online, starts>>
all == <<vars, first, setting>>

B == INSTANCE Bootstrap WITH
  state <- managed, maxTime <- latest, checkpoint <- savepoint, restarts <- starts

JobAssumption == StreamAssumption /\ B!BootstrapAssumption

JobInit == setting \in {"normal", "bootstrap"} /\ Init /\ B!Init

JobNext ==
  /\ UNCHANGED setting
  /\ \/ setting = "normal" /\ Next /\ UNCHANGED first
     \/ setting = "bootstrap" /\ B!Next /\ UNCHANGED vars

\* The fairness of Bootstrap, for the behaviours that are of it.
JobFairness ==
  LET On == setting = "bootstrap" IN
  /\ WF_first(On /\ B!StartFeeder) /\ WF_first(On /\ B!Produce)
  /\ WF_first(On /\ B!Deliver) /\ WF_first(On /\ B!Flush)
  /\ WF_first(On /\ B!Read) /\ WF_first(On /\ B!ReadMarker)
  /\ WF_first(On /\ B!Fire) /\ WF_first(On /\ B!Checkpoint)
  /\ WF_first(On /\ B!Savepoint) /\ WF_first(On /\ B!StartNormal)

JobSpec == JobInit /\ [][JobNext]_all /\ JobFairness

-----------------------------------------------------------------------------
\* Every delivered row in the window of a live transaction in order is counted.
RowsAreCounted == B!RowsAreCounted

\* The bootstrap job passes no live transaction: those published too early are left to
\* the normal job.
LiveIsLeft == B!LiveIsLeft

\* A feeder that succeeds leads to the handover, unless live transactions came too early
\* or its marker was lost.
HandsOver == B!HandsOver
=============================================================================
