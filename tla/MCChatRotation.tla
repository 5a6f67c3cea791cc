--------------------------- MODULE MCChatRotation ---------------------------
(* Instances of ChatRotation for TLC.                                        *)
EXTENDS ChatRotation

CONSTANTS Caps, PerRuns, Times, Workers

AllSettings ==
  {[cap |-> p, interval |-> t.interval, cron |-> t.cron, budget |-> t.budget,
    perRun |-> q, workers |-> w] : p \in Caps, q \in PerRuns, t \in Times, w \in Workers}

\* The default, a window of two crons, and a cron of two windows.
DefaultTimes == [interval |-> 2, cron |-> 2, budget |-> 1]
WideWindow == [interval |-> 4, cron |-> 2, budget |-> 1]
NarrowWindow == [interval |-> 2, cron |-> 4, budget |-> 1]
ThreeTimes == {DefaultTimes, WideWindow, NarrowWindow}
=============================================================================
