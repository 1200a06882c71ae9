---------------------------- MODULE MCGuidedAgent ----------------------------
(* A machine with one state between the first and the last, and two           *)
(* properties: the first needs two steps in turn, and a state may satisfy two *)
(* transitions of the second.                                                 *)
EXTENDS GuidedAgent

MCMachine == AddState(NewRewardMachine, "Elected")

ElectedThenFinal ==
  MarkSuccess(On(On(NewMonitor, "init", "Elected", "elected"), "elected", "Final", "final"), "final")
FinalFirst ==
  MarkSuccess(On(On(NewMonitor, "init", "Final", "final"), "init", "Elected", "elected"), "final")

MCMonitors == <<ElectedThenFinal, FinalFirst>>
=============================================================================
