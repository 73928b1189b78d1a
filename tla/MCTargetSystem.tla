--------------------------- MODULE MCTargetSystem ---------------------------
(* Instances of TargetSystem for TLC.                                       *)
EXTENDS TargetSystem

AllFaults == FaultKinds
=============================================================================
