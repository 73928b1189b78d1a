-------------------------- MODULE MCZeroCopySystem --------------------------
(* Instances of ZeroCopySystem for TLC.                                    *)
EXTENDS ZeroCopySystem

AllFaults == FaultKinds
=============================================================================
