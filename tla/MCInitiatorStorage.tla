------------------------- MODULE MCInitiatorStorage -------------------------
(* Instances of InitiatorStorage for TLC. The transactions of a worker are *)
(* interchangeable.                                                        *)
EXTENDS InitiatorStorage, TLC

AllFaults == FaultKinds
Symmetry == Permutations(Txns)
=============================================================================
