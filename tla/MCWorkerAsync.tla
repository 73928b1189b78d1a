---------------------------- MODULE MCWorkerAsync ----------------------------
(* Instances of WorkerAsync for TLC: every schedule of up to MaxCommands   *)
(* commands followed by a join.                                            *)
EXTENDS WorkerAsync
=============================================================================
