----------------------------- MODULE MCGgaSystem -----------------------------
(* Instances of GgaSystem for TLC. *)
EXTENDS GgaSystem

CONSTANTS c1, c2

AllFaults == FaultKinds
NoContent == <<>>

(* A client that reads and writes one block or two, *)
WholeRequests == [client : {c1}, type : {"read", "write"}, blocks : {1, 2}]

(* and beside it one that reads a block.            *)
MixedRequests == WholeRequests \cup [client : {c2}, type : {"read"}, blocks : {1}]
=============================================================================
