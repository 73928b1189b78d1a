---------------------------- MODULE TargetSystem ----------------------------
(***************************************************************************)
(* A target worker with a peer that sends it read and write requests, has  *)
(* it stopped at any time, and takes its responses.                        *)
(***************************************************************************)
EXTENDS TargetWorker

CONSTANTS
    MaxRequests,    \* bound on the requests of the peer
    Blocks          \* addresses of the host memory and of the storage

ASSUME PeerAssumption == MaxRequests \in Nat /\ Blocks \subseteq Nat

VARIABLES
    sent,           \* requests sent so far
    refused         \* history: a request was answered because its transfer
                    \* could not be submitted

vars == <<tvars, s2t, t2s, memory, sent, refused>>

Request == [id : 1 .. MaxRequests, type : {"read", "write"}, local : Blocks, storage : Blocks]
Answer == [id : 1 .. MaxRequests, result : {"SUCCESS", "IO_FAILED", "ERROR"}]
Tasks == {"receive", "read", "write", "send"}

TInit ==
    /\ Init
    /\ s2t = {}
    /\ t2s = {}
    /\ host = [b \in Blocks |-> 0]
    /\ disk = [b \in Blocks |-> b]
    /\ sent = 0
    /\ refused = FALSE

(* A step of the worker: a message was received, and its slot transfers    *)
(* nothing.                                                                *)
Refusal ==
    \E s \in Slots : io_message[s] = NoMessage /\ io_message'[s] # NoMessage /\ ~Transferring(s)'
Watched == UNCHANGED sent /\ refused' = (refused \/ Refusal)

PeerSends ==
    /\ sent < MaxRequests
    /\ sent' = sent + 1
    /\ \E type \in {"read", "write"}, l \in Blocks, b \in Blocks :
         s2t' = s2t \cup {[id |-> sent + 1, type |-> type, local |-> l, storage |-> b]}
    /\ UNCHANGED <<tvars, t2s, memory, refused>>

PeerReceives ==
    /\ \E m \in t2s : t2s' = t2s \ {m}
    /\ UNCHANGED <<tvars, s2t, memory, sent, refused>>

Done == phase = "exited" /\ UNCHANGED vars

TNext == (Next /\ Watched) \/ PeerSends \/ PeerReceives \/ Done

(* The thread keeps polling, and tasks complete. *)
Fairness ==
    /\ WF_vars((SubmitInitialTasks \/ run_data_path_ops) /\ Watched)
    /\ WF_vars(ReceiveRequest /\ Watched)
    /\ \A s \in Slots : WF_vars(on_transfer_complete(s) /\ Watched)
    /\ \A s \in Slots : WF_vars(doca_rdma_task_send_cb(s) /\ Watched)

Spec == TInit /\ [][TNext]_vars
FairSpec == Spec /\ Fairness

(* Slots and messages keep their types, and in_flight_transaction_count    *)
(* stays in the range of its unsigned type.                                *)
TypeOK ==
    /\ tasks \in [Slots -> SUBSET Tasks]
    /\ io_message \in [Slots -> Request \cup Answer \cup {NoMessage}]
    /\ in_flight \in 0 .. CounterRange - 1
    /\ completed \in Nat
    /\ run_flag \in BOOLEAN
    /\ error_flag \in BOOLEAN
    /\ phase \in {"start", "run", "exited"}
    /\ s2t \subseteq Request
    /\ t2s \subseteq Answer
    /\ sent \in 0 .. MaxRequests
    /\ refused \in BOOLEAN
    /\ host \in [Blocks -> {0} \cup Blocks]
    /\ disk \in [Blocks -> {0} \cup Blocks]

(* A request is being served, or was served but its response could not be  *)
(* submitted.                                                              *)
Occupied(s) == Serving(s) \/ (tasks[s] = {} /\ io_message[s] # NoMessage)

(* in_flight_transaction_count, on which the drain loop of the thread      *)
(* waits, counts the requests being served, as long as every transfer was  *)
(* submitted and no error has been recorded.                               *)
InFlightExact ==
    (~refused /\ ~error_flag) =>
      in_flight = Cardinality({s \in Slots : Occupied(s)})

(* A worker that ends without an error has no transfer and no response     *)
(* under way, so that destroying the control context before the data       *)
(* context cannot free a response task that a transfer still refers to.    *)
DrainedAtExit ==
    (~refused /\ phase = "exited" /\ ~error_flag) =>
      \A s \in Slots : ~Serving(s)

(* Once run_flag is cleared the requests being served are drained and the  *)
(* thread ends, unless a response could not be submitted, so that its      *)
(* request stays counted, or a transfer was refused, whose response is     *)
(* counted down although its request was not counted.                      *)
StopDrains ==
    (~run_flag) ~> \/ phase = "exited"
                   \/ refused
                   \/ \E s \in Slots : tasks[s] = {} /\ io_message[s] # NoMessage
=============================================================================
