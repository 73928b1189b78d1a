------------------------------ MODULE GgaSystem ------------------------------
(***************************************************************************)
(* A worker of the GGA offload service with its peers: an initiator, whose *)
(* clients each keep to a region of their own and wait for the reply to a  *)
(* request before the next (as the transactions of the initiator do), and  *)
(* three targets that serve a request in one step.                         *)
(***************************************************************************)
EXTENDS GgaWorker, FiniteSetsExt

CONSTANTS
    Clients,        \* transactions of the initiator
    Requests,       \* what the clients ask for, each with the client, the kind
                    \* of request and its number of blocks
    MaxOps,         \* bound on the requests of a client
    MaxLoad,        \* bound on the blocks that are asked for at a time
    IoError         \* whether a target may fail to serve a request

Sizes == {r.blocks : r \in Requests}
RegionSize == CHOOSE n \in Sizes : \A k \in Sizes : k <= n

ASSUME PeersAssumption ==
    /\ Requests # {}
    /\ \A r \in Requests : r.client \in Clients /\ r.type \in {"read", "write"} /\ r.blocks \in Nat \ {0}
    /\ MaxOps \in Nat
    /\ MaxLoad \in Nat
    /\ IoError \in BOOLEAN

VARIABLES
    client,         \* per client: its request that has no reply yet, or Free
    ops,            \* per client: requests made
    disk            \* per role: the content of its blocks

peers == <<client, ops, disk>>
vars == <<gvars, links, peers>>

Free == [type |-> "none", blocks |-> 0]
Blocks == Clients \X (1 .. RegionSize)
Stored(b) == <<b[1], b[2], 0>>       \* what the storage holds at the beginning
Written(b, k) == <<b[1], b[2], k>>   \* what a client's k-th request writes

GInit ==
    /\ Init
    /\ client = [c \in Clients |-> Free]
    /\ ops = [c \in Clients |-> 0]
    /\ disk = [r \in Roles |-> [b \in Blocks |-> Stored(b)]]
    /\ memory = [b \in Blocks |-> Junk]
    /\ c2s = {} /\ s2c = {} /\ s2t = {} /\ t2s = {}

Load == MapThenSumSet(LAMBDA c : client[c].blocks, Clients)

(* A comch send needs a receive posted on the other side. Before a write   *)
(* the client fills its blocks.                                            *)
ClientSends(c) ==
    /\ client[c] = Free
    /\ ops[c] < MaxOps
    /\ Cardinality(c2s) < Cardinality({t \in Txns : "receive" \in tx[t].tasks})
    /\ \E r \in {q \in Requests : q.client = c /\ Load + q.blocks <= MaxLoad} :
         /\ client' = [client EXCEPT ![c] = [type |-> r.type, blocks |-> r.blocks]]
         /\ c2s' = c2s \cup {[id |-> c, type |-> r.type, region |-> c, blocks |-> r.blocks]}
         /\ memory' = [b \in Blocks |-> IF r.type = "write" /\ b[1] = c /\ b[2] <= r.blocks
                                        THEN Written(b, ops[c] + 1) ELSE memory[b]]
    /\ ops' = [ops EXCEPT ![c] = @ + 1]
    /\ UNCHANGED <<gvars, s2c, s2t, t2s, disk>>

ClientTakes(c) ==
    /\ \E m \in s2c : m.id = c /\ s2c' = s2c \ {m}
    /\ client' = [client EXCEPT ![c] = Free]
    /\ UNCHANGED <<gvars, memory, c2s, s2t, t2s, ops, disk>>

(* RDMA between the disk of a target and a cell of the chunk. *)
TargetServes(m) ==
    /\ m \in s2t
    /\ s2t' = s2t \ {m}
    /\ \/ /\ disk' = IF m.type = "write"
                     THEN [disk EXCEPT ![m.role][m.block] = chunk[m.txn][m.cell]] ELSE disk
          /\ chunk' = IF m.type = "read"
                      THEN [chunk EXCEPT ![m.txn][m.cell] = disk[m.role][m.block]] ELSE chunk
          /\ t2s' = t2s \cup {[txn |-> m.txn, role |-> m.role, result |-> "SUCCESS"]}
       \/ /\ IoError
          /\ t2s' = t2s \cup {[txn |-> m.txn, role |-> m.role, result |-> "IO_FAILED"]}
          /\ UNCHANGED <<disk, chunk>>
    /\ UNCHANGED <<tx, posted, drop, flow, in_flight, flags, phase, memory, c2s, s2c, client, ops>>

WorkerStep == Next /\ UNCHANGED peers

Done == (phase = "exited" \/ \A c \in Clients : client[c] = Free /\ ops[c] = MaxOps) /\ UNCHANGED vars

GNext ==
    \/ WorkerStep
    \/ \E c \in Clients : ClientSends(c) \/ ClientTakes(c)
    \/ \E m \in s2t : TargetServes(m)
    \/ Done

(* The thread polls and the devices complete what is submitted, in an      *)
(* order of their own; the targets answer and the initiator goes on.       *)
(* Nobody has to stop the worker.                                          *)
WorkerProgress ==
    /\ \/ SubmitInitialTasks \/ run_data_path_ops
       \/ ReceiveRequest \/ ReplySent \/ ReceiveResponse
       \/ \E t \in Txns : RequestSent(t) \/ TaskDone(t)
    /\ UNCHANGED peers

Fairness ==
    /\ WF_vars(WorkerProgress)
    /\ WF_vars(\E c \in Clients : ClientTakes(c))
    /\ WF_vars(\E m \in s2t : TargetServes(m))

Spec == GInit /\ [][GNext]_vars
FairSpec == Spec /\ Fairness

-----------------------------------------------------------------------------
(* Properties *)

Content == {Junk} \cup {Written(b, k) : b \in Blocks, k \in 0 .. MaxOps}
Results == {"SUCCESS", "IO_FAILED"}

(* Tasks, counters and cells keep their types: no more receives are posted *)
(* on a connection than were allocated, and no block past the last starts. *)
TypeOK ==
    /\ \A t \in Txns :
         /\ tx[t].pending \subseteq ReadActions \cup WriteActions \cup ProcessingActions
         /\ tx[t].initial \in {{}, ReadActions, WriteActions}
         /\ tx[t].count \in 0 .. 255
         /\ tx[t].idx \in 0 .. tx[t].n
         /\ tx[t].n \in {0} \cup Sizes
         /\ tx[t].result \in Results \cup {"UNSET"}
         /\ tx[t].tasks \subseteq {"receive", "reply", "memcpy", "create", "recover", "decompress"}
         /\ tx[t].sends \subseteq Roles
    /\ chunk \in [Txns -> [Roles -> Content]]
    /\ posted \in [Roles -> 0 .. Cardinality(Txns)]
    /\ drop \in 0 .. RecoverFreq
    /\ flow \in {0, 1}
    /\ in_flight \in 0 .. Cardinality(Txns)
    /\ run_flag \in BOOLEAN /\ error_flag \in BOOLEAN
    /\ phase \in {"start", "run", "exited"}
    /\ memory \in [Blocks -> Content]
    /\ disk \in [Roles -> [Blocks -> Content]]

(* The storage requests of t that have not been answered, and the answers  *)
(* that have not been received.                                            *)
Outstanding(t) == {m \in s2t \cup t2s : m.txn = t}

(* pending_storage_response_count is what is still to come: the sends that *)
(* have not completed, the requests being served and the responses not yet *)
(* received. It is never less while the thread goes on polling, whatever   *)
(* fails, so a block is not processed before its data is there; and not    *)
(* more when nothing fails, so a block is not waited for in vain.          *)
(* in_flight_transaction_count is the number of contexts that are neither  *)
(* waiting for a request nor lost to a refused one: what is drained.       *)
ToCome(t) == Cardinality(tx[t].sends) + Cardinality(Outstanding(t))
Continues == run_flag \/ ~error_flag
CountersExact ==
    /\ Continues => \A t \in Txns :
         /\ tx[t].count >= ToCome(t)
         /\ GgaFaults = {} => tx[t].count = ToCome(t)
    /\ phase # "start" /\ ~error_flag =>
         in_flight = Cardinality({t \in Txns : tx[t].pending # {}})

(* A context has at most one task in flight besides its storage requests,  *)
(* and none while they are: the request message, the chunk and the reply   *)
(* are never used by two at a time.                                        *)
OneUserPerContext ==
    \A t \in Txns :
      /\ Cardinality(tx[t].tasks) <= 1
      /\ Continues /\ tx[t].tasks # {} => ToCome(t) = 0

(* A reply that says DOCA_SUCCESS is true of all the blocks of its         *)
(* request: a write has put both halves and the parity of what the         *)
(* initiator wrote on the three disks; a read has brought what the disks   *)
(* hold, recovered from the parity or not, to the initiator's memory       *)
(* (unless an earlier write that failed left the three parts in            *)
(* disagreement).                                                          *)
Agree(b) == disk["data_1"][b] = disk["data_2"][b] /\ disk["data_1"][b] = disk["data_p"][b]
SuccessIsTrue ==
    \A m \in s2c : m.result = "SUCCESS" =>
      \A k \in 1 .. client[m.id].blocks :
        LET b == <<m.id, k>>
        IN  IF client[m.id].type = "write"
            THEN \A r \in Roles : disk[r][b] = memory[b]
            ELSE Agree(b) => memory[b] = disk["data_1"][b]

(* An error that a transaction has met stays its result until the reply is *)
(* sent; set_error: "Cancel processing, will generate an error to the      *)
(* initiator once wait_for_storage_completion completes".                  *)
ErrorKept ==
    [][\A t \in Txns :
         tx[t].pending # {} /\ tx[t].result = "IO_FAILED" /\ tx[t]'.pending # {} =>
           tx[t]'.result = "IO_FAILED"]_vars

(* Every request is replied to, if the worker is not stopped. *)
AllReplied == \A c \in Clients : (client[c] # Free) ~> (client[c] = Free \/ ~run_flag)

(* "if the thread is running the data path setting the run flag to false   *)
(* will trigger it to stop" (join_thread_proc).                            *)
StopEnds == ~run_flag ~> (phase = "exited")

(* A transaction that has met an error is replied to; set_error: "will     *)
(* generate an error to the initiator".                                    *)
Failed(c) == \E t \in Txns : tx[t].pending # {} /\ tx[t].io.id = c /\ tx[t].result = "IO_FAILED"
FailureReplied == \A c \in Clients : Failed(c) ~> (client[c] = Free)
=============================================================================
