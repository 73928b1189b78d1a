------------------------------ MODULE GgaWorker ------------------------------
(***************************************************************************)
(* The data path of one worker of the GGA offload storage service          *)
(* (comch_to_rdma_gga_offload.cpp). A block of the initiator is kept       *)
(* compressed on three targets: one half on each of the data targets, and  *)
(* the parity of the two halves on the third.                              *)
(*                                                                         *)
(* A transaction is a set of pending actions. Every callback clears what   *)
(* it completed and calls progress_transaction, which starts the first     *)
(* action that is left. Storage requests of a block are counted: each one  *)
(* contributes a send completion and a response.                           *)
(*                                                                         *)
(* A reply is submitted in a loop that retries DOCA_ERROR_AGAIN. The loop  *)
(* delays the callback and changes nothing else, so the callback is the    *)
(* single step in which the submission ends.                               *)
(*                                                                         *)
(* A cell of a chunk, of a disk or of the initiator's memory holds the     *)
(* content whose half, parity or whole block is there.                     *)
(***************************************************************************)
EXTENDS Integers, FiniteSets, Sequences, FiniteSetsExt

CONSTANTS
    Txns,           \* the transaction contexts of the worker
    Transaction0,   \* the first of them
    BlockLimit,     \* max_blocks_per_io
    RecoverFreq,    \* recover_drop_freq: every n-th read does without a data target
    WriteFlow,      \* WRITE_FLOW_ENABLED
    Junk,           \* the content of a cell that holds nothing useful
    GgaFaults       \* the failures that can happen in the worker

FaultKinds == {"submit_initial", "submit", "send_error", "task_error", "compress"}

ASSUME TxnsAssumption == IsFiniteSet(Txns) /\ Transaction0 \in Txns

ASSUME GgaAssumption ==
    /\ BlockLimit \in 1 .. 255
    /\ RecoverFreq \in 0 .. 65535
    /\ WriteFlow \in BOOLEAN
    /\ GgaFaults \subseteq FaultKinds

VARIABLES
    tx,             \* per transaction: its context and its submitted tasks
    chunk,          \* per transaction: the cells of its chunk of local memory
    posted,         \* per role: the number of submitted RDMA receive tasks
    drop, flow,     \* recover_drop_count, recovery_flow_count % 2
    in_flight,      \* in_flight_transaction_count
    run_flag,
    error_flag,
    phase,          \* "start", "run" or "exited": where thread_proc is
    memory,         \* the initiator's memory, reached by DMA
    c2s, s2c,       \* requests and replies of the initiator
    s2t, t2s        \* requests to the targets and their responses

flags == <<run_flag, error_flag>>
gvars == <<tx, chunk, posted, drop, flow, in_flight, flags, phase>>
links == <<memory, c2s, s2c, s2t, t2s>>

Roles == {"data_1", "data_2", "data_p"}      \* connection_role, and the cells of a chunk

ReadActions ==
    {"fetch_from_storage", "wait_for_storage_completion", "decompress",
     "advance_block", "reply_to_initiator"}
WriteActions ==
    {"fetch_from_initiator", "produce_ec_blocks", "wait_for_storage_completion",
     "advance_block", "reply_to_initiator"}
ProcessingActions ==
    {"recover_a", "recover_b", "decompress", "fetch_from_initiator", "produce_ec_blocks"}

Idle == [pending |-> {}, initial |-> {}, count |-> 0, idx |-> 0, n |-> 0,
         io |-> <<>>, result |-> "UNSET", tasks |-> {}, sends |-> {}]

Init ==
    /\ tx = [t \in Txns |-> Idle]
    /\ chunk = [t \in Txns |-> [r \in Roles |-> Junk]]
    /\ posted = [r \in Roles |-> 0]
    /\ drop = RecoverFreq
    /\ flow = 0
    /\ in_flight = 0
    /\ run_flag = TRUE
    /\ error_flag = FALSE
    /\ phase = "start"

(* What a handler does to the flags: it may stop the worker or record an   *)
(* error, or both.                                                         *)
Flags(stop, error) ==
    /\ run_flag' = (run_flag /\ ~stop)
    /\ error_flag' = (error_flag \/ error)

(* thread_proc: all the receive tasks are submitted before the first poll, *)
(* or the thread ends, with some of them submitted.                        *)
SubmitInitialTasks ==
    /\ phase = "start"
    /\ \/ /\ tx' = [t \in Txns |-> [tx[t] EXCEPT !.tasks = {"receive"}]]
          /\ posted' = [r \in Roles |-> Cardinality(Txns)]
          /\ phase' = "run"
          /\ UNCHANGED flags
       \/ /\ "submit_initial" \in GgaFaults
          /\ \E T \in SUBSET Txns, P \in [Roles -> 0 .. Cardinality(Txns)] :
               /\ T # Txns => \A r \in Roles : P[r] = 0
               /\ \E r \in Roles : P[r] # Cardinality(Txns)
               /\ tx' = [t \in Txns |-> [tx[t] EXCEPT !.tasks = IF t \in T THEN {"receive"} ELSE {}]]
               /\ posted' = P
          /\ phase' = "exited"
          /\ Flags(TRUE, TRUE)
    /\ UNCHANGED <<chunk, drop, flow, in_flight, links>>

(* run_data_path_ops: poll until run_flag is false, then until nothing is  *)
(* in flight. A callback that runs between the clearing of run_flag by     *)
(* another thread and the next look at it might as well have run before.   *)
Polling == phase = "run" /\ (run_flag \/ (~error_flag /\ in_flight # 0))

run_data_path_ops ==
    /\ phase = "run"
    /\ ~run_flag
    /\ error_flag \/ in_flight = 0
    /\ phase' = "exited"
    /\ UNCHANGED <<tx, chunk, posted, drop, flow, in_flight, flags, links>>

(* join_thread_proc of the main thread. *)
Stop ==
    /\ phase = "run"
    /\ run_flag
    /\ run_flag' = FALSE
    /\ UNCHANGED <<tx, chunk, posted, drop, flow, in_flight, error_flag, phase, links>>

-----------------------------------------------------------------------------
(* Steps of a transaction. x is the context as the handler has left it so  *)
(* far; stop and error say what it has already done to the flags.          *)

set_error(x) == [x EXCEPT !.pending = @ \ ProcessingActions, !.result = "IO_FAILED"]

Toggle(set, a) == IF a \in set THEN set \ {a} ELSE set \cup {a}

(* The block that x is working on: multi_block_idx added to the offsets of *)
(* the request.                                                            *)
Block(x) == <<x.io.region, x.idx + 1>>

(* The message a target gets for its part of that block: the cell of the   *)
(* chunk to transfer from or to, and the block on its disk.                *)
StorageRequest(t, x, type, role) ==
    [txn |-> t, role |-> role, type |-> type, cell |-> role, block |-> Block(x)]

Unmoved == UNCHANGED <<drop, flow>>

(* Submit one task of transaction t. If that fails nothing will complete   *)
(* it; some of the failures also stop the worker.                          *)
SubmitTask(t, x, task, stops, stop, error) ==
    /\ \/ /\ tx' = [tx EXCEPT ![t] = [x EXCEPT !.tasks = @ \cup {task}]]
          /\ Flags(stop, error)
       \/ /\ "submit" \in GgaFaults
          /\ tx' = [tx EXCEPT ![t] = x]
          /\ Flags(stop \/ stops, TRUE)
    /\ Unmoved
    /\ UNCHANGED <<s2t, s2c>>

start_write(t, x, stop, error) == SubmitTask(t, x, "memcpy", FALSE, stop, error)
start_recover(t, x, stop, error) == SubmitTask(t, x, "recover", TRUE, stop, error)
start_decompress(t, x, stop, error) == SubmitTask(t, x, "decompress", TRUE, stop, error)
start_create_ec_blocks(t, x, stop, error) == SubmitTask(t, x, "create", TRUE, stop, error)

(* Every RecoverFreq-th read fetches the parity instead of one half, the   *)
(* two halves in turn.                                                     *)
Recovers == RecoverFreq # 0 /\ (drop - 1) % 65536 = 0
RecoverAction == IF ~Recovers THEN {} ELSE IF flow = 1 THEN {"recover_a"} ELSE {"recover_b"}
Parts_swapped ==                     \* mutant: the half that is fetched is the missing one
    CASE RecoverAction = {"recover_a"} -> {"data_1", "data_p"}
      [] RecoverAction = {"recover_b"} -> {"data_p", "data_2"}
      [] OTHER -> {"data_1", "data_2"}

Parts ==
    CASE RecoverAction = {"recover_a"} -> {"data_p", "data_2"}
      [] RecoverAction = {"recover_b"} -> {"data_1", "data_p"}
      [] OTHER -> {"data_1", "data_2"}

ReadCompletions == 4                 \* 2x rdma send + 2x rdma recv
WriteCompletions_as_read == 4        \* mutant
WriteCompletions == 6                \* 3x rdma send + 3x rdma recv

(* recover_drop_count and recovery_flow_count after a read. *)
CountRead ==
    /\ drop' = CASE RecoverFreq = 0 -> drop
                 [] Recovers -> RecoverFreq
                 [] OTHER -> (drop - 1) % 65536
    /\ flow' = IF Recovers THEN 1 - flow ELSE flow

(* The context when the reads of a block are sent. *)
Fetching(x, sent) ==
    [x EXCEPT !.pending = (@ \ {"fetch_from_storage"}) \cup RecoverAction,
              !.count = ReadCompletions,
              !.result = "SUCCESS",
              !.sends = @ \cup sent]

start_read(t, x, stop, error) ==
    /\ \E sent \in SUBSET Parts :
         /\ sent = Parts \/ "submit" \in GgaFaults
         /\ tx' = [tx EXCEPT ![t] = Fetching(x, sent)]
         /\ s2t' = s2t \cup {StorageRequest(t, x, "read", r) : r \in sent}
         /\ Flags(stop, error \/ sent # Parts)
    /\ CountRead
    /\ UNCHANGED s2c

(* The context when the writes of a block are sent, or some of them. *)
Committing(x, sent) ==
    LET y == [x EXCEPT !.count = WriteCompletions, !.sends = @ \cup sent]
    IN  IF sent = Roles THEN [y EXCEPT !.result = "SUCCESS"] ELSE set_error(y)

(* The three writes are submitted in turn; the first failure cancels the   *)
(* transaction, whose count stays that of six completions.                 *)
start_commit_to_storage(t, x) ==
    /\ \E sent \in {{}, {"data_1"}, {"data_1", "data_2"}, Roles} :
         /\ sent = Roles \/ "submit" \in GgaFaults
         /\ tx' = [tx EXCEPT ![t] = Committing(x, sent)]
         /\ s2t' = s2t \cup {StorageRequest(t, x, "write", r) : r \in sent}
         /\ Flags(FALSE, sent # Roles)
    /\ Unmoved
    /\ UNCHANGED s2c

send_transaction_complete(t, x, stop, error) ==
    /\ \/ /\ tx' = [tx EXCEPT ![t] = [x EXCEPT !.tasks = @ \cup {"reply"}]]
          /\ s2c' = s2c \cup {[id |-> x.io.id, result |-> x.result]}
          /\ Flags(stop, error)
       \/ /\ "submit" \in GgaFaults
          /\ tx' = [tx EXCEPT ![t] = x]
          /\ Flags(TRUE, TRUE)
          /\ UNCHANGED s2c
    /\ Unmoved
    /\ UNCHANGED s2t

(* progress_transaction looks for the first pending action in this order. *)
Order == <<"fetch_from_storage", "fetch_from_initiator", "recover_a", "recover_b",
           "decompress", "produce_ec_blocks", "advance_block", "reply_to_initiator">>
First(pending) ==
    LET left == {i \in DOMAIN Order : Order[i] \in pending}
    IN  IF left = {} THEN "none" ELSE Order[Min(left)]

advance_block(x) ==
    LET idx == (x.idx + 1) % 256
    IN  [x EXCEPT !.idx = idx,
                  !.pending = IF idx # x.n THEN x.initial ELSE @ \ {"advance_block"}]

NoProgress(t, x, stop, error) ==
    /\ tx' = [tx EXCEPT ![t] = x]
    /\ Flags(stop, error)
    /\ Unmoved
    /\ UNCHANGED <<s2t, s2c>>

progress_transaction(t, x, stop, error) ==
    \E y \in {IF First(x.pending) = "advance_block" THEN advance_block(x) ELSE x} :
      \E next \in {First(y.pending)} :
        \/ next = "fetch_from_storage" /\ start_read(t, y, stop, error)
        \/ next = "fetch_from_initiator" /\ start_write(t, y, stop, error)
        \/ next \in {"recover_a", "recover_b"} /\ start_recover(t, y, stop, error)
        \/ next = "decompress" /\ start_decompress(t, y, stop, error)
        \/ next = "produce_ec_blocks" /\ start_create_ec_blocks(t, y, stop, error)
        \/ next = "reply_to_initiator" /\ send_transaction_complete(t, y, stop, error)
        \/ next = "none" /\ NoProgress(t, y, stop, error)

(* One storage completion less to wait for (an uint8_t). *)
CountDown(t, x, stop, error) ==
    LET y == [x EXCEPT !.count = (@ - 1) % 256]
    IN  IF y.count # 0
        THEN NoProgress(t, y, stop, error)
        ELSE progress_transaction(t, [y EXCEPT !.pending = Toggle(@, "wait_for_storage_completion")],
                                  stop, error)

-----------------------------------------------------------------------------
(* Callbacks *)

Completes_keep(t, task) == tx[t]     \* mutant: the task stays submitted

Completes(t, task) == [tx[t] EXCEPT !.tasks = @ \ {task}]

(* start_transaction: a request that is refused is not replied to, and its *)
(* receive task is not submitted again.                                    *)
Refused(t, m) == tx[t].pending # {} \/ m.blocks > BlockLimit
Unsupported(m) == m.type = "write" /\ ~WriteFlow

doca_comch_consumer_task_post_recv_cb(t, m) ==
    /\ Polling
    /\ m \in c2s
    /\ "receive" \in tx[t].tasks
    /\ c2s' = c2s \ {m}
    /\ LET actions == IF m.type = "read" THEN ReadActions ELSE WriteActions
           x == [Completes(t, "receive") EXCEPT !.io = m, !.result = "UNSET"]
           y == IF Refused(t, m) THEN x ELSE [x EXCEPT !.idx = 0, !.n = m.blocks]
       IN  \/ /\ Refused(t, m) \/ Unsupported(m)
              /\ NoProgress(t, y, FALSE, Refused(t, m))
              /\ UNCHANGED in_flight
           \/ /\ ~Refused(t, m) /\ ~Unsupported(m)
              /\ in_flight' = in_flight + 1
              /\ progress_transaction(t, [y EXCEPT !.initial = actions, !.pending = actions],
                                      FALSE, FALSE)
    /\ UNCHANGED <<chunk, posted, phase, memory, t2s>>

doca_comch_producer_task_send_cb_uncounted(t) ==     \* mutant: no decrement
    /\ Polling
    /\ "reply" \in tx[t].tasks
    /\ LET x == [Completes(t, "reply") EXCEPT !.pending = {}]
       IN  SubmitTask(t, x, "receive", TRUE, FALSE, FALSE)
    /\ UNCHANGED <<in_flight, chunk, posted, phase, memory, c2s, t2s>>

(* The reply has left: the context is free and its receive task is posted. *)
doca_comch_producer_task_send_cb(t) ==
    /\ Polling
    /\ "reply" \in tx[t].tasks
    /\ LET x == [Completes(t, "reply") EXCEPT !.pending = {}]
       IN  SubmitTask(t, x, "receive", TRUE, FALSE, FALSE)
    /\ in_flight' = in_flight - 1
    /\ UNCHANGED <<chunk, posted, phase, memory, c2s, t2s>>

Sent(t, role) == [tx[t] EXCEPT !.sends = @ \ {role}]

doca_rdma_task_send_cb(t, role) ==
    /\ Polling
    /\ role \in tx[t].sends
    /\ CountDown(t, Sent(t, role), FALSE, FALSE)
    /\ UNCHANGED <<chunk, posted, in_flight, phase, memory, c2s, t2s>>

ResponseResult_ignored(x, m) == x.result             \* mutant: errors are dropped
ResponseResult_last(x, m) == m.result                \* mutant: the last response decides

(* An error in a response is kept for the reply. *)
ResponseResult(x, m) == IF m.result = "SUCCESS" THEN x.result ELSE m.result

StillPosted_never(role) == [posted EXCEPT ![role] = @ - 1]   \* mutant: not submitted again
(* The receive task that brought a response is submitted again only while  *)
(* the worker runs.                                                        *)
StillPosted(role) == IF run_flag' THEN posted ELSE [posted EXCEPT ![role] = @ - 1]

(* A response: its error does not cancel what is pending. *)
doca_rdma_task_receive_cb(m) ==
    /\ Polling
    /\ m \in t2s
    /\ posted[m.role] > 0
    /\ t2s' = t2s \ {m}
    /\ \E refused \in BOOLEAN :
         /\ refused => run_flag /\ "submit" \in GgaFaults
         /\ LET x == [tx[m.txn] EXCEPT !.result = ResponseResult(tx[m.txn], m)]
            IN  CountDown(m.txn, x, refused, refused)
    /\ posted' = StillPosted(m.role)
    /\ UNCHANGED <<chunk, in_flight, phase, memory, c2s>>

(* The accelerator callbacks: the task has done its work on the cells. *)
Combined(a, b) == IF a = b THEN a ELSE Junk

doca_ec_task_recover_cb(t) ==
    /\ Polling
    /\ "recover" \in tx[t].tasks
    /\ LET c == chunk[t]
       IN  chunk' = [chunk EXCEPT ![t] =
                       IF "recover_a" \in tx[t].pending
                       THEN [c EXCEPT !["data_1"] = Combined(c["data_p"], c["data_2"])]
                       ELSE [c EXCEPT !["data_2"] = Combined(c["data_1"], c["data_p"])]]
    /\ LET x == [Completes(t, "recover") EXCEPT !.pending = @ \ {"recover_a", "recover_b"}]
       IN  progress_transaction(t, x, FALSE, FALSE)
    /\ UNCHANGED <<posted, in_flight, phase, memory, c2s, t2s>>

doca_compress_task_decompress_lz4_stream_cb(t) ==
    /\ Polling
    /\ "decompress" \in tx[t].tasks
    /\ memory' = [memory EXCEPT ![Block(tx[t])] =
                    Combined(chunk[t]["data_1"], chunk[t]["data_2"])]
    /\ LET x == [Completes(t, "decompress") EXCEPT !.pending = Toggle(@, "decompress")]
       IN  progress_transaction(t, x, FALSE, FALSE)
    /\ UNCHANGED <<chunk, posted, in_flight, phase, c2s, t2s>>

(* The cells of a chunk after v was compressed in them, with the parity    *)
(* cell as scratch space.                                                  *)
compress_data(v) == [r \in Roles |-> IF r = "data_p" THEN Junk ELSE v]

(* The initiator's block is in the chunk: it is compressed there at once.  *)
doca_dma_task_memcpy_cb(t) ==
    /\ Polling
    /\ "memcpy" \in tx[t].tasks
    /\ LET x == [Completes(t, "memcpy") EXCEPT !.pending = Toggle(@, "fetch_from_initiator")]
           v == memory[Block(x)]
       IN  \/ /\ chunk' = [chunk EXCEPT ![t] = compress_data(v)]
              /\ progress_transaction(t, x, FALSE, FALSE)
           \/ /\ "compress" \in GgaFaults
              /\ chunk' = [chunk EXCEPT ![t] = compress_data(Junk)]
              /\ progress_transaction(t, set_error(x), TRUE, TRUE)
    /\ UNCHANGED <<posted, in_flight, phase, memory, c2s, t2s>>

doca_ec_task_create_cb(t) ==
    /\ Polling
    /\ "create" \in tx[t].tasks
    /\ chunk' = [chunk EXCEPT ![t]["data_p"] = Combined(chunk[t]["data_1"], chunk[t]["data_2"])]
    /\ LET x == [Completes(t, "create") EXCEPT !.pending = Toggle(@, "produce_ec_blocks")]
       IN  start_commit_to_storage(t, x)
    /\ UNCHANGED <<posted, in_flight, phase, memory, c2s, t2s>>

-----------------------------------------------------------------------------
(* Error callbacks. Those of the receive tasks ignore a failure when       *)
(* run_flag is false.                                                      *)

doca_comch_consumer_task_post_recv_error_cb(t) ==
    /\ "task_error" \in GgaFaults
    /\ Polling
    /\ "receive" \in tx[t].tasks
    /\ NoProgress(t, Completes(t, "receive"), run_flag, run_flag)
    /\ UNCHANGED <<chunk, posted, in_flight, phase, memory, c2s, t2s>>

doca_comch_producer_task_send_error_cb(t) ==
    /\ "task_error" \in GgaFaults
    /\ Polling
    /\ "reply" \in tx[t].tasks
    /\ tx' = [tx EXCEPT ![t] = Completes(t, "reply")]
    /\ s2c' \in {s2c, {m \in s2c : m.id # tx[t].io.id}}
    /\ Flags(TRUE, TRUE)
    /\ Unmoved
    /\ UNCHANGED <<chunk, posted, in_flight, phase, memory, c2s, s2t, t2s>>

(* The failed request may still have reached its target; if not, there     *)
(* will be no response to it, and the count of completions never gets to 0.*)
doca_rdma_task_send_error_cb(t, role) ==
    /\ "send_error" \in GgaFaults
    /\ Polling
    /\ role \in tx[t].sends
    /\ LET x == set_error(Sent(t, role))
           unsent == {m \in s2t : m.txn = t /\ m.role = role}
       IN  \/ CountDown(t, x, FALSE, FALSE)
          \/ /\ unsent # {}
             /\ s2t' = s2t \ unsent
             /\ tx' = [tx EXCEPT ![t] = [x EXCEPT !.count = (@ - 1) % 256]]
             /\ UNCHANGED <<drop, flow, flags, s2c>>
    /\ UNCHANGED <<chunk, posted, in_flight, phase, memory, c2s, t2s>>

(* All RDMA receive tasks have user data 0: whichever response was lost,   *)
(* the failure is that of the first transaction.                           *)
doca_rdma_task_receive_error_cb(role) ==
    /\ "task_error" \in GgaFaults
    /\ Polling
    /\ posted[role] > 0
    /\ posted' = [posted EXCEPT ![role] = @ - 1]
    /\ \/ /\ ~run_flag
          /\ UNCHANGED <<tx, drop, flow, flags, s2t, s2c>>
       \/ /\ run_flag
          /\ CountDown(Transaction0, set_error(tx[Transaction0]), TRUE, TRUE)
    /\ UNCHANGED <<chunk, in_flight, phase, memory, c2s, t2s>>

(* The error callbacks of recover, decompress, create and memcpy tasks. *)
AcceleratorError(t, task) ==
    /\ "task_error" \in GgaFaults
    /\ Polling
    /\ task \in tx[t].tasks
    /\ progress_transaction(t, set_error(Completes(t, task)), TRUE, TRUE)
    /\ UNCHANGED <<chunk, posted, in_flight, phase, memory, c2s, t2s>>

doca_ec_task_recover_error_cb(t) == AcceleratorError(t, "recover")
doca_compress_task_decompress_lz4_stream_error_cb(t) == AcceleratorError(t, "decompress")
doca_ec_task_create_error_cb(t) == AcceleratorError(t, "create")
doca_dma_task_memcpy_error_cb(t) == AcceleratorError(t, "memcpy")

-----------------------------------------------------------------------------
ReceiveRequest == \E t \in Txns, m \in c2s : doca_comch_consumer_task_post_recv_cb(t, m)
ReplySent == \E t \in Txns : doca_comch_producer_task_send_cb(t)
RequestSent(t) == \E r \in Roles : doca_rdma_task_send_cb(t, r)
ReceiveResponse == \E m \in t2s : doca_rdma_task_receive_cb(m)
TaskDone(t) ==
    \/ doca_ec_task_recover_cb(t)
    \/ doca_compress_task_decompress_lz4_stream_cb(t)
    \/ doca_dma_task_memcpy_cb(t)
    \/ doca_ec_task_create_cb(t)
TaskError ==
    \/ \E t \in Txns :
         \/ doca_comch_consumer_task_post_recv_error_cb(t)
         \/ doca_comch_producer_task_send_error_cb(t)
         \/ \E r \in Roles : doca_rdma_task_send_error_cb(t, r)
         \/ doca_ec_task_recover_error_cb(t)
         \/ doca_compress_task_decompress_lz4_stream_error_cb(t)
         \/ doca_ec_task_create_error_cb(t)
         \/ doca_dma_task_memcpy_error_cb(t)
    \/ \E r \in Roles : doca_rdma_task_receive_error_cb(r)

Next ==
    \/ SubmitInitialTasks \/ run_data_path_ops \/ Stop
    \/ ReceiveRequest \/ ReplySent \/ ReceiveResponse
    \/ \E t \in Txns : RequestSent(t) \/ TaskDone(t)
    \/ TaskError
=============================================================================
