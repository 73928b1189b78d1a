--------------------------- MODULE InitiatorWorker ---------------------------
(***************************************************************************)
(* The data path of one worker thread of the storage initiator             *)
(* (initiator_comch.cpp).  The worker owns a fixed set of transactions.  A *)
(* transaction takes a local and a storage block out of two address pools, *)
(* runs the I/O operations of the test's run type on them, one request at  *)
(* a time, and puts the addresses back.                                    *)
(*                                                                         *)
(* Every callback runs on the worker's thread, from doca_pe_progress.  The *)
(* only point at which a callback waits is the loop that retries the       *)
(* submission of a request while it returns DOCA_ERROR_AGAIN; `spin` is    *)
(* the thread being in that loop, and no callback runs meanwhile.          *)
(*                                                                         *)
(* Abstractions: an address is a number; the content of a block is the     *)
(* number of the storage block whose expected content it holds, 0 after it *)
(* was cleared; a pool is the set of addresses in it (ring_buffer hands    *)
(* them out in FIFO order, here any of them may come next).                *)
(***************************************************************************)
EXTENDS Integers, FiniteSets

CONSTANTS
    Txns,            \* the transactions of the worker
    LocalCount,      \* blocks in its part of the local I/O region
    StorageCount,    \* blocks in its part of the storage
    TargetOps,       \* target_transaction_count
    RunType,         \* the test that is run
    InitiatorFaults  \* the failures that can happen on this side

RunTypes == {"read_throughput", "write_throughput", "read_only_data_validity",
             "read_write_data_validity"}
FaultKinds == {"submit_request", "request_error", "response_error", "repost_response",
               "submit_response"}
Actions == {"copy", "write", "clear", "read", "validate", "finish"}

(* init_storage gives a worker no more transactions than blocks. *)
ASSUME TxnsAssumption == IsFiniteSet(Txns) /\ 0 \notin Txns
ASSUME CountsAssumption ==
    /\ LocalCount \in Nat /\ StorageCount \in Nat /\ TargetOps \in Nat \ {0}
    /\ Cardinality(Txns) <= LocalCount /\ Cardinality(Txns) <= StorageCount
ASSUME KindsAssumption == RunType \in RunTypes /\ InitiatorFaults \subseteq FaultKinds

LocalBlocks == 1 .. LocalCount
StorageBlocks == 1 .. StorageCount

VARIABLES
    pending_actions,  \* per transaction: the operations left
    refcount,         \* per transaction: completion callbacks still expected
    io_request,       \* per transaction: the request message
    local_pool,       \* local_io_addr_pool
    storage_pool,     \* storage_io_addr_pool
    started,          \* started_transaction_count
    completed,        \* completed_transaction_count
    run_flag,
    error_flag,
    phase,            \* "init", "start", "run" or "exited": where thread_proc is
    spin,             \* the transaction whose request is being submitted, 0 if none
    repost,           \* the running callback has a receive task to repost
    posted,           \* receive tasks posted on the consumer
    sending,          \* transactions whose send task is in flight
    c2s,              \* requests on their way to the storage service
    s2c,              \* responses on their way back
    host              \* content of the local I/O region

counters == <<started, completed>>
pools == <<local_pool, storage_pool>>
flags == <<run_flag, error_flag>>
wvars == <<pending_actions, refcount, io_request, pools, counters, flags, phase, spin,
           repost, posted, sending>>
links == <<c2s, s2c>>

(* transaction_initial_ops_value, from the run type. *)
InitialOps ==
    {"finish"} \cup
    CASE RunType = "read_throughput" -> {"read"}
      [] RunType = "write_throughput" -> {"write"}
      [] RunType = "read_only_data_validity" -> {"clear", "read", "validate"}
      [] RunType = "read_write_data_validity" -> {"copy", "write", "clear", "read", "validate"}

Request == [id : Txns, type : {"read", "write"}, local : LocalBlocks, storage : StorageBlocks]

Lesser(a, b) == IF a < b THEN a ELSE b

ReceiveCount == 2 * Cardinality(Txns)

(* The worker after start_data_path.  The storage pool is filled by a loop *)
(* that runs LocalCount times, so it holds no more addresses than the      *)
(* local pool. The addresses that prepare_tasks puts into the requests are *)
(* replaced when a transaction starts.                                     *)
Init ==
    /\ pending_actions = [t \in Txns |-> {}]
    /\ refcount = [t \in Txns |-> 0]
    /\ io_request = [t \in Txns |-> [id |-> t, type |-> "read", local |-> 1, storage |-> 1]]
    /\ local_pool = LocalBlocks
    /\ storage_pool = 1 .. Lesser(LocalCount, StorageCount)
    /\ started = 0
    /\ completed = 0
    /\ run_flag = TRUE
    /\ error_flag = FALSE
    /\ phase = "init"
    /\ spin = 0
    /\ repost = FALSE
    /\ posted = 0
    /\ sending = {}
    /\ c2s = {}
    /\ s2c = {}
    /\ host = [b \in LocalBlocks |-> 0]

-----------------------------------------------------------------------------
(* progress_transaction *)

Prepared_no_copy(ops, l, s) ==                \* mutant: the expected content is not copied
    IF "write" \notin ops /\ "clear" \in ops THEN [host EXCEPT ![l] = 0] ELSE host

(* The memory operation that precedes the next request, on block l. *)
Prepared(ops, l, s) ==
    IF "copy" \in ops THEN [host EXCEPT ![l] = s]
    ELSE IF "write" \notin ops /\ "clear" \in ops THEN [host EXCEPT ![l] = 0]
    ELSE host

(* What is left of ops once the next request is under way. *)
AfterRequest(ops) ==
    IF "write" \in ops THEN ops \ {"copy", "write"} ELSE ops \ {"clear", "read"}

NextRequest_one_ref(t, ops, l, s) ==          \* mutant: only one callback is waited for
    /\ host' = Prepared(ops, l, s)
    /\ pending_actions' = [pending_actions EXCEPT ![t] = AfterRequest(ops)]
    /\ io_request' = [io_request EXCEPT ![t] =
                        [id |-> t, type |-> IF "write" \in ops THEN "write" ELSE "read",
                         local |-> l, storage |-> s]]
    /\ refcount' = [refcount EXCEPT ![t] = 1]
    /\ spin' = t

(* Go to the submission of the next request of transaction t. *)
NextRequest(t, ops, l, s) ==
    /\ host' = Prepared(ops, l, s)
    /\ pending_actions' = [pending_actions EXCEPT ![t] = AfterRequest(ops)]
    /\ io_request' = [io_request EXCEPT ![t] =
                        [id |-> t, type |-> IF "write" \in ops THEN "write" ELSE "read",
                         local |-> l, storage |-> s]]
    /\ refcount' = [refcount EXCEPT ![t] = 2]
    /\ spin' = t

StartTransaction_shared(t, lp, sp, failed) == \* mutant: the local address stays in its pool
    /\ started' = started + 1
    /\ \E l \in lp, s \in sp :
         /\ local_pool' = lp
         /\ storage_pool' = sp \ {s}
         /\ NextRequest(t, InitialOps, l, s)
    /\ run_flag' = (run_flag /\ ~failed)
    /\ error_flag' = (error_flag \/ failed)

(* Start a transaction on a pair of addresses out of the pools lp and sp.  *)
(* When a pool is empty it is an error, and the transaction goes on with   *)
(* the addresses of its request; `failed` says that an error was met       *)
(* before in the same call.                                                *)
StartTransaction(t, lp, sp, failed) ==
    LET ok == lp # {} /\ sp # {}
        old == io_request[t]
    IN  /\ started' = started + 1
        /\ \E l \in IF lp = {} THEN {old.local} ELSE lp,
              s \in IF ok THEN sp ELSE {old.storage} :
             /\ local_pool' = lp \ {l}
             /\ storage_pool' = IF ok THEN sp \ {s} ELSE sp
             /\ NextRequest(t, InitialOps, IF ok THEN l ELSE old.local, s)
        /\ run_flag' = (run_flag /\ ok /\ ~failed)
        /\ error_flag' = (error_flag \/ ~ok \/ failed)

(* validate_memory_content finds other content than the expected one. *)
Mismatch(t) ==
    /\ "validate" \in pending_actions[t]
    /\ host[io_request[t].local] # io_request[t].storage

(* Validate, finish and put the addresses back; then start the next        *)
(* transaction, unless this was the last one or all have been started.     *)
FinishTransaction(t) ==
    LET lp == local_pool \cup {io_request[t].local}
        sp == storage_pool \cup {io_request[t].storage}
        last == completed + 1 = TargetOps
    IN  /\ completed' = completed + 1
        /\ IF last \/ started = TargetOps
             THEN /\ pending_actions' = [pending_actions EXCEPT ![t] = {}]
                  /\ refcount' = [refcount EXCEPT ![t] = 0]
                  /\ local_pool' = lp
                  /\ storage_pool' = sp
                  /\ run_flag' = (run_flag /\ ~last /\ ~Mismatch(t))
                  /\ error_flag' = (error_flag \/ Mismatch(t))
                  /\ UNCHANGED <<io_request, started, host, spin>>
             ELSE StartTransaction(t, lp, sp, Mismatch(t))

(* The loop that calls progress_transaction until it returns false. *)
Progress(t) ==
    IF pending_actions[t] \cap {"read", "write"} # {}
      THEN /\ NextRequest(t, pending_actions[t], io_request[t].local, io_request[t].storage)
           /\ UNCHANGED <<pools, counters, flags>>
      ELSE FinishTransaction(t)

(* A completion callback of transaction t drops one reference, the last    *)
(* one lets the transaction go on.                                         *)
Release(t) ==
    IF refcount[t] = 1
      THEN Progress(t)
      ELSE /\ refcount' = [refcount EXCEPT ![t] = @ - 1]
           /\ UNCHANGED <<pending_actions, io_request, pools, counters, flags, spin, host>>

Fail == run_flag' = FALSE /\ error_flag' = TRUE

-----------------------------------------------------------------------------
(* thread_proc, after the control loop *)

(* The receive tasks are submitted; when one is refused, the thread ends.  *)
SubmitResponseTasks ==
    /\ phase = "init"
    /\ \/ /\ posted' = ReceiveCount
          /\ phase' = "start"
          /\ UNCHANGED flags
       \/ /\ "submit_response" \in InitiatorFaults
          /\ posted' \in 0 .. ReceiveCount - 1
          /\ phase' = "exited"
          /\ Fail
    /\ UNCHANGED <<pending_actions, refcount, io_request, pools, counters, spin, repost, sending,
                   links, host>>

(* The first transactions, before the progress engine is polled. *)
StartInitial ==
    /\ phase = "start"
    /\ spin = 0
    /\ started < Lesser(Cardinality(Txns), TargetOps)
    /\ \E t \in Txns :
         /\ pending_actions[t] = {}
         /\ refcount[t] = 0
         /\ StartTransaction(t, local_pool, storage_pool, FALSE)
    /\ UNCHANGED <<completed, phase, repost, posted, sending, links>>

StartPolling ==
    /\ phase = "start"
    /\ spin = 0
    /\ started = Lesser(Cardinality(Txns), TargetOps)
    /\ phase' = "run"
    /\ UNCHANGED <<pending_actions, refcount, io_request, pools, counters, flags, spin, repost,
                   posted, sending, links, host>>

(* The thread is in doca_pe_progress, called by run_data_path_ops. *)
Polling ==
    /\ phase = "run"
    /\ spin = 0
    /\ ~repost
    /\ completed # TargetOps

run_data_path_ops_started ==                  \* mutant: waits for the last start only
    /\ phase = "run"
    /\ spin = 0
    /\ ~repost
    /\ started = TargetOps
    /\ phase' = "exited"
    /\ UNCHANGED <<pending_actions, refcount, io_request, pools, counters, flags, spin, repost,
                   posted, sending, links, host>>

run_data_path_ops_loops ==                    \* mutant: waits for one completion too many
    /\ phase = "run"
    /\ spin = 0
    /\ ~repost
    /\ completed = TargetOps
    /\ UNCHANGED <<pending_actions, refcount, io_request, pools, counters, flags, phase, spin,
                   repost, posted, sending, links, host>>

(* run_data_path_ops ends when every transaction has completed. It does    *)
(* not look at run_flag.                                                   *)
run_data_path_ops ==
    /\ phase = "run"
    /\ spin = 0
    /\ ~repost
    /\ completed = TargetOps
    /\ phase' = "exited"
    /\ UNCHANGED <<pending_actions, refcount, io_request, pools, counters, flags, spin, repost,
                   posted, sending, links, host>>

(* doca_task_submit of the request, which ends the retry loop. *)
SubmitRequest ==
    /\ spin # 0
    /\ c2s' = c2s \cup {io_request[spin]}
    /\ sending' = sending \cup {spin}
    /\ spin' = 0
    /\ UNCHANGED <<pending_actions, refcount, io_request, pools, counters, flags, phase, repost,
                   posted, s2c, host>>

SubmitRequestFails ==
    /\ "submit_request" \in InitiatorFaults
    /\ spin # 0
    /\ spin' = 0
    /\ Fail
    /\ UNCHANGED <<pending_actions, refcount, io_request, pools, counters, phase, repost,
                   posted, sending, links, host>>

-----------------------------------------------------------------------------
(* Completion callbacks *)

(* doca_comch_consumer_task_post_recv_cb: a response arrived. The receive  *)
(* task is reposted at the end of the callback, except after an invalid id.*)
doca_comch_consumer_task_post_recv_cb ==
    /\ Polling
    /\ posted > 0
    /\ \E m \in s2c :
         /\ s2c' = s2c \ {m}
         /\ IF m.id \in Txns
              THEN Release(m.id) /\ repost' = TRUE
              ELSE /\ Fail
                   /\ UNCHANGED <<pending_actions, refcount, io_request, pools, counters, spin,
                                  repost, host>>
    /\ posted' = posted - 1
    /\ UNCHANGED <<phase, sending, c2s>>

(* The end of that callback. *)
RepostReceive ==
    /\ repost
    /\ spin = 0
    /\ repost' = FALSE
    /\ \/ posted' = posted + 1 /\ UNCHANGED flags
       \/ /\ "repost_response" \in InitiatorFaults
          /\ Fail
          /\ UNCHANGED posted
    /\ UNCHANGED <<pending_actions, refcount, io_request, pools, counters, phase, spin,
                   sending, links, host>>

(* A posted receive is flushed with an error. *)
doca_comch_consumer_task_post_recv_error_cb ==
    /\ "response_error" \in InitiatorFaults
    /\ Polling
    /\ posted > 0
    /\ posted' = posted - 1
    /\ IF run_flag THEN Fail ELSE UNCHANGED flags
    /\ UNCHANGED <<pending_actions, refcount, io_request, pools, counters, phase, spin, repost,
                   sending, links, host>>

doca_comch_producer_task_send_cb ==
    /\ Polling
    /\ \E t \in sending :
         /\ sending' = sending \ {t}
         /\ Release(t)
    /\ UNCHANGED <<phase, repost, posted, links>>

(* A send task fails: its request never reaches the service. *)
doca_comch_producer_task_send_error_cb ==
    /\ "request_error" \in InitiatorFaults
    /\ Polling
    /\ \E t \in sending :
         /\ io_request[t] \in c2s
         /\ sending' = sending \ {t}
         /\ c2s' = c2s \ {io_request[t]}
    /\ Fail
    /\ UNCHANGED <<pending_actions, refcount, io_request, pools, counters, phase, spin, repost,
                   posted, s2c, host>>

Next ==
    \/ SubmitResponseTasks \/ StartInitial \/ StartPolling \/ run_data_path_ops
    \/ SubmitRequest \/ SubmitRequestFails
    \/ doca_comch_consumer_task_post_recv_cb \/ RepostReceive
    \/ doca_comch_consumer_task_post_recv_error_cb
    \/ doca_comch_producer_task_send_cb \/ doca_comch_producer_task_send_error_cb
=============================================================================
