---------------------------- MODULE TargetWorker ----------------------------
(***************************************************************************)
(* The data path of one worker of the RDMA storage target                  *)
(* (target_rdma.cpp). A slot holds one message buffer, shared by the task  *)
(* that receives a request and the task that sends its response, and a     *)
(* data task in each direction: an RDMA write carries the data of a read   *)
(* request to the host, an RDMA read fetches the data of a write request.  *)
(* All callbacks run on the worker's thread.                               *)
(***************************************************************************)
EXTENDS Integers, FiniteSets

CONSTANTS
    Slots,          \* m_transaction_count of the worker
    TargetFaults,   \* the failures that can happen in the target
    CounterRange    \* values of the unsigned in_flight_transaction_count: 2^32 in the code

FaultKinds == {"submit_initial", "submit_transfer", "submit_response", "submit_request",
               "transfer_error", "send_error", "receive_error"}
NoMessage == [id |-> 0]      \* a buffer whose data length was reset

ASSUME TargetSlotsAssumption == IsFiniteSet(Slots)
ASSUME TargetFaultsAssumption == TargetFaults \subseteq FaultKinds
ASSUME CounterAssumption == CounterRange \in Nat /\ Cardinality(Slots) < CounterRange

VARIABLES
    tasks,          \* per slot: its submitted tasks
    io_message,     \* per slot: the message in its buffer
    in_flight,      \* in_flight_transaction_count
    completed,      \* completed_transaction_count
    run_flag,
    error_flag,
    phase,          \* "start", "run" or "exited": where thread_proc is
    s2t, t2s,       \* requests from the service, and responses to it
    host, disk      \* memory of the host, content of the storage

flags == <<run_flag, error_flag>>
memory == <<host, disk>>
tvars == <<tasks, io_message, in_flight, completed, flags, phase>>

(* The worker after start_data_path. *)
Init ==
    /\ tasks = [s \in Slots |-> {}]
    /\ io_message = [s \in Slots |-> NoMessage]
    /\ in_flight = 0
    /\ completed = 0
    /\ run_flag = TRUE
    /\ error_flag = FALSE
    /\ phase = "start"

Increment_missing == UNCHANGED in_flight      \* mutant: the request is not counted

Increment == in_flight' = (in_flight + 1) % CounterRange
Decrement == in_flight' = (in_flight - 1) % CounterRange

Swap_keep(s, old, task) ==                    \* mutant: the old task is submitted again
    tasks' = [tasks EXCEPT ![s] = @ \cup {task}]

Swap(s, old, task) == tasks' = [tasks EXCEPT ![s] = (@ \ {old}) \cup {task}]
Drop(s, old) == tasks' = [tasks EXCEPT ![s] = @ \ {old}]

(* Turn the message of slot s, on which `old` has just ended, into a       *)
(* response and submit the task that sends it. A failure is only logged.   *)
SubmitResponse(s, old, m, result) ==
    LET answer == [id |-> m.id, result |-> result]
    IN  /\ io_message' = [io_message EXCEPT ![s] = answer]
        /\ \/ Swap(s, old, "send") /\ t2s' = t2s \cup {answer}
           \/ "submit_response" \in TargetFaults /\ Drop(s, old) /\ UNCHANGED t2s

(* thread_proc: the receive tasks are submitted before the first poll. If  *)
(* one is refused the thread ends, with some of them submitted.            *)
SubmitInitialTasks ==
    /\ phase = "start"
    /\ \/ /\ tasks' = [s \in Slots |-> {"receive"}]
          /\ phase' = "run"
          /\ UNCHANGED flags
       \/ /\ "submit_initial" \in TargetFaults
          /\ \E P \in SUBSET Slots :
               /\ P # Slots
               /\ tasks' = [s \in Slots |-> IF s \in P THEN {"receive"} ELSE {}]
          /\ phase' = "exited"
          /\ run_flag' = FALSE
          /\ error_flag' = TRUE
    /\ UNCHANGED <<io_message, in_flight, completed, s2t, t2s, memory>>

Polling_no_drain == phase = "run" /\ run_flag \* mutant: no second loop

(* run_data_path_ops polls while run_flag is set, and then until nothing   *)
(* is in flight, unless there was an error. A callback that runs after     *)
(* another thread cleared run_flag, but before this thread looks at it     *)
(* again, might as well have run before: only the receive error callback   *)
(* reads run_flag.                                                         *)
Polling == phase = "run" /\ (run_flag \/ (~error_flag /\ in_flight # 0))

run_data_path_ops ==
    /\ phase = "run"
    /\ ~Polling
    /\ phase' = "exited"
    /\ UNCHANGED <<tasks, io_message, in_flight, completed, flags, s2t, t2s, memory>>

(* join_thread_proc of the main thread, for the stop request. *)
Stop ==
    /\ phase = "run"
    /\ run_flag
    /\ run_flag' = FALSE
    /\ UNCHANGED <<tasks, io_message, in_flight, completed, error_flag, phase, s2t, t2s, memory>>

Transfer_swapped(type) == type                \* mutant: data goes the other way

(* The data task that serves a request. *)
Transfer(type) == IF type = "read" THEN "write" ELSE "read"

doca_rdma_task_receive_cb(s, m) ==
    /\ Polling
    /\ m \in s2t
    /\ "receive" \in tasks[s]
    /\ s2t' = s2t \ {m}
    /\ \/ /\ m.type \in {"read", "write"}
          /\ Swap(s, "receive", Transfer(m.type))
          /\ io_message' = [io_message EXCEPT ![s] = m]
          /\ Increment
          /\ UNCHANGED t2s
       \/ /\ m.type \notin {"read", "write"} \/ "submit_transfer" \in TargetFaults
          /\ SubmitResponse(s, "receive", m, "ERROR")
          /\ UNCHANGED in_flight
    /\ UNCHANGED <<completed, flags, phase, memory>>

doca_rdma_task_receive_error_cb(s) ==
    /\ "receive_error" \in TargetFaults
    /\ phase = "run"
    /\ "receive" \in tasks[s]
    /\ Drop(s, "receive")
    /\ IF run_flag
         THEN Decrement /\ run_flag' = FALSE /\ error_flag' = TRUE
         ELSE UNCHANGED <<in_flight, flags>>
    /\ UNCHANGED <<io_message, completed, phase, s2t, t2s, memory>>

(* The RDMA transfer of slot s is done: the data is where it belongs. *)
on_transfer_complete(s) ==
    LET m == io_message[s]
    IN  /\ Polling
        /\ \E task \in tasks[s] \cap {"read", "write"} :
             /\ IF task = "write"
                  THEN host' = [host EXCEPT ![m.local] = disk[m.storage]] /\ UNCHANGED disk
                  ELSE disk' = [disk EXCEPT ![m.storage] = host[m.local]] /\ UNCHANGED host
             /\ SubmitResponse(s, task, m, "SUCCESS")
        /\ completed' = completed + 1
        /\ UNCHANGED <<in_flight, flags, phase, s2t>>

on_transfer_error(s) ==
    /\ "transfer_error" \in TargetFaults
    /\ Polling
    /\ \E task \in tasks[s] \cap {"read", "write"} :
         SubmitResponse(s, task, io_message[s], "IO_FAILED")
    /\ completed' = completed + 1
    /\ error_flag' = TRUE
    /\ UNCHANGED <<in_flight, run_flag, phase, s2t, memory>>

doca_rdma_task_send_cb_uncounted(s) ==        \* mutant: in_flight is not decremented
    /\ Polling
    /\ "send" \in tasks[s]
    /\ Swap(s, "send", "receive")
    /\ io_message' = [io_message EXCEPT ![s] = NoMessage]
    /\ UNCHANGED <<in_flight, completed, flags, phase, s2t, t2s, memory>>

(* The response has left: post the receive on the buffer again. *)
doca_rdma_task_send_cb(s) ==
    /\ Polling
    /\ "send" \in tasks[s]
    /\ \/ Swap(s, "send", "receive")
       \/ "submit_request" \in TargetFaults /\ Drop(s, "send")
    /\ io_message' = [io_message EXCEPT ![s] = NoMessage]
    /\ Decrement
    /\ UNCHANGED <<completed, flags, phase, s2t, t2s, memory>>

doca_rdma_task_send_error_cb(s) ==
    /\ "send_error" \in TargetFaults
    /\ Polling
    /\ "send" \in tasks[s]
    /\ Drop(s, "send")
    /\ t2s' \in {t2s, t2s \ {io_message[s]}}
    /\ Decrement
    /\ run_flag' = FALSE
    /\ error_flag' = TRUE
    /\ UNCHANGED <<io_message, completed, phase, s2t, memory>>

ReceiveRequest == \E s \in Slots, m \in s2t : doca_rdma_task_receive_cb(s, m)
TransferDone == \E s \in Slots : on_transfer_complete(s)
TransferFailed == \E s \in Slots : on_transfer_error(s)
ResponseSent == \E s \in Slots : doca_rdma_task_send_cb(s)
ResponseFailed == \E s \in Slots : doca_rdma_task_send_error_cb(s)
ReceiveFailed == \E s \in Slots : doca_rdma_task_receive_error_cb(s)

Next ==
    \/ SubmitInitialTasks \/ run_data_path_ops \/ Stop
    \/ ReceiveRequest \/ ReceiveFailed \/ TransferDone \/ TransferFailed
    \/ ResponseSent \/ ResponseFailed

-----------------------------------------------------------------------------
(* Properties of the worker *)

Transferring(s) == tasks[s] \cap {"read", "write"} # {}
Serving(s) == Transferring(s) \/ "send" \in tasks[s]

(* The tasks of a slot never run at the same time: the buffer that the     *)
(* receive task fills is not in use by the transfer or by the response.    *)
OneTaskPerSlot == \A s \in Slots : Cardinality(tasks[s]) <= 1

(* "if the thread is running the data path setting the run flag to false   *)
(* will trigger it to stop"                                                *)
StopEnds == (~run_flag) ~> (phase = "exited")
=============================================================================
