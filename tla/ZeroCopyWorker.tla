--------------------------- MODULE ZeroCopyWorker ---------------------------
(***************************************************************************)
(* The data path of one worker of the zero-copy storage service            *)
(* (comch_to_rdma_zero_copy.cpp), which relays I/O messages between the    *)
(* initiator (comch) and the storage target (RDMA).                        *)
(*                                                                         *)
(* A slot has two message buffers. The request buffer is shared by a comch *)
(* receive task and the RDMA send task linked to it, the response buffer   *)
(* by an RDMA receive task and the comch send task linked to it. The two   *)
(* tasks of a buffer take turns: each is submitted from the callback of    *)
(* the other.                                                              *)
(*                                                                         *)
(* The thread waits inside a callback only in the loop that retries the    *)
(* submission of a response while it returns DOCA_ERROR_AGAIN (`spin`).    *)
(***************************************************************************)
EXTENDS Integers, FiniteSets

CONSTANTS
    Slots,          \* transaction_count of the worker's prepare_tasks
    RelayFaults     \* the failures that can happen in the relay

FaultKinds == {"submit_initial", "submit", "task_error"}

NoMessage == [id |-> 0]      \* a buffer whose data length was reset

ASSUME SlotsAssumption == IsFiniteSet(Slots) /\ 0 \notin Slots
ASSUME RelayFaultsAssumption == RelayFaults \subseteq FaultKinds

VARIABLES
    request_tasks,   \* per slot: the submitted tasks that use its request buffer
    response_tasks,  \* per slot: the submitted tasks that use its response buffer
    spin,            \* slot whose response is being submitted, 0 if none
    request,         \* per slot: the message in its request buffer
    response,        \* per slot: the message in its response buffer
    completed,       \* completed_transaction_count
    run_flag,
    error_flag,
    phase,           \* "start", "run" or "exited": where thread_proc is
    c2s, s2t,        \* requests from the initiator, and to the target
    t2s, s2c         \* responses from the target, and to the initiator

flags == <<run_flag, error_flag>>
tasks == <<request_tasks, response_tasks>>
buffers == <<request, response>>
zvars == <<tasks, spin, buffers, completed, flags, phase>>
links == <<c2s, s2t, t2s, s2c>>

(* The worker after start_data_path; the links belong to the composition. *)
Init ==
    /\ request_tasks = [s \in Slots |-> {}]
    /\ response_tasks = [s \in Slots |-> {}]
    /\ spin = 0
    /\ request = [s \in Slots |-> NoMessage]
    /\ response = [s \in Slots |-> NoMessage]
    /\ completed = 0
    /\ run_flag = TRUE
    /\ error_flag = FALSE
    /\ phase = "start"

Fail == run_flag' = FALSE /\ error_flag' = TRUE

Swap_keep(tasksOf, s, old, task) ==           \* mutant: the old task is submitted again
    [tasksOf EXCEPT ![s] = @ \cup {task}]

(* Submit `task` on the buffer of slot s that `old` has just released; the *)
(* submission may fail, and then the buffer is left without a task.        *)
Swap(tasksOf, s, old, task) == [tasksOf EXCEPT ![s] = (@ \ {old}) \cup {task}]
Drop(tasksOf, s, old) == [tasksOf EXCEPT ![s] = @ \ {old}]

(* thread_proc: all receive tasks are submitted before the first poll. If  *)
(* one is refused the thread ends, with some of them submitted.            *)
SubmitInitialTasks ==
    /\ phase = "start"
    /\ \/ /\ request_tasks' = [s \in Slots |-> {"receive"}]
          /\ response_tasks' = [s \in Slots |-> {"receive"}]
          /\ phase' = "run"
          /\ UNCHANGED flags
       \/ /\ "submit_initial" \in RelayFaults
          /\ \E P, Q \in SUBSET Slots :
               /\ P # Slots => Q = {}
               /\ Q # Slots
               /\ request_tasks' = [s \in Slots |-> IF s \in P THEN {"receive"} ELSE {}]
               /\ response_tasks' = [s \in Slots |-> IF s \in Q THEN {"receive"} ELSE {}]
          /\ phase' = "exited"
          /\ Fail
    /\ UNCHANGED <<spin, buffers, completed, links>>

(* A callback runs in doca_pe_progress. One that runs after another thread *)
(* cleared run_flag, but before this thread looks at it again, might as    *)
(* well have run before: only the receive error callbacks read run_flag.   *)
Polling == phase = "run" /\ run_flag /\ spin = 0

(* A request arrived: forward the buffer as it is to the target. *)
doca_comch_consumer_task_post_recv_cb(s, m) ==
    /\ Polling
    /\ m \in c2s
    /\ "receive" \in request_tasks[s]
    /\ c2s' = c2s \ {m}
    /\ \/ /\ request_tasks' = Swap(request_tasks, s, "receive", "send")
          /\ s2t' = s2t \cup {m}
          /\ UNCHANGED flags
       \/ /\ "submit" \in RelayFaults
          /\ request_tasks' = Drop(request_tasks, s, "receive")
          /\ Fail
          /\ UNCHANGED s2t
    /\ request' = [request EXCEPT ![s] = m]
    /\ UNCHANGED <<response_tasks, spin, response, completed, phase, t2s, s2c>>

doca_rdma_task_send_cb_no_repost(s) ==        \* mutant: the receive is not posted again
    /\ Polling
    /\ "send" \in request_tasks[s]
    /\ request_tasks' = Drop(request_tasks, s, "send")
    /\ request' = [request EXCEPT ![s] = NoMessage]
    /\ UNCHANGED <<response_tasks, spin, response, completed, flags, phase, links>>

(* The request has left: post the receive task on its buffer again. *)
doca_rdma_task_send_cb(s) ==
    /\ Polling
    /\ "send" \in request_tasks[s]
    /\ \/ /\ request_tasks' = Swap(request_tasks, s, "send", "receive")
          /\ UNCHANGED flags
       \/ /\ "submit" \in RelayFaults
          /\ request_tasks' = Drop(request_tasks, s, "send")
          /\ Fail
    /\ request' = [request EXCEPT ![s] = NoMessage]
    /\ UNCHANGED <<response_tasks, spin, response, completed, phase, links>>

(* A response arrived: it becomes a result that says DOCA_SUCCESS, and its *)
(* submission starts.                                                      *)
doca_rdma_task_receive_cb(s, m) ==
    /\ Polling
    /\ m \in t2s
    /\ "receive" \in response_tasks[s]
    /\ t2s' = t2s \ {m}
    /\ response_tasks' = Drop(response_tasks, s, "receive")
    /\ response' = [response EXCEPT ![s] = [id |-> m.id, result |-> "SUCCESS"]]
    /\ spin' = s
    /\ UNCHANGED <<request_tasks, request, completed, flags, phase, c2s, s2t, s2c>>

SubmitResponse_give_up ==                     \* mutant: the callback may not retry on AGAIN
    /\ spin # 0
    /\ spin' = 0
    /\ \/ /\ response_tasks' = [response_tasks EXCEPT ![spin] = @ \cup {"send"}]
          /\ s2c' = s2c \cup {response[spin]}
       \/ UNCHANGED <<response_tasks, s2c>>
    /\ UNCHANGED <<request_tasks, buffers, completed, flags, phase, c2s, s2t, t2s>>

(* doca_task_submit ends the retry loop of the callback. *)
SubmitResponse ==
    /\ spin # 0
    /\ spin' = 0
    /\ \/ /\ response_tasks' = [response_tasks EXCEPT ![spin] = @ \cup {"send"}]
          /\ s2c' = s2c \cup {response[spin]}
          /\ UNCHANGED flags
       \/ /\ "submit" \in RelayFaults
          /\ Fail
          /\ UNCHANGED <<response_tasks, s2c>>
    /\ UNCHANGED <<request_tasks, buffers, completed, phase, c2s, s2t, t2s>>

(* The response has left: post the RDMA receive on its buffer again. *)
doca_comch_producer_task_send_cb(s) ==
    /\ Polling
    /\ "send" \in response_tasks[s]
    /\ completed' = completed + 1
    /\ \/ /\ response_tasks' = Swap(response_tasks, s, "send", "receive")
          /\ UNCHANGED flags
       \/ /\ "submit" \in RelayFaults
          /\ response_tasks' = Drop(response_tasks, s, "send")
          /\ Fail
    /\ response' = [response EXCEPT ![s] = NoMessage]
    /\ UNCHANGED <<request_tasks, spin, request, phase, links>>

(* The error callbacks of the four kinds of task: nothing is resubmitted,  *)
(* and what a failed send carried may not have reached the peer.           *)
ReceiveError == IF run_flag THEN Fail ELSE UNCHANGED flags

doca_comch_consumer_task_post_recv_error_cb(s) ==
    /\ "task_error" \in RelayFaults
    /\ phase = "run" /\ spin = 0
    /\ "receive" \in request_tasks[s]
    /\ request_tasks' = Drop(request_tasks, s, "receive")
    /\ ReceiveError
    /\ UNCHANGED <<response_tasks, spin, buffers, completed, phase, links>>

doca_rdma_task_receive_error_cb(s) ==
    /\ "task_error" \in RelayFaults
    /\ phase = "run" /\ spin = 0
    /\ "receive" \in response_tasks[s]
    /\ response_tasks' = Drop(response_tasks, s, "receive")
    /\ ReceiveError
    /\ UNCHANGED <<request_tasks, spin, buffers, completed, phase, links>>

doca_rdma_task_send_error_cb(s) ==
    /\ "task_error" \in RelayFaults
    /\ Polling
    /\ "send" \in request_tasks[s]
    /\ request_tasks' = Drop(request_tasks, s, "send")
    /\ s2t' \in {s2t, s2t \ {request[s]}}
    /\ Fail
    /\ UNCHANGED <<response_tasks, spin, buffers, completed, phase, c2s, t2s, s2c>>

doca_comch_producer_task_send_error_cb(s) ==
    /\ "task_error" \in RelayFaults
    /\ Polling
    /\ "send" \in response_tasks[s]
    /\ response_tasks' = Drop(response_tasks, s, "send")
    /\ s2c' \in {s2c, s2c \ {response[s]}}
    /\ Fail
    /\ UNCHANGED <<request_tasks, spin, buffers, completed, phase, c2s, s2t, t2s>>

(* run_data_path_ops: in_flight_transaction_count is never changed, so the *)
(* thread ends as soon as run_flag is false.                               *)
run_data_path_ops ==
    /\ phase = "run"
    /\ spin = 0
    /\ ~run_flag
    /\ phase' = "exited"
    /\ UNCHANGED <<tasks, spin, buffers, completed, flags, links>>

(* join_thread_proc of the main thread. *)
Stop ==
    /\ phase = "run"
    /\ run_flag
    /\ run_flag' = FALSE
    /\ UNCHANGED <<tasks, spin, buffers, completed, error_flag, phase, links>>

ReceiveRequest == \E s \in Slots, m \in c2s : doca_comch_consumer_task_post_recv_cb(s, m)
ReceiveResponse == \E s \in Slots, m \in t2s : doca_rdma_task_receive_cb(s, m)
RequestSent == \E s \in Slots : doca_rdma_task_send_cb(s)
ResponseSent == \E s \in Slots : doca_comch_producer_task_send_cb(s)
AnyTaskError ==
    \E s \in Slots :
      \/ doca_comch_consumer_task_post_recv_error_cb(s)
      \/ doca_rdma_task_receive_error_cb(s)
      \/ doca_rdma_task_send_error_cb(s)
      \/ doca_comch_producer_task_send_error_cb(s)

Next ==
    \/ SubmitInitialTasks \/ run_data_path_ops \/ Stop
    \/ ReceiveRequest \/ RequestSent \/ ReceiveResponse \/ SubmitResponse \/ ResponseSent
    \/ AnyTaskError
=============================================================================
