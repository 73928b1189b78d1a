---------------------------- MODULE TargetProofs ----------------------------
(***************************************************************************)
(* Proofs about TargetSystem: for any number of slots and requests and any *)
(* failures, a slot never has two tasks, the drain counter is exact, and   *)
(* a worker that ends without an error has drained.                        *)
(***************************************************************************)
EXTENDS TargetSystem, FiniteSetTheorems, TLAPS

(* A slot has at most one task, which determines what its buffer holds. *)
SlotInv ==
    \A s \in Slots :
      /\ tasks[s] \in {{}, {"receive"}, {"read"}, {"write"}, {"send"}}
      /\ tasks[s] = {"receive"} => io_message[s] = NoMessage
      /\ Transferring(s) => io_message[s] \in Request
      /\ "send" \in tasks[s] => io_message[s] \in Answer

(* Nothing is submitted before the initial tasks. *)
StartInv ==
    phase = "start" => \A s \in Slots : tasks[s] = {} /\ io_message[s] = NoMessage

(* The thread ends only after an error or with a counter of zero. *)
ExitInv ==
    phase = "exited" => (error_flag \/ in_flight = 0)

Occ == {s \in Slots : Occupied(s)}

IInv == TypeOK /\ SlotInv /\ StartInv /\ ExitInv /\ InFlightExact

(* Messages are told apart from an empty buffer by their id. *)
LEMMA MessageFacts ==
    /\ \A m \in Request : m # NoMessage /\ m.id \in 1 .. MaxRequests /\ m.type \in {"read", "write"}
                          /\ m.local \in Blocks /\ m.storage \in Blocks
    /\ \A m \in Answer : m # NoMessage
    /\ NoMessage \notin Request /\ NoMessage \notin Answer
BY PeerAssumption DEF Request, Answer, NoMessage

(* The counter and the set it counts. *)
LEMMA OccFinite ==
    /\ IsFiniteSet(Occ)
    /\ Cardinality(Occ) \in Nat
    /\ Cardinality(Occ) < CounterRange
<1>1. Occ \subseteq Slots
  BY DEF Occ
<1>2. IsFiniteSet(Occ) /\ Cardinality(Occ) <= Cardinality(Slots)
  BY <1>1, FS_Subset, TargetSlotsAssumption
<1>3. Cardinality(Occ) \in Nat /\ Cardinality(Slots) \in Nat
  BY <1>2, FS_CardinalityType, TargetSlotsAssumption
<1> QED BY <1>2, <1>3, CounterAssumption

(* Counting up and down modulo CounterRange is exact within the range.     *)
LEMMA Wrap ==
    ASSUME NEW n \in Nat, NEW M \in Nat, n < M
    PROVE  n % M = n
OBVIOUS

(* A step that frees or takes slot s moves the counter by one. *)
LEMMA OccAdd ==
    ASSUME NEW s \in Slots, s \notin Occ, Occ' = Occ \cup {s},
           in_flight = Cardinality(Occ), Increment
    PROVE  in_flight' = Cardinality(Occ')
<1>1. Cardinality(Occ') = Cardinality(Occ) + 1 /\ IsFiniteSet(Occ')
  BY OccFinite, FS_AddElement
<1>2. Occ' \subseteq Slots
  BY DEF Occ
<1>3. Cardinality(Occ') <= Cardinality(Slots) /\ Cardinality(Slots) \in Nat
  BY <1>2, FS_Subset, FS_CardinalityType, TargetSlotsAssumption
<1>4. in_flight + 1 \in Nat /\ in_flight + 1 < CounterRange
  BY <1>1, <1>3, OccFinite, CounterAssumption
<1> QED BY <1>1, <1>4, Wrap, CounterAssumption DEF Increment

(* One slot less is occupied.                                              *)
LEMMA OccRemove ==
    ASSUME NEW s \in Slots, s \in Occ, Occ' = Occ \ {s},
           in_flight = Cardinality(Occ), Decrement
    PROVE  in_flight' = Cardinality(Occ')
<1>1. Cardinality(Occ') = Cardinality(Occ) - 1
  BY OccFinite, FS_RemoveElement
<1>2. Cardinality(Occ) # 0
  BY OccFinite, FS_EmptySet
<1>3. in_flight - 1 \in Nat /\ in_flight - 1 < CounterRange
  BY <1>2, OccFinite, CounterAssumption
<1> QED BY <1>1, <1>3, Wrap, CounterAssumption DEF Decrement

(* The counter keeps its width. *)
LEMMA CounterType ==
    ASSUME in_flight \in 0 .. CounterRange - 1, Increment \/ Decrement
    PROVE  in_flight' \in 0 .. CounterRange - 1
BY CounterAssumption DEF Increment, Decrement

(* A worker whose thread has not started satisfies the invariant.          *)
LEMMA InitInv == TInit => IInv
<1> SUFFICES ASSUME TInit PROVE IInv
  OBVIOUS
<1>1. run_flag \in BOOLEAN /\ error_flag \in BOOLEAN /\ refused \in BOOLEAN
  BY Zenon DEF TInit, Init
<1>2. in_flight \in 0 .. CounterRange - 1
  BY CounterAssumption, OccFinite DEF TInit, Init
<1>3. TypeOK
  BY <1>1, <1>2, PeerAssumption DEF TInit, Init, TypeOK, Tasks
<1>4. SlotInv /\ StartInv /\ ExitInv
  BY DEF TInit, Init, SlotInv, StartInv, ExitInv, Transferring
<1>5. Occ = {}
  BY DEF TInit, Init, Occ, Occupied, Serving, Transferring
<1>6. InFlightExact
  BY <1>5, FS_EmptySet DEF InFlightExact, Occ, TInit, Init
<1> QED BY <1>3, <1>4, <1>6 DEF IInv

(* A refusal is never forgotten. *)
LEMMA WatchedStep ==
    ASSUME TypeOK, Watched
    PROVE  refused' \in BOOLEAN /\ (~refused' => ~refused)
BY DEF Watched, TypeOK

(* A step that rewrites slot s leaves the other slots as they are. *)
LEMMA OtherSlots ==
    ASSUME tasks \in [Slots -> SUBSET Tasks], NEW s \in Slots, NEW X, NEW m,
           tasks' = [tasks EXCEPT ![s] = X],
           io_message' = [io_message EXCEPT ![s] = m] \/ UNCHANGED io_message,
           io_message \in [Slots -> Request \cup Answer \cup {NoMessage}]
    PROVE  /\ tasks'[s] = X
           /\ \A u \in Slots \ {s} : tasks'[u] = tasks[u] /\ io_message'[u] = io_message[u]
           /\ \A u \in Slots \ {s} : Occupied(u)' <=> Occupied(u)
BY Zenon DEF Occupied, Serving, Transferring

(* SubmitResponse: the slot goes on to its send task, or is left without a *)
(* task but with the response in its buffer. It is occupied either way.    *)
LEMMA ResponseStep ==
    ASSUME IInv, NEW s \in Slots, NEW old \in {"receive", "read", "write"}, tasks[s] = {old},
           NEW m \in Request, NEW r \in {"SUCCESS", "IO_FAILED", "ERROR"},
           SubmitResponse(s, old, m, r)
    PROVE  /\ tasks' \in [Slots -> SUBSET Tasks]
           /\ io_message' \in [Slots -> Request \cup Answer \cup {NoMessage}]
           /\ t2s' \subseteq Answer
           /\ tasks'[s] \in {{}, {"send"}} /\ io_message'[s] \in Answer
           /\ \A u \in Slots \ {s} : tasks'[u] = tasks[u] /\ io_message'[u] = io_message[u]
           /\ Occ' = Occ \cup {s}
<1> DEFINE answer == [id |-> m.id, result |-> r]
<1>1. answer \in Answer /\ answer # NoMessage
  BY MessageFacts DEF Answer
<1>2. PICK X \in {{}, {"send"}} : tasks' = [tasks EXCEPT ![s] = X]
  BY DEF SubmitResponse, Swap, Drop
<1>3. io_message' = [io_message EXCEPT ![s] = answer]
  BY DEF SubmitResponse
<1>4. t2s' \subseteq Answer
  BY <1>1 DEF SubmitResponse, IInv, TypeOK
<1>5. /\ tasks' \in [Slots -> SUBSET Tasks]
      /\ io_message' \in [Slots -> Request \cup Answer \cup {NoMessage}]
      /\ io_message'[s] = answer /\ tasks'[s] = X
  BY <1>1, <1>2, <1>3 DEF IInv, TypeOK, Tasks
<1>6. \A u \in Slots \ {s} : /\ tasks'[u] = tasks[u] /\ io_message'[u] = io_message[u]
                             /\ Occupied(u)' <=> Occupied(u)
  BY Zenon, <1>2, <1>3, OtherSlots DEF IInv, TypeOK
<1>7. Occupied(s)'
  BY <1>1, <1>2, <1>5 DEF Occupied, Serving
<1>8. Occ' = Occ \cup {s}
  BY <1>6, <1>7 DEF Occ
<1> QED BY <1>1, <1>4, <1>5, <1>6, <1>8

(* The receive callback: the slot becomes occupied and the counter grows.  *)
LEMMA ReceiveStep ==
    ASSUME IInv, NEW s \in Slots, NEW m \in s2t, doca_rdma_task_receive_cb(s, m), Watched
    PROVE  IInv'
<1>1. m \in Request /\ "receive" \in tasks[s] /\ tasks[s] = {"receive"}
  BY DEF IInv, TypeOK, SlotInv, doca_rdma_task_receive_cb
<1>2. /\ UNCHANGED <<completed, run_flag, error_flag, phase, host, disk, sent>>
      /\ s2t' \subseteq Request /\ phase = "run"
  BY DEF doca_rdma_task_receive_cb, flags, memory, IInv, TypeOK, Polling, Watched
<1>w. refused' \in BOOLEAN /\ (~refused' => ~refused)
  BY WatchedStep DEF IInv
<1>3. s \notin Occ
  BY <1>1 DEF Occ, Occupied, Serving, Transferring, IInv, SlotInv
<1>4. CASE /\ Swap(s, "receive", Transfer(m.type))
           /\ io_message' = [io_message EXCEPT ![s] = m]
           /\ Increment /\ UNCHANGED t2s
  <2>1. PICK X \in {{"read"}, {"write"}} : tasks' = [tasks EXCEPT ![s] = X]
    BY Zenon, <1>1, <1>4 DEF Swap, Transfer
  <2>2. /\ tasks' \in [Slots -> SUBSET Tasks] /\ tasks'[s] = X
        /\ io_message' \in [Slots -> Request \cup Answer \cup {NoMessage}] /\ io_message'[s] = m
    BY <1>1, <1>4, <2>1 DEF IInv, TypeOK, Tasks
  <2>3. \A u \in Slots \ {s} : /\ tasks'[u] = tasks[u] /\ io_message'[u] = io_message[u]
                               /\ Occupied(u)' <=> Occupied(u)
    BY Zenon, <1>4, <2>1, OtherSlots DEF IInv, TypeOK
  <2>4. Occ' = Occ \cup {s}
    <3>1. Occupied(s)'
      BY <2>1, <2>2 DEF Occupied, Serving, Transferring
    <3> QED BY <2>3, <3>1 DEF Occ
  <2>5. SlotInv'
    BY <1>1, <2>1, <2>2, <2>3 DEF IInv, SlotInv, Transferring
  <2>6. in_flight' \in 0 .. CounterRange - 1
    BY <1>4, CounterType DEF IInv, TypeOK
  <2>7. InFlightExact'
    BY <1>2, <1>w, <1>3, <1>4, <2>4, OccAdd DEF IInv, InFlightExact, Occ
  <2>8. TypeOK'
    BY <1>2, <1>w, <1>4, <2>2, <2>6 DEF IInv, TypeOK
  <2> QED BY <1>2, <2>5, <2>7, <2>8 DEF IInv, StartInv, ExitInv
<1>5. CASE /\ "submit_transfer" \in TargetFaults
           /\ SubmitResponse(s, "receive", m, "ERROR") /\ UNCHANGED in_flight
  <2>1. /\ tasks' \in [Slots -> SUBSET Tasks]
        /\ io_message' \in [Slots -> Request \cup Answer \cup {NoMessage}]
        /\ t2s' \subseteq Answer
        /\ tasks'[s] \in {{}, {"send"}} /\ io_message'[s] \in Answer
        /\ \A u \in Slots \ {s} : tasks'[u] = tasks[u] /\ io_message'[u] = io_message[u]
    BY <1>1, <1>5, ResponseStep
  <2>2. SlotInv'
    BY <2>1, MessageFacts DEF IInv, SlotInv, Transferring
  <2>3. TypeOK'
    BY <1>2, <1>w, <1>5, <2>1 DEF IInv, TypeOK
  <2>4. refused'
    <3>1. io_message[s] = NoMessage /\ io_message'[s] # NoMessage /\ ~Transferring(s)'
      BY <1>1, <2>1, MessageFacts DEF IInv, SlotInv, Transferring
    <3> QED BY Zenon, <3>1 DEF Watched, Refusal
  <2> QED BY <1>2, <1>5, <2>2, <2>3, <2>4 DEF IInv, StartInv, ExitInv, InFlightExact
<1> QED BY <1>1, <1>4, <1>5, MessageFacts DEF doca_rdma_task_receive_cb

(* Both outcomes of a transfer answer it and keep the slot occupied. *)
LEMMA TransferStep ==
    ASSUME IInv, NEW s \in Slots, Watched,
           on_transfer_complete(s) \/ on_transfer_error(s)
    PROVE  IInv'
<1>1. PICK task \in tasks[s] \cap {"read", "write"}, r \in {"SUCCESS", "IO_FAILED"} :
        SubmitResponse(s, task, io_message[s], r)
  BY DEF on_transfer_complete, on_transfer_error
<1>2. tasks[s] = {task} /\ io_message[s] \in Request /\ s \in Occ
  BY <1>1 DEF IInv, SlotInv, Transferring, Occ, Occupied, Serving
<1>3. /\ UNCHANGED <<in_flight, run_flag, phase, s2t, sent>> /\ phase = "run"
      /\ error_flag' \in BOOLEAN /\ (~error_flag' => ~error_flag)
  BY Zenon DEF on_transfer_complete, on_transfer_error, flags, Polling, IInv, TypeOK, Watched
<1>w. refused' \in BOOLEAN /\ (~refused' => ~refused)
  BY WatchedStep DEF IInv
<1>4. completed' \in Nat
  BY DEF on_transfer_complete, on_transfer_error, IInv, TypeOK
<1>5. host' \in [Blocks -> {0} \cup Blocks] /\ disk' \in [Blocks -> {0} \cup Blocks]
  BY <1>2, MessageFacts DEF on_transfer_complete, on_transfer_error, memory, IInv, TypeOK
<1>6. /\ tasks' \in [Slots -> SUBSET Tasks]
      /\ io_message' \in [Slots -> Request \cup Answer \cup {NoMessage}]
      /\ t2s' \subseteq Answer
      /\ tasks'[s] \in {{}, {"send"}} /\ io_message'[s] \in Answer
      /\ \A u \in Slots \ {s} : tasks'[u] = tasks[u] /\ io_message'[u] = io_message[u]
      /\ Occ' = Occ
  BY <1>1, <1>2, ResponseStep
<1>7. SlotInv'
  BY <1>6, MessageFacts DEF IInv, SlotInv, Transferring
<1>8. TypeOK'
  BY <1>3, <1>w, <1>4, <1>5, <1>6 DEF IInv, TypeOK
<1>9. InFlightExact'
  BY Zenon, <1>3, <1>w, <1>6 DEF IInv, InFlightExact, Occ
<1> QED BY <1>3, <1>7, <1>8, <1>9 DEF IInv, StartInv, ExitInv

(* The response has left: the slot is no longer occupied. *)
LEMMA SentStep ==
    ASSUME IInv, NEW s \in Slots, doca_rdma_task_send_cb(s), Watched
    PROVE  IInv'
<1>1. PICK X \in {{}, {"receive"}} : tasks' = [tasks EXCEPT ![s] = X]
  <2>1. tasks[s] = {"send"}
    BY DEF IInv, SlotInv, doca_rdma_task_send_cb
  <2> QED BY <2>1 DEF doca_rdma_task_send_cb, Swap, Drop
<1>2. io_message' = [io_message EXCEPT ![s] = NoMessage] /\ Decrement
  BY DEF doca_rdma_task_send_cb
<1>3. UNCHANGED <<completed, run_flag, error_flag, phase, s2t, t2s, host, disk, sent>> /\ phase = "run"
  BY DEF doca_rdma_task_send_cb, flags, memory, Polling, Watched
<1>w. refused' \in BOOLEAN /\ (~refused' => ~refused)
  BY WatchedStep DEF IInv
<1>4. /\ tasks' \in [Slots -> SUBSET Tasks] /\ tasks'[s] = X
      /\ io_message' \in [Slots -> Request \cup Answer \cup {NoMessage}] /\ io_message'[s] = NoMessage
  BY <1>1, <1>2 DEF IInv, TypeOK, Tasks
<1>5. \A u \in Slots \ {s} : /\ tasks'[u] = tasks[u] /\ io_message'[u] = io_message[u]
                             /\ Occupied(u)' <=> Occupied(u)
  BY Zenon, <1>1, <1>2, OtherSlots DEF IInv, TypeOK
<1>6. s \in Occ /\ Occ' = Occ \ {s}
  <2>1. Occupied(s)
    BY DEF doca_rdma_task_send_cb, Occupied, Serving
  <2>2. ~Occupied(s)'
    BY <1>4 DEF Occupied, Serving, Transferring
  <2> QED BY <1>5, <2>1, <2>2 DEF Occ
<1>7. SlotInv'
  BY <1>4, <1>5 DEF IInv, SlotInv, Transferring
<1>8. in_flight' \in 0 .. CounterRange - 1
  BY <1>2, CounterType DEF IInv, TypeOK
<1>9. InFlightExact'
  BY <1>2, <1>3, <1>w, <1>6, OccRemove DEF IInv, InFlightExact, Occ
<1>10. TypeOK'
  BY <1>3, <1>w, <1>4, <1>8 DEF IInv, TypeOK
<1> QED BY <1>3, <1>7, <1>9, <1>10 DEF IInv, StartInv, ExitInv

(* The send and receive error callbacks leave the slot without a task. *)
LEMMA ErrorStep ==
    ASSUME IInv, NEW s \in Slots, Watched,
           doca_rdma_task_send_error_cb(s) \/ doca_rdma_task_receive_error_cb(s)
    PROVE  IInv'
<1>1. PICK old \in tasks[s] : old \in {"send", "receive"} /\ Drop(s, old)
  BY DEF doca_rdma_task_send_error_cb, doca_rdma_task_receive_error_cb
<1>2. tasks[s] = {old} /\ tasks' = [tasks EXCEPT ![s] = {}]
  BY Zenon, <1>1 DEF Drop, IInv, SlotInv
<1>3. /\ UNCHANGED <<io_message, completed, phase, s2t, host, disk, sent>> /\ phase = "run"
      /\ t2s' \subseteq t2s
  BY DEF doca_rdma_task_send_error_cb, doca_rdma_task_receive_error_cb, Polling, memory, Watched
<1>w. refused' \in BOOLEAN /\ (~refused' => ~refused)
  BY WatchedStep DEF IInv
<1>4. /\ run_flag' \in BOOLEAN /\ error_flag' \in BOOLEAN
      /\ error_flag' \/ (old = "receive" /\ UNCHANGED <<in_flight, error_flag>>)
  <2>1. CASE doca_rdma_task_send_error_cb(s)
    BY Zenon, <2>1 DEF doca_rdma_task_send_error_cb
  <2>2. CASE doca_rdma_task_receive_error_cb(s)
    BY Zenon, <1>2, <2>2 DEF doca_rdma_task_receive_error_cb, flags, IInv, TypeOK
  <2> QED BY <2>1, <2>2
<1>5. in_flight' \in 0 .. CounterRange - 1
  <2>1. Decrement \/ UNCHANGED in_flight
    BY DEF doca_rdma_task_send_error_cb, doca_rdma_task_receive_error_cb
  <2> QED BY <2>1, CounterType DEF IInv, TypeOK
<1>6. tasks' \in [Slots -> SUBSET Tasks] /\ tasks'[s] = {}
  BY <1>2 DEF IInv, TypeOK
<1>7. \A u \in Slots \ {s} : /\ tasks'[u] = tasks[u]
                             /\ Occupied(u)' <=> Occupied(u)
  BY Zenon, <1>2, <1>3, OtherSlots DEF IInv, TypeOK
<1>8. SlotInv'
  BY <1>3, <1>6, <1>7 DEF IInv, SlotInv, Transferring
<1>9. InFlightExact'
  <2>1. CASE error_flag'
    BY <2>1 DEF InFlightExact
  <2>2. CASE old = "receive" /\ UNCHANGED <<in_flight, error_flag>>
    <3>1. io_message[s] = NoMessage
      BY <1>2, <2>2 DEF IInv, SlotInv
    <3>2. ~Occupied(s) /\ ~Occupied(s)'
      BY <1>2, <1>3, <1>6, <2>2, <3>1 DEF Occupied, Serving, Transferring
    <3>3. Occ' = Occ
      BY <1>7, <3>2 DEF Occ
    <3> QED BY <1>w, <2>2, <3>3 DEF IInv, InFlightExact, Occ
  <2> QED BY <1>4, <2>1, <2>2
<1>10. TypeOK'
  BY <1>3, <1>w, <1>4, <1>5, <1>6 DEF IInv, TypeOK
<1> QED BY <1>3, <1>8, <1>9, <1>10 DEF IInv, StartInv, ExitInv

(* Every step of the worker and of the requests to it keeps the invariant. *)
LEMMA NextInv == IInv /\ [TNext]_vars => IInv'
<1> SUFFICES ASSUME IInv, [TNext]_vars PROVE IInv'
  OBVIOUS
<1>1. CASE SubmitInitialTasks /\ Watched
  <2>1. PICK P \in SUBSET Slots : tasks' = [s \in Slots |-> IF s \in P THEN {"receive"} ELSE {}]
    BY <1>1 DEF SubmitInitialTasks
  <2>2. UNCHANGED <<io_message, in_flight, completed, s2t, t2s, host, disk, sent>> /\ phase = "start"
    BY <1>1 DEF SubmitInitialTasks, memory, Watched
  <2>3. \/ phase' = "run" /\ UNCHANGED <<run_flag, error_flag>>
        \/ phase' = "exited" /\ run_flag' = FALSE /\ error_flag' = TRUE
    BY <1>1 DEF SubmitInitialTasks, flags
  <2>4. \A s \in Slots : tasks[s] = {} /\ io_message[s] = NoMessage
    BY <2>2 DEF IInv, StartInv
  <2>5. run_flag' \in BOOLEAN /\ error_flag' \in BOOLEAN
    BY Zenon, <2>3 DEF IInv, TypeOK
  <2>w. refused' \in BOOLEAN /\ (~refused' => ~refused)
    BY <1>1, WatchedStep DEF IInv
  <2>6. TypeOK'
    BY <2>1, <2>2, <2>3, <2>5, <2>w DEF IInv, TypeOK, Tasks
  <2>7. SlotInv' /\ StartInv' /\ ExitInv'
    BY <2>1, <2>2, <2>3, <2>4 DEF SlotInv, StartInv, ExitInv, Transferring
  <2>8. Occ' = {} /\ Occ = {}
    BY <2>1, <2>2, <2>4 DEF Occ, Occupied, Serving, Transferring
  <2>9. InFlightExact'
    BY <2>2, <2>3, <2>w, <2>8 DEF IInv, InFlightExact, Occ
  <2> QED BY <2>6, <2>7, <2>9 DEF IInv
<1>2. CASE /\ UNCHANGED <<tasks, io_message, in_flight, completed, error_flag>>
           /\ (run_data_path_ops \/ Stop) /\ Watched
  <2>1. UNCHANGED <<s2t, t2s, host, disk, sent>>
    BY <1>2 DEF run_data_path_ops, Stop, memory, Watched
  <2>w. refused' \in BOOLEAN /\ (~refused' => ~refused)
    BY <1>2, WatchedStep DEF IInv
  <2>2. /\ run_flag' \in BOOLEAN /\ phase' \in {"run", "exited"}
        /\ (phase' = "exited" => error_flag \/ in_flight = 0)
    BY Zenon, <1>2 DEF run_data_path_ops, Stop, flags, IInv, TypeOK, Polling
  <2>3. TypeOK'
    BY <1>2, <2>1, <2>w, <2>2 DEF IInv, TypeOK
  <2>4. SlotInv' /\ StartInv' /\ ExitInv'
    BY <1>2, <2>2 DEF IInv, SlotInv, StartInv, ExitInv, Transferring
  <2>5. InFlightExact'
    BY <1>2, <2>w DEF IInv, InFlightExact, Occupied, Serving, Transferring
  <2> QED BY <2>3, <2>4, <2>5 DEF IInv
<1>3. CASE (ReceiveRequest \/ ReceiveFailed \/ TransferDone \/ TransferFailed
             \/ ResponseSent \/ ResponseFailed) /\ Watched
  BY <1>3, ReceiveStep, TransferStep, SentStep, ErrorStep
     DEF ReceiveRequest, ReceiveFailed, TransferDone, TransferFailed, ResponseSent, ResponseFailed
<1>4. CASE UNCHANGED tvars /\ (PeerSends \/ PeerReceives \/ UNCHANGED vars)
  <2>1. UNCHANGED <<tasks, io_message, in_flight, completed, run_flag, error_flag, phase, host, disk, refused>>
    BY <1>4 DEF tvars, flags, memory, PeerSends, PeerReceives, vars
  <2>2. s2t' \subseteq Request /\ sent' \in 0 .. MaxRequests
    BY <1>4, PeerAssumption DEF PeerSends, PeerReceives, vars, IInv, TypeOK, Request
  <2>3. t2s' \subseteq Answer
    BY <1>4 DEF PeerSends, PeerReceives, vars, IInv, TypeOK
  <2>4. TypeOK'
    BY <2>1, <2>2, <2>3 DEF IInv, TypeOK
  <2>5. SlotInv' /\ StartInv' /\ ExitInv'
    BY <2>1 DEF IInv, SlotInv, StartInv, ExitInv, Transferring
  <2>6. InFlightExact'
    BY <2>1 DEF IInv, InFlightExact, Occupied, Serving, Transferring
  <2> QED BY <2>4, <2>5, <2>6 DEF IInv
<1>5. run_data_path_ops \/ Stop => UNCHANGED <<tasks, io_message, in_flight, completed, error_flag>>
  BY DEF run_data_path_ops, Stop, flags
<1>6. PeerSends \/ PeerReceives \/ UNCHANGED vars => UNCHANGED tvars
  BY DEF PeerSends, PeerReceives, vars
<1>7. \/ Next /\ Watched
      \/ PeerSends \/ PeerReceives \/ UNCHANGED vars
  BY DEF TNext, Done
<1>8. CASE Next /\ Watched
  BY <1>1, <1>2, <1>3, <1>5, <1>8 DEF Next
<1> QED BY <1>4, <1>6, <1>7, <1>8

(* The inductive invariant holds in every behaviour of the target.         *)
LEMMA Invariance == Spec => []IInv
<1>1. TInit => IInv
  BY InitInv
<1>2. IInv /\ [TNext]_vars => IInv'
  BY NextInv
<1> QED BY <1>1, <1>2, PTL DEF Spec

(* Every variable of the worker and of its links keeps its type, the       *)
(* unsigned in_flight_transaction_count included.                          *)
THEOREM TypeCorrect == Spec => []TypeOK
<1>1. IInv => TypeOK
  BY DEF IInv
<1> QED BY <1>1, Invariance, PTL

(* The callbacks of target_rdma.cpp never have two tasks of a slot         *)
(* submitted at once, whatever fails.                                      *)
THEOREM TasksExclusive == Spec => []OneTaskPerSlot
<1>1. IInv => OneTaskPerSlot
  <2> SUFFICES ASSUME IInv, NEW s \in Slots PROVE Cardinality(tasks[s]) <= 1
    BY DEF OneTaskPerSlot
  <2>1. CASE tasks[s] = {}
    BY <2>1, FS_EmptySet
  <2>2. ASSUME NEW x, tasks[s] = {x} PROVE Cardinality(tasks[s]) <= 1
    <3>1. Cardinality({x}) = 1
      BY FS_Singleton
    <3> QED BY <2>2, <3>1
  <2> QED BY <2>1, <2>2 DEF IInv, SlotInv
<1> QED BY <1>1, Invariance, PTL

(* The counter of the drain loop counts the requests being served.         *)
THEOREM CounterExact == Spec => []InFlightExact
<1>1. IInv => InFlightExact
  BY DEF IInv
<1> QED BY <1>1, Invariance, PTL

(* A worker that left run_data_path_ops without an error serves nothing.   *)
THEOREM Drained == Spec => []DrainedAtExit
<1>1. IInv => DrainedAtExit
  <2> SUFFICES ASSUME IInv, ~refused, phase = "exited", ~error_flag
               PROVE  \A s \in Slots : ~Serving(s)
    BY DEF DrainedAtExit
  <2>1. Cardinality(Occ) = 0
    BY DEF IInv, ExitInv, InFlightExact, Occ
  <2>2. Occ = {}
    BY <2>1, OccFinite, FS_EmptySet
  <2> QED BY <2>2 DEF Occ, Occupied
<1> QED BY <1>1, Invariance, PTL
=============================================================================
