------------------------ MODULE StorageDataPathProofs ------------------------
(***************************************************************************)
(* Proofs about StorageDataPath: for any number of transactions, blocks    *)
(* and buffers, the relay and the target together are the service that the *)
(* initiator's worker assumes (InitiatorStorage).                          *)
(***************************************************************************)
EXTENDS StorageDataPath, TLAPS

(* No failure that loses a message: neither the relay's tasks nor the      *)
(* submission and the sending of the target's responses fail.              *)
Lossless ==
    /\ RelayFaults \subseteq {"submit_initial"}
    /\ TargetFaults \cap {"submit_response", "send_error"} = {}

IsFcn(f, S) == f = [x \in S |-> f[x]]

(* A slot of the target runs one task at a time, in the direction that its *)
(* message asks for.                                                       *)
SlotInv ==
    /\ IsFcn(t_tasks, TargetSlots) /\ IsFcn(io_message, TargetSlots)
    /\ \A s \in TargetSlots :
         /\ \/ t_tasks[s] \in {{}, {"receive"}, {"send"}}
            \/ t_tasks[s] = {T!Transfer(io_message[s].type)}
         /\ t_phase = "start" => t_tasks[s] = {}

(* A request is in one place: on one of the two links or in one slot. *)
RequestInv ==
    /\ c2s \cap s2t = {}
    /\ \A s \in TargetSlots : T!Transferring(s) =>
         /\ io_message[s] \notin c2s \cup s2t
         /\ \A r \in TargetSlots : T!Transferring(r) /\ io_message[r] = io_message[s] => r = s

(* An answer is in one place: on one of the two links or in the buffer     *)
(* that the relay is submitting.                                           *)
AnswerInv ==
    /\ IsFcn(response, RelaySlots) /\ z_spin \in RelaySlots \cup {0}
    /\ \A m \in t2s, n \in s2c : m.id # n.id
    /\ \A m, n \in t2s : m.id = n.id => m = n
    /\ \A m, n \in s2c : m.id = n.id => m = n
    /\ z_spin # 0 => \A m \in t2s \cup s2c : m.id # response[z_spin].id

PathInv == SlotInv /\ RequestInv /\ AnswerInv

(* What the abstract invariant says of the messages: an open request is    *)
(* the one of its transaction, which has no answer; and nothing is open    *)
(* for the transaction whose request is being submitted.                   *)
OpenInv ==
    /\ \A m \in OpenRequests :
         /\ m.id \in Txns /\ m = io_request[m.id] /\ m.type \in {"read", "write"}
         /\ \A a \in OpenAnswers : a.id # m.id
    /\ \A a \in OpenAnswers : a.id \in Txns
    /\ i_spin \in Txns \cup {0}
    /\ i_spin # 0 =>
         /\ io_request[i_spin].id = i_spin
         /\ \A m \in OpenRequests \cup OpenAnswers : m.id # i_spin

-----------------------------------------------------------------------------
(* The worker of the initiator and that of the abstract specification *)

(* INSTANCE makes a copy of Cardinality for each of the modules. *)
LEMMA CardinalityCopies ==
    \A S : I!Cardinality(S) = Cardinality(S) /\ Abstract!Cardinality(S) = Cardinality(S)
BY DEF I!Cardinality, Abstract!Cardinality, Cardinality

(* The abstract worker is the initiator's one, on other links. *)
LEMMA SameRelease == \A t : I!Release(t) <=> Abstract!Release(t)
BY DEF I!Release, I!Progress, I!NextRequest, I!FinishTransaction, I!StartTransaction,
       I!Prepared, I!AfterRequest, I!Mismatch, I!InitialOps, I!pools, I!counters, I!flags,
       Abstract!Release, Abstract!Progress, Abstract!NextRequest, Abstract!FinishTransaction,
       Abstract!StartTransaction, Abstract!Prepared, Abstract!AfterRequest,
       Abstract!Mismatch, Abstract!InitialOps, Abstract!pools, Abstract!counters,
       Abstract!flags

(* And so is its start of a transaction. *)
LEMMA SameStart ==
    \A t, lp, sp : I!StartTransaction(t, lp, sp, FALSE)
                     <=> Abstract!StartTransaction(t, lp, sp, FALSE)
BY DEF I!NextRequest, I!StartTransaction, I!Prepared, I!AfterRequest, I!InitialOps,
       Abstract!NextRequest, Abstract!StartTransaction, Abstract!Prepared,
       Abstract!AfterRequest, Abstract!InitialOps

(* Nothing the abstract specification sees changes. *)
LEMMA Quiet ==
    ASSUME UNCHANGED <<ivars, host, disk>>, OpenRequests' = OpenRequests, AnswerIds' = AnswerIds
    PROVE  UNCHANGED Abstract!vars
BY DEF ivars, Abstract!vars, Abstract!wvars, Abstract!pools, Abstract!counters, Abstract!flags,
   Abstract!links

-----------------------------------------------------------------------------
(* The relay *)

(* No step of the relay is seen by the abstract specification, as long as  *)
(* it loses nothing: it moves requests to the target and answers back.     *)
LEMMA RelayQuiet ==
    ASSUME Lossless, PathInv, OpenInv, RelayStep
    PROVE  PathInv' /\ UNCHANGED Abstract!vars
<1> USE DEF PathInv
<1>0. /\ UNCHANGED <<ivars, tvars, host, disk>>
      /\ "submit" \notin RelayFaults /\ "task_error" \notin RelayFaults
  BY DEF RelayStep, Lossless
<1>1. SlotInv'
  BY <1>0 DEF tvars, SlotInv, IsFcn
<1>2. \A s \in TargetSlots : T!Transferring(s)' = T!Transferring(s)
  BY <1>0 DEF tvars, T!Transferring
<1>3. SUFFICES RequestInv' /\ AnswerInv' /\ OpenRequests' = OpenRequests /\ AnswerIds' = AnswerIds
  BY <1>0, <1>1, Quiet
<1>4. ASSUME UNCHANGED <<c2s, s2t>>
      PROVE  RequestInv' /\ OpenRequests' = OpenRequests
  BY <1>0, <1>2, <1>4 DEF tvars, RequestInv, OpenRequests, T!Transferring
<1>5. ASSUME UNCHANGED <<t2s, s2c, z_spin>>, z_spin # 0 => response' = response,
             IsFcn(response, RelaySlots)'
      PROVE  AnswerInv' /\ AnswerIds' = AnswerIds
  BY <1>5 DEF AnswerInv, AnswerIds, OpenAnswers
<1>6. CASE RelayStarts \/ RelayEnds \/ RelayStops
  BY <1>4, <1>5, <1>6 DEF RelayStarts, RelayEnds, RelayStops, Z!SubmitInitialTasks,
     Z!run_data_path_ops, Z!Stop, Z!buffers, Z!links, AnswerInv
<1>7. CASE Z!RequestSent \/ Z!ResponseSent
  <2>1. PICK s \in RelaySlots : Z!doca_rdma_task_send_cb(s) \/ Z!doca_comch_producer_task_send_cb(s)
    BY <1>7 DEF Z!RequestSent, Z!ResponseSent
  <2>2. UNCHANGED <<c2s, s2t, t2s, s2c, z_spin>> /\ z_spin = 0
    BY <2>1 DEF Z!doca_rdma_task_send_cb, Z!doca_comch_producer_task_send_cb, Z!links, Z!Polling
  <2>3. IsFcn(response, RelaySlots)'
    BY <2>1 DEF Z!doca_rdma_task_send_cb, Z!doca_comch_producer_task_send_cb, AnswerInv, IsFcn
  <2> QED BY <1>4, <1>5, <2>2, <2>3
<1>8. CASE Z!AnyTaskError
  BY <1>0, <1>8 DEF Z!AnyTaskError, Z!doca_comch_consumer_task_post_recv_error_cb,
     Z!doca_rdma_task_receive_error_cb, Z!doca_rdma_task_send_error_cb,
     Z!doca_comch_producer_task_send_error_cb
<1>9. CASE Z!ReceiveRequest
  <2>1. PICK s \in RelaySlots, m \in c2s : Z!doca_comch_consumer_task_post_recv_cb(s, m)
    BY <1>9 DEF Z!ReceiveRequest
  <2>2. /\ c2s' = c2s \ {m} /\ s2t' = s2t \cup {m}
        /\ UNCHANGED <<t2s, s2c, z_spin, response>>
    BY <1>0, <2>1 DEF Z!doca_comch_consumer_task_post_recv_cb
  <2>3. RequestInv' /\ OpenRequests' = OpenRequests
    BY <1>0, <1>2, <2>2 DEF tvars, RequestInv, OpenRequests, T!Transferring
  <2> QED BY <1>5, <2>2, <2>3 DEF AnswerInv, IsFcn
<1>10. CASE Z!ReceiveResponse
  <2>1. PICK s \in RelaySlots, m \in t2s : Z!doca_rdma_task_receive_cb(s, m)
    BY <1>10 DEF Z!ReceiveResponse
  <2>2. /\ t2s' = t2s \ {m} /\ z_spin = 0 /\ z_spin' = s /\ UNCHANGED <<c2s, s2t, s2c>>
        /\ response' = [response EXCEPT ![s] = [id |-> m.id, result |-> "SUCCESS"]]
    BY <2>1 DEF Z!doca_rdma_task_receive_cb, Z!Polling
  <2>3. response'[s].id = m.id /\ IsFcn(response, RelaySlots)' /\ s # 0
    BY <2>2, DataPathAssumption DEF AnswerInv, IsFcn
  <2>4. AnswerInv'
    BY <2>2, <2>3 DEF AnswerInv
  <2>5. AnswerIds' = AnswerIds
    <3>1. OpenAnswers = t2s \cup s2c /\ OpenAnswers' = (t2s \ {m}) \cup s2c \cup {response'[s]}
      BY <2>2, <2>3 DEF OpenAnswers
    <3> QED BY <2>3, <3>1 DEF AnswerIds
  <2> QED BY <1>4, <2>2, <2>4, <2>5
<1>11. CASE RelaySubmits
  <2>1. /\ z_spin # 0 /\ z_spin' = 0 /\ s2c' = s2c \cup {response[z_spin]}
        /\ UNCHANGED <<c2s, s2t, t2s, response>>
    BY <1>0, <1>11 DEF RelaySubmits, Z!SubmitResponse, Z!buffers
  <2>2. AnswerInv'
    BY <2>1 DEF AnswerInv, IsFcn
  <2>3. OpenAnswers' = OpenAnswers
    BY <2>1 DEF OpenAnswers
  <2> QED BY <1>4, <2>1, <2>2, <2>3 DEF AnswerIds
<1> QED BY <1>6, <1>7, <1>8, <1>9, <1>10, <1>11 DEF RelayStep

-----------------------------------------------------------------------------
(* The target *)

(* The answer to an open request has a place of its own. *)
LEMMA Answered ==
    ASSUME AnswerInv, OpenInv, NEW m \in OpenRequests, NEW answer, answer.id = m.id,
           t2s' = t2s \cup {answer}, UNCHANGED <<zvars, s2c>>
    PROVE  AnswerInv' /\ AnswerIds' = AnswerIds \cup {[id |-> m.id]}
<1>1. UNCHANGED <<z_spin, response>>
  BY DEF zvars
<1>2. OpenAnswers' = OpenAnswers \cup {answer}
  BY <1>1 DEF OpenAnswers
<1>3. \A a \in OpenAnswers : a.id # m.id
  BY DEF OpenInv
<1>4. AnswerIds' = AnswerIds \cup {[id |-> m.id]}
  BY <1>2 DEF AnswerIds
<1>5. AnswerInv'
  BY <1>1, <1>3 DEF AnswerInv, IsFcn, OpenAnswers
<1> QED BY <1>4, <1>5

(* Only slot s of the target changes. *)
OnlySlot(s) ==
    \A r \in TargetSlots \ {s} : t_tasks'[r] = t_tasks[r] /\ io_message'[r] = io_message[r]

(* The answers do not change. *)
LEMMA AnswersKept ==
    ASSUME AnswerInv, UNCHANGED <<zvars, t2s, s2c>>
    PROVE  AnswerInv' /\ AnswerIds' = AnswerIds
BY DEF AnswerInv, AnswerIds, OpenAnswers, zvars, IsFcn

(* A slot that held no request holds none afterwards either. *)
LEMMA SlotIdle ==
    ASSUME PathInv, NEW s \in TargetSlots, OnlySlot(s), ~T!Transferring(s),
           t_tasks'[s] \in {{}, {"receive"}, {"send"}}, UNCHANGED <<c2s, s2t>>,
           IsFcn(t_tasks, TargetSlots)', IsFcn(io_message, TargetSlots)',
           t_phase' = t_phase, t_phase # "start"
    PROVE  SlotInv' /\ RequestInv' /\ OpenRequests' = OpenRequests
<1>1. SlotInv'
  BY DEF PathInv, SlotInv, OnlySlot
<1>2. \A r \in TargetSlots : /\ T!Transferring(r)' = T!Transferring(r)
                             /\ T!Transferring(r) => io_message'[r] = io_message[r]
  BY DEF OnlySlot, T!Transferring
<1>3. OpenRequests' = OpenRequests
  BY <1>2 DEF OpenRequests
<1>4. RequestInv'
  BY <1>2 DEF PathInv, RequestInv
<1> QED BY <1>1, <1>3, <1>4

(* The request m of slot s is answered: it is in no other place. *)
LEMMA SlotServed ==
    ASSUME PathInv, NEW s \in TargetSlots, OnlySlot(s), T!Transferring(s),
           t_tasks'[s] = {"send"}, UNCHANGED <<c2s, s2t>>,
           IsFcn(t_tasks, TargetSlots)', IsFcn(io_message, TargetSlots)',
           t_phase' = t_phase, t_phase # "start"
    PROVE  /\ SlotInv' /\ RequestInv'
           /\ io_message[s] \in OpenRequests /\ OpenRequests' = OpenRequests \ {io_message[s]}
<1>1. SlotInv'
  BY DEF PathInv, SlotInv, OnlySlot
<1>2. \A r \in TargetSlots \ {s} : /\ T!Transferring(r)' = T!Transferring(r)
                                   /\ io_message'[r] = io_message[r]
  BY DEF OnlySlot, T!Transferring
<1>3. ~T!Transferring(s)'
  BY DEF T!Transferring
<1>4. io_message[s] \in OpenRequests /\ OpenRequests' = OpenRequests \ {io_message[s]}
  BY <1>2, <1>3 DEF OpenRequests, PathInv, RequestInv
<1>5. RequestInv'
  BY <1>2, <1>3 DEF PathInv, RequestInv
<1> QED BY <1>1, <1>4, <1>5

(* A request that arrives at slot s moves into it. *)
LEMMA SlotTakes ==
    ASSUME PathInv, OpenInv, NEW s \in TargetSlots, NEW m \in s2t, OnlySlot(s),
           ~T!Transferring(s),
           t_tasks'[s] = {T!Transfer(m.type)}, io_message'[s] = m,
           s2t' = s2t \ {m}, UNCHANGED c2s,
           IsFcn(t_tasks, TargetSlots)', IsFcn(io_message, TargetSlots)',
           t_phase' = t_phase, t_phase # "start"
    PROVE  SlotInv' /\ RequestInv' /\ OpenRequests' = OpenRequests
<1>1. SlotInv'
  BY DEF PathInv, SlotInv, OnlySlot
<1>2. \A r \in TargetSlots \ {s} : /\ T!Transferring(r)' = T!Transferring(r)
                                   /\ io_message'[r] = io_message[r]
  BY DEF OnlySlot, T!Transferring
<1>3. T!Transferring(s)'
  BY Zenon DEF T!Transferring, T!Transfer
<1>4. OpenRequests' = OpenRequests
  BY <1>2, <1>3 DEF OpenRequests
<1>5. RequestInv'
  BY <1>2, <1>3 DEF PathInv, RequestInv
<1> QED BY <1>1, <1>4, <1>5

(* The request m on the link is answered without a transfer. *)
LEMMA LinkServed ==
    ASSUME PathInv, NEW s \in TargetSlots, NEW m \in s2t, OnlySlot(s), ~T!Transferring(s),
           t_tasks'[s] = {"send"}, s2t' = s2t \ {m}, UNCHANGED c2s,
           IsFcn(t_tasks, TargetSlots)', IsFcn(io_message, TargetSlots)',
           t_phase' = t_phase, t_phase # "start"
    PROVE  /\ SlotInv' /\ RequestInv'
           /\ m \in OpenRequests /\ OpenRequests' = OpenRequests \ {m}
<1>1. SlotInv'
  BY DEF PathInv, SlotInv, OnlySlot
<1>2. \A r \in TargetSlots \ {s} : /\ T!Transferring(r)' = T!Transferring(r)
                                   /\ io_message'[r] = io_message[r]
  BY DEF OnlySlot, T!Transferring
<1>3. ~T!Transferring(s)'
  BY DEF T!Transferring
<1>4. m \in OpenRequests /\ OpenRequests' = OpenRequests \ {m}
  BY <1>2, <1>3 DEF OpenRequests, PathInv, RequestInv
<1>5. RequestInv'
  BY <1>2, <1>3 DEF PathInv, RequestInv
<1> QED BY <1>1, <1>4, <1>5

(* What the abstract specification sees of the answer to request m: a step *)
(* of its service, or a failure that it may have.                          *)
LEMMA ServiceFails ==
    ASSUME NEW m \in OpenRequests, OpenRequests' = OpenRequests \ {m},
           AnswerIds' = AnswerIds \cup {[id |-> m.id]},
           UNCHANGED <<ivars, host, disk>>,
           TargetFaults \cap {"transfer_error", "submit_transfer"} # {}
    PROVE  Abstract!ServeAnyFails
<1>1. UNCHANGED Abstract!wvars
  BY DEF ivars, Abstract!wvars, Abstract!pools, Abstract!counters, Abstract!flags
<1> QED BY <1>1 DEF Abstract!ServeAnyFails, Abstract!ServeFails

(* A request that arrives is taken, or refused by the queue pair. *)
LEMMA TargetReceives ==
    ASSUME Lossless, PathInv, OpenInv, T!ReceiveRequest, UNCHANGED <<ivars, zvars, c2s, s2c>>
    PROVE  /\ PathInv'
           /\ \/ UNCHANGED Abstract!vars
              \/ Abstract!ServeAnyFails /\ "submit_transfer" \in TargetFaults
<1>1. PICK s \in TargetSlots, m \in s2t : T!doca_rdma_task_receive_cb(s, m)
  BY DEF T!ReceiveRequest
<1>2. /\ t_phase = "run" /\ UNCHANGED <<t_phase, host, disk>> /\ s2t' = s2t \ {m}
      /\ "receive" \in t_tasks[s]
  BY <1>1 DEF T!doca_rdma_task_receive_cb, T!Polling, T!memory
<1>3. t_tasks[s] = {"receive"} /\ ~T!Transferring(s)
  BY <1>2 DEF PathInv, SlotInv, T!Transferring, T!Transfer
<1>4. m \in OpenRequests /\ m.type \in {"read", "write"}
  BY DEF OpenInv, OpenRequests
<1>5. CASE /\ T!Swap(s, "receive", T!Transfer(m.type))
           /\ io_message' = [io_message EXCEPT ![s] = m] /\ UNCHANGED t2s
  <2>1. /\ OnlySlot(s) /\ t_tasks'[s] = {T!Transfer(m.type)} /\ io_message'[s] = m
        /\ IsFcn(t_tasks, TargetSlots)' /\ IsFcn(io_message, TargetSlots)'
    BY Zenon, <1>3, <1>5 DEF T!Swap, PathInv, SlotInv, IsFcn, OnlySlot
  <2>2. SlotInv' /\ RequestInv' /\ OpenRequests' = OpenRequests
    BY <1>2, <1>3, <2>1, SlotTakes
  <2> QED BY <1>2, <1>5, <2>2, AnswersKept, Quiet DEF PathInv
<1>6. CASE "submit_transfer" \in TargetFaults /\ T!SubmitResponse(s, "receive", m, "ERROR")
  <2> DEFINE answer == [id |-> m.id, result |-> "ERROR"]
  <2>1. /\ T!Swap(s, "receive", "send") /\ t2s' = t2s \cup {answer}
        /\ io_message' = [io_message EXCEPT ![s] = answer]
    BY <1>6 DEF T!SubmitResponse, Lossless
  <2>2. /\ OnlySlot(s) /\ t_tasks'[s] = {"send"}
        /\ IsFcn(t_tasks, TargetSlots)' /\ IsFcn(io_message, TargetSlots)'
    BY Zenon, <1>3, <2>1 DEF T!Swap, PathInv, SlotInv, IsFcn, OnlySlot
  <2>3. SlotInv' /\ RequestInv' /\ OpenRequests' = OpenRequests \ {m}
    BY <1>2, <1>3, <2>2, LinkServed
  <2>4. AnswerInv' /\ AnswerIds' = AnswerIds \cup {[id |-> m.id]}
    BY Zenon, <1>4, <2>1, Answered DEF PathInv
  <2>5. Abstract!ServeAnyFails
    BY <1>2, <1>4, <1>6, <2>3, <2>4, ServiceFails
  <2> QED BY <1>6, <2>3, <2>4, <2>5 DEF PathInv
<1> QED BY <1>1, <1>4, <1>5, <1>6 DEF T!doca_rdma_task_receive_cb

(* The transfer of a slot ends: its request is carried out, or fails and   *)
(* the target records an error.                                            *)
LEMMA TargetTransfers ==
    ASSUME Lossless, PathInv, OpenInv, T!TransferDone \/ T!TransferFailed,
           UNCHANGED <<ivars, zvars, c2s, s2c>>
    PROVE  PathInv' /\ (Abstract!ServeAny \/ (Abstract!ServeAnyFails /\ t_error_flag'))
<1>1. PICK s \in TargetSlots : T!on_transfer_complete(s) \/ T!on_transfer_error(s)
  BY DEF T!TransferDone, T!TransferFailed
<1> DEFINE m == io_message[s]
<1>2. /\ t_phase = "run" /\ UNCHANGED <<t_phase, s2t>>
      /\ T!Transferring(s)
  BY <1>1 DEF T!on_transfer_complete, T!on_transfer_error, T!Polling, T!Transferring
<1>3. t_tasks[s] = {T!Transfer(m.type)} /\ T!Transfer(m.type) \in {"read", "write"}
  BY <1>2 DEF PathInv, SlotInv, T!Transferring, T!Transfer
<1>4. m \in OpenRequests /\ m.type \in {"read", "write"}
  BY <1>2 DEF OpenInv, OpenRequests
<1>5. ASSUME NEW result, T!SubmitResponse(s, T!Transfer(m.type), m, result)
      PROVE  /\ PathInv' /\ OpenRequests' = OpenRequests \ {m}
             /\ AnswerIds' = AnswerIds \cup {[id |-> m.id]}
  <2> DEFINE answer == [id |-> m.id, result |-> result]
  <2>1. /\ T!Swap(s, T!Transfer(m.type), "send") /\ t2s' = t2s \cup {answer}
        /\ io_message' = [io_message EXCEPT ![s] = answer]
    BY <1>5 DEF T!SubmitResponse, Lossless
  <2>2. /\ OnlySlot(s) /\ t_tasks'[s] = {"send"}
        /\ IsFcn(t_tasks, TargetSlots)' /\ IsFcn(io_message, TargetSlots)'
    BY Zenon, <1>3, <2>1 DEF T!Swap, PathInv, SlotInv, IsFcn, OnlySlot
  <2>3. SlotInv' /\ RequestInv' /\ OpenRequests' = OpenRequests \ {m}
    BY <1>2, <2>2, SlotServed
  <2>4. AnswerInv' /\ AnswerIds' = AnswerIds \cup {[id |-> m.id]}
    BY Zenon, <1>4, <2>1, Answered DEF PathInv
  <2> QED BY <2>3, <2>4 DEF PathInv
<1>6. CASE T!on_transfer_complete(s)
  <2>1. /\ T!SubmitResponse(s, T!Transfer(m.type), m, "SUCCESS")
        /\ IF T!Transfer(m.type) = "write"
             THEN host' = [host EXCEPT ![m.local] = disk[m.storage]] /\ UNCHANGED disk
             ELSE disk' = [disk EXCEPT ![m.storage] = host[m.local]] /\ UNCHANGED host
    BY <1>3, <1>6 DEF T!on_transfer_complete
  <2>2. Abstract!Serve(m)
    BY <1>4, <1>5, <2>1 DEF Abstract!Serve, T!Transfer, ivars, Abstract!wvars, Abstract!pools,
       Abstract!counters, Abstract!flags
  <2> QED BY <1>4, <1>5, <2>1, <2>2 DEF Abstract!ServeAny
<1>7. CASE T!on_transfer_error(s)
  <2>1. /\ T!SubmitResponse(s, T!Transfer(m.type), m, "IO_FAILED")
        /\ "transfer_error" \in TargetFaults /\ t_error_flag' /\ UNCHANGED <<host, disk>>
    BY <1>3, <1>7 DEF T!on_transfer_error, T!memory
  <2>2. Abstract!ServeAnyFails
    BY <1>4, <1>5, <2>1, ServiceFails
  <2> QED BY <1>5, <2>1, <2>2
<1> QED BY <1>1, <1>6, <1>7

(* A step of the target that the abstract specification sees carries out   *)
(* one request, or fails to.                                               *)
LEMMA TargetServes ==
    ASSUME Lossless, PathInv, OpenInv, TargetStep
    PROVE  /\ PathInv'
           /\ \/ UNCHANGED Abstract!vars
              \/ Abstract!ServeAny
              \/ Abstract!ServeAnyFails /\ ("submit_transfer" \in TargetFaults \/ t_error_flag')
<1>0. /\ UNCHANGED <<ivars, zvars, c2s, s2c>>
      /\ "submit_response" \notin TargetFaults /\ "send_error" \notin TargetFaults
  BY DEF TargetStep, Lossless
<1>1. CASE T!ReceiveRequest
  BY <1>0, <1>1, TargetReceives
<1>2. CASE T!TransferDone \/ T!TransferFailed
  BY <1>0, <1>2, TargetTransfers
<1>3. ASSUME SlotInv', RequestInv', OpenRequests' = OpenRequests, UNCHANGED <<t2s, host, disk>>
      PROVE  PathInv' /\ UNCHANGED Abstract!vars
  BY <1>0, <1>3, AnswersKept, Quiet DEF PathInv
<1>4. CASE T!SubmitInitialTasks
  <2>1. /\ t_phase = "start" /\ t_phase' # "start"
        /\ UNCHANGED <<io_message, s2t, t2s, host, disk>>
        /\ IsFcn(t_tasks, TargetSlots)'
        /\ \A s \in TargetSlots : t_tasks'[s] \in {{}, {"receive"}}
    BY <1>4 DEF T!SubmitInitialTasks, T!memory, IsFcn
  <2>2. \A s \in TargetSlots : ~T!Transferring(s) /\ ~T!Transferring(s)'
    BY <2>1 DEF PathInv, SlotInv, T!Transferring
  <2>3. SlotInv'
    BY <2>1 DEF PathInv, SlotInv, IsFcn
  <2>4. RequestInv' /\ OpenRequests' = OpenRequests
    BY <1>0, <2>1, <2>2 DEF PathInv, RequestInv, OpenRequests
  <2> QED BY <1>3, <2>1, <2>3, <2>4
<1>5. CASE T!run_data_path_ops \/ TargetStops
  <2>1. /\ t_phase = "run" /\ t_phase' # "start"
        /\ UNCHANGED <<t_tasks, io_message, s2t, t2s, host, disk>>
    BY <1>5 DEF T!run_data_path_ops, TargetStops, T!Stop, T!memory
  <2>2. \A s \in TargetSlots : T!Transferring(s)' = T!Transferring(s)
    BY <2>1 DEF T!Transferring
  <2>3. SlotInv'
    BY <2>1 DEF PathInv, SlotInv, IsFcn
  <2>4. RequestInv' /\ OpenRequests' = OpenRequests
    BY <1>0, <2>1, <2>2 DEF PathInv, RequestInv, OpenRequests
  <2> QED BY <1>3, <2>1, <2>3, <2>4
<1>6. CASE T!ReceiveFailed
  <2>1. PICK s \in TargetSlots : T!doca_rdma_task_receive_error_cb(s)
    BY <1>6 DEF T!ReceiveFailed
  <2>2. /\ t_phase = "run" /\ UNCHANGED <<t_phase, io_message, s2t, t2s, host, disk>>
        /\ "receive" \in t_tasks[s] /\ T!Drop(s, "receive")
    BY <2>1 DEF T!doca_rdma_task_receive_error_cb, T!memory
  <2>3. t_tasks[s] = {"receive"} /\ ~T!Transferring(s)
    BY <2>2 DEF PathInv, SlotInv, T!Transferring, T!Transfer
  <2>4. /\ OnlySlot(s) /\ t_tasks'[s] = {}
        /\ IsFcn(t_tasks, TargetSlots)' /\ IsFcn(io_message, TargetSlots)'
    BY <2>2, <2>3 DEF T!Drop, PathInv, SlotInv, IsFcn, OnlySlot
  <2> QED BY <1>0, <1>3, <2>2, <2>3, <2>4, SlotIdle
<1>7. CASE T!ResponseSent
  <2>1. PICK s \in TargetSlots : T!doca_rdma_task_send_cb(s)
    BY <1>7 DEF T!ResponseSent
  <2>2. /\ t_phase = "run" /\ UNCHANGED <<t_phase, s2t, t2s, host, disk>>
        /\ "send" \in t_tasks[s] /\ (T!Swap(s, "send", "receive") \/ T!Drop(s, "send"))
        /\ io_message' = [io_message EXCEPT ![s] = T!NoMessage]
    BY <2>1 DEF T!doca_rdma_task_send_cb, T!memory, T!Polling
  <2>3. t_tasks[s] = {"send"} /\ ~T!Transferring(s)
    BY <2>2 DEF PathInv, SlotInv, T!Transferring, T!Transfer
  <2>4. /\ OnlySlot(s) /\ t_tasks'[s] \in {{}, {"receive"}}
        /\ IsFcn(t_tasks, TargetSlots)' /\ IsFcn(io_message, TargetSlots)'
    BY <2>2, <2>3 DEF T!Swap, T!Drop, PathInv, SlotInv, IsFcn, OnlySlot
  <2> QED BY Zenon, <1>0, <1>3, <2>2, <2>3, <2>4, SlotIdle
<1>8. CASE T!ResponseFailed
  BY Zenon, <1>0, <1>8 DEF T!ResponseFailed, T!doca_rdma_task_send_error_cb
<1> QED BY <1>1, <1>2, <1>4, <1>5, <1>6, <1>7, <1>8 DEF TargetStep

-----------------------------------------------------------------------------
(* The initiator *)

(* The relay and the target keep what they hold. *)
LEMMA OthersKept ==
    ASSUME PathInv, UNCHANGED <<zvars, tvars, s2t, t2s>>
    PROVE  /\ SlotInv'
           /\ \A s \in TargetSlots : T!Transferring(s)' = T!Transferring(s)
           /\ UNCHANGED <<z_spin, response, io_message>> /\ IsFcn(response, RelaySlots)'
<1>1. UNCHANGED <<z_spin, response, io_message, t_tasks, t_phase>>
  BY DEF zvars, tvars
<1> QED BY <1>1 DEF PathInv, SlotInv, AnswerInv, IsFcn, T!Transferring

(* As long as the first link is left alone, so are the open requests. *)
LEMMA RequestsKept ==
    ASSUME PathInv, UNCHANGED <<zvars, tvars, s2t, t2s, c2s>>
    PROVE  RequestInv' /\ OpenRequests' = OpenRequests
BY OthersKept DEF PathInv, RequestInv, OpenRequests

(* What a step of the worker does to the links, in the terms of the        *)
(* abstract specification.                                                 *)
LEMMA RequestAdded ==
    ASSUME PathInv, OpenInv, i_spin # 0, c2s' = c2s \cup {io_request[i_spin]},
           UNCHANGED <<zvars, tvars, s2t, t2s>>
    PROVE  RequestInv' /\ OpenRequests' = OpenRequests \cup {io_request[i_spin]}
<1>1. io_request[i_spin] \notin OpenRequests
  BY DEF OpenInv
<1> QED BY <1>1, OthersKept DEF PathInv, RequestInv, OpenRequests

(* A request whose send task fails is lost. *)
LEMMA RequestLost ==
    ASSUME PathInv, NEW m \in c2s, c2s' = c2s \ {m}, UNCHANGED <<zvars, tvars, s2t, t2s>>
    PROVE  RequestInv' /\ m \in OpenRequests /\ OpenRequests' = OpenRequests \ {m}
BY OthersKept DEF PathInv, RequestInv, OpenRequests

(* An answer that the worker takes was the only one with its id. *)
LEMMA AnswerTaken ==
    ASSUME PathInv, NEW m \in s2c, s2c' = s2c \ {m}, UNCHANGED <<zvars, tvars, s2t, t2s>>
    PROVE  /\ AnswerInv'
           /\ [id |-> m.id] \in AnswerIds /\ AnswerIds' = AnswerIds \ {[id |-> m.id]}
<1>1. UNCHANGED <<z_spin, response>> /\ IsFcn(response, RelaySlots)'
  BY OthersKept
<1>2. AnswerInv'
  BY <1>1 DEF PathInv, AnswerInv
<1>3. m \in OpenAnswers /\ OpenAnswers' = OpenAnswers \ {m}
  BY <1>1 DEF OpenAnswers, PathInv, AnswerInv
<1>4. \A a \in OpenAnswers : a.id = m.id => a = m
  BY DEF OpenAnswers, PathInv, AnswerInv
<1>5. \A a \in OpenAnswers : [id |-> a.id] = [id |-> m.id] => a = m
  BY <1>4
<1> QED BY <1>2, <1>3, <1>5 DEF AnswerIds

(* Every step of the initiator's worker is one of the abstract worker.     *)
LEMMA InitiatorSteps ==
    ASSUME PathInv, OpenInv, InitiatorStep
    PROVE  PathInv' /\ Abstract!Next /\ UNCHANGED disk
<1>0. UNCHANGED <<zvars, tvars, s2t, t2s, disk>>
  BY DEF InitiatorStep
<1>1. SlotInv'
  BY <1>0, OthersKept
<1>2. UNCHANGED c2s => RequestInv' /\ OpenRequests' = OpenRequests
  BY <1>0, RequestsKept
<1>3. UNCHANGED s2c => AnswerInv' /\ AnswerIds' = AnswerIds
  BY <1>0, AnswersKept DEF PathInv
<1>c. I!ReceiveCount = Abstract!ReceiveCount /\ \A a, b : I!Lesser(a, b) = Abstract!Lesser(a, b)
  BY CardinalityCopies DEF I!ReceiveCount, Abstract!ReceiveCount, I!Lesser, Abstract!Lesser
<1> USE DEF I!pools, I!counters, I!flags, I!links, I!Polling, I!Fail,
            Abstract!pools, Abstract!counters, Abstract!flags, Abstract!links,
            Abstract!Polling, Abstract!Fail, PathInv
<1>4. CASE InitiatorStarts
  <2>1. UNCHANGED <<c2s, s2c>>
    BY Zenon, <1>4 DEF InitiatorStarts, I!SubmitResponseTasks, I!StartInitial, I!StartPolling
  <2>2. I!SubmitResponseTasks => Abstract!SubmitResponseTasks
    BY <1>2, <1>3, <1>c, <2>1 DEF I!SubmitResponseTasks, Abstract!SubmitResponseTasks
  <2>3. I!StartInitial => Abstract!StartInitial
    BY Zenon, <1>2, <1>3, <1>c, <2>1, CardinalityCopies, SameStart DEF I!StartInitial,
       Abstract!StartInitial
  <2>4. I!StartPolling => Abstract!StartPolling
    BY <1>2, <1>3, <1>c, <2>1, CardinalityCopies DEF I!StartPolling, Abstract!StartPolling
  <2> QED BY <1>0, <1>1, <1>2, <1>3, <1>4, <2>1, <2>2, <2>3, <2>4 DEF InitiatorStarts,
     Abstract!Next
<1>5. CASE InitiatorEnds
  <2>1. UNCHANGED <<c2s, s2c>>
    BY <1>5 DEF InitiatorEnds, I!run_data_path_ops
  <2>2. Abstract!run_data_path_ops
    BY <1>2, <1>3, <1>5, <2>1 DEF InitiatorEnds, I!run_data_path_ops, Abstract!run_data_path_ops
  <2> QED BY <1>0, <1>1, <1>2, <1>3, <2>1, <2>2 DEF Abstract!Next
<1>6. CASE InitiatorReposts
  <2>1. UNCHANGED <<c2s, s2c>>
    BY <1>6 DEF InitiatorReposts, I!RepostReceive
  <2>2. Abstract!RepostReceive
    BY <1>2, <1>3, <1>6, <2>1 DEF InitiatorReposts, I!RepostReceive, Abstract!RepostReceive
  <2> QED BY <1>0, <1>1, <1>2, <1>3, <2>1, <2>2 DEF Abstract!Next
<1>7. CASE InitiatorSent
  <2>1. UNCHANGED <<c2s, s2c>>
    BY <1>7 DEF InitiatorSent, I!doca_comch_producer_task_send_cb
  <2>2. Abstract!doca_comch_producer_task_send_cb
    BY <1>2, <1>3, <1>7, <2>1, SameRelease
       DEF InitiatorSent, I!doca_comch_producer_task_send_cb,
          Abstract!doca_comch_producer_task_send_cb
  <2> QED BY <1>0, <1>1, <1>2, <1>3, <2>1, <2>2 DEF Abstract!Next
<1>8. CASE InitiatorSubmits
  <2>1. i_spin # 0 /\ c2s' = c2s \cup {io_request[i_spin]} /\ UNCHANGED s2c
    BY <1>8 DEF InitiatorSubmits, I!SubmitRequest
  <2>2. RequestInv' /\ OpenRequests' = OpenRequests \cup {io_request[i_spin]}
    BY <1>0, <2>1, RequestAdded
  <2>3. Abstract!SubmitRequest
    BY <1>3, <1>8, <2>1, <2>2 DEF InitiatorSubmits, I!SubmitRequest, Abstract!SubmitRequest
  <2> QED BY <1>0, <1>1, <1>3, <2>1, <2>2, <2>3 DEF Abstract!Next
<1>9. CASE InitiatorReceives
  <2>1. PICK m \in s2c :
          /\ s2c' = s2c \ {m}
          /\ IF m.id \in Txns
               THEN I!Release(m.id) /\ repost' = TRUE
               ELSE /\ I!Fail
                    /\ UNCHANGED <<pending_actions, refcount, io_request, I!pools, I!counters,
                                   i_spin, repost, host>>
    BY <1>9 DEF InitiatorReceives, I!doca_comch_consumer_task_post_recv_cb
  <2>2. AnswerInv' /\ [id |-> m.id] \in AnswerIds /\ AnswerIds' = AnswerIds \ {[id |-> m.id]}
    BY <1>0, <2>1, AnswerTaken
  <2>3. m.id \in Txns
    BY DEF OpenInv, OpenAnswers
  <2>4. Abstract!Release(m.id) /\ repost' = TRUE
    BY <2>1, <2>3, SameRelease
  <2>5. /\ I!Polling /\ posted > 0 /\ posted' = posted - 1
        /\ UNCHANGED <<i_phase, sending, c2s>>
    BY <1>9 DEF InitiatorReceives, I!doca_comch_consumer_task_post_recv_cb
  <2>6. Abstract!doca_comch_consumer_task_post_recv_cb
    <3> DEFINE a == [id |-> m.id]
    <3>1. a \in AnswerIds /\ AnswerIds' = AnswerIds \ {a} /\ a.id \in Txns
          /\ Abstract!Release(a.id) /\ repost' = TRUE
      BY <2>2, <2>3, <2>4
    <3> HIDE DEF a
    <3> QED BY Zenon, <1>2, <2>5, <3>1 DEF Abstract!doca_comch_consumer_task_post_recv_cb
  <2> QED BY <1>0, <1>1, <1>2, <2>2, <2>5, <2>6 DEF Abstract!Next
<1>10. CASE I!SubmitRequestFails \/ I!doca_comch_consumer_task_post_recv_error_cb
  <2>1. UNCHANGED <<c2s, s2c>>
    BY <1>10 DEF I!SubmitRequestFails, I!doca_comch_consumer_task_post_recv_error_cb
  <2>2. I!SubmitRequestFails => Abstract!SubmitRequestFails
    BY <1>2, <1>3, <2>1 DEF I!SubmitRequestFails, Abstract!SubmitRequestFails
  <2>3. I!doca_comch_consumer_task_post_recv_error_cb
          => Abstract!doca_comch_consumer_task_post_recv_error_cb
    BY <1>2, <1>3, <2>1 DEF I!doca_comch_consumer_task_post_recv_error_cb,
       Abstract!doca_comch_consumer_task_post_recv_error_cb
  <2> QED BY <1>0, <1>1, <1>2, <1>3, <1>10, <2>1, <2>2, <2>3 DEF Abstract!Next
<1>11. CASE I!doca_comch_producer_task_send_error_cb
  <2>1. PICK t \in sending : /\ io_request[t] \in c2s
                             /\ sending' = sending \ {t}
                             /\ c2s' = c2s \ {io_request[t]}
    BY <1>11 DEF I!doca_comch_producer_task_send_error_cb
  <2>2. UNCHANGED s2c
    BY <1>11 DEF I!doca_comch_producer_task_send_error_cb
  <2>3. /\ RequestInv' /\ io_request[t] \in OpenRequests
        /\ OpenRequests' = OpenRequests \ {io_request[t]}
    BY <1>0, <2>1, RequestLost
  <2>4. Abstract!doca_comch_producer_task_send_error_cb
    BY <1>3, <1>11, <2>1, <2>2, <2>3
       DEF I!doca_comch_producer_task_send_error_cb,
          Abstract!doca_comch_producer_task_send_error_cb
  <2> QED BY <1>0, <1>1, <1>3, <2>2, <2>3, <2>4 DEF Abstract!Next
<1> QED BY <1>4, <1>5, <1>6, <1>7, <1>8, <1>9, <1>10, <1>11 DEF InitiatorStep, InitiatorFails

-----------------------------------------------------------------------------
(* The refinement *)

(* Nothing is open when the three workers start. *)
LEMMA PathInit == Init => PathInv /\ Abstract!SInit
<1> SUFFICES ASSUME Init PROVE PathInv /\ Abstract!SInit
  OBVIOUS
<1>1. /\ c2s = {} /\ s2c = {} /\ s2t = {} /\ t2s = {} /\ z_spin = 0
      /\ response = [s \in RelaySlots |-> Z!NoMessage]
      /\ t_tasks = [s \in TargetSlots |-> {}]
      /\ io_message = [s \in TargetSlots |-> T!NoMessage]
  BY DEF Init, I!Init, Z!Init, T!Init
<1>2. \A s \in TargetSlots : ~T!Transferring(s)
  BY <1>1 DEF T!Transferring
<1>3. PathInv
  BY <1>1, <1>2 DEF PathInv, SlotInv, RequestInv, AnswerInv, IsFcn
<1>4. OpenRequests = {} /\ AnswerIds = {}
  BY <1>1, <1>2 DEF OpenRequests, OpenAnswers, AnswerIds
<1>5. Abstract!SInit
  BY <1>4 DEF Init, I!Init, I!LocalBlocks, I!StorageBlocks, I!Lesser, Abstract!SInit,
     Abstract!Init,
     Abstract!InitialDisk, Abstract!LocalBlocks, Abstract!StorageBlocks, Abstract!Lesser
<1> QED BY <1>3, <1>5

(* What the abstract specification sees of a step. A request fails there   *)
(* when its transfer is refused or fails on the target.                    *)
Seen ==
    \/ UNCHANGED Abstract!vars
    \/ Abstract!Next /\ UNCHANGED disk
    \/ Abstract!ServeAny
    \/ Abstract!ServeAnyFails /\ ("submit_transfer" \in TargetFaults \/ t_error_flag')

(* Every step of the data path is one of the abstract specification, or is *)
(* not seen by it.                                                         *)
LEMMA PathStep ==
    ASSUME Lossless, PathInv, OpenInv, [Next]_vars
    PROVE  PathInv' /\ Seen
<1>1. CASE InitiatorStep
  BY <1>1, InitiatorSteps DEF Seen
<1>2. CASE RelayStep
  BY <1>2, RelayQuiet DEF Seen
<1>3. CASE TargetStep
  BY <1>3, TargetServes DEF Seen
<1>4. CASE UNCHANGED vars
  <2>1. UNCHANGED <<ivars, zvars, tvars, c2s, s2t, t2s, s2c, host, disk>>
    BY <1>4 DEF vars
  <2>2. PathInv' /\ OpenRequests' = OpenRequests /\ AnswerIds' = AnswerIds
    BY <2>1, OthersKept, RequestsKept, AnswersKept DEF PathInv
  <2> QED BY <2>1, <2>2, Quiet DEF Seen
<1> QED BY <1>1, <1>2, <1>3, <1>4 DEF Next, Done

(* The target does not forget an error. *)
LEMMA ErrorStays == t_error_flag /\ [Next]_vars => t_error_flag'
<1> SUFFICES ASSUME t_error_flag, [Next]_vars PROVE t_error_flag'
  OBVIOUS
<1>1. CASE InitiatorStep \/ RelayStep \/ UNCHANGED vars
  BY Zenon, <1>1 DEF InitiatorStep, RelayStep, vars, tvars
<1>2. CASE TargetStep
  BY Zenon, <1>2 DEF TargetStep, TargetStops, T!flags, T!SubmitInitialTasks, T!run_data_path_ops,
     T!Stop, T!ReceiveRequest, T!ReceiveFailed, T!TransferDone, T!TransferFailed,
     T!ResponseSent, T!ResponseFailed, T!doca_rdma_task_receive_cb,
     T!doca_rdma_task_receive_error_cb, T!on_transfer_complete, T!on_transfer_error,
     T!doca_rdma_task_send_cb, T!doca_rdma_task_send_error_cb
<1> QED BY <1>1, <1>2 DEF Next, Done

-----------------------------------------------------------------------------
(* The invariant of the abstract specification *)

(* The abstract specification, with what InitiatorProofs proves of it. *)
P == INSTANCE InitiatorProofs WITH
    completed <- i_completed, run_flag <- i_run_flag, error_flag <- i_error_flag,
    phase <- i_phase, spin <- i_spin, c2s <- OpenRequests, s2c <- AnswerIds,
    ServiceFaults <- IF TargetFaults \cap {"transfer_error", "submit_transfer"} = {}
                     THEN {} ELSE {"io_error"}

(* The abstract specification of the refinement is the one of the proofs.  *)
LEMMA SameInit == P!SInit <=> Abstract!SInit
BY Zenon DEF P!SInit, P!Init, P!InitialDisk, P!LocalBlocks, P!StorageBlocks, P!Lesser,
       Abstract!SInit, Abstract!Init, Abstract!InitialDisk, Abstract!LocalBlocks,
       Abstract!StorageBlocks, Abstract!Lesser, AnswerIds

(* Finite sets and their sizes, in every instance. *)
LEMMA SameFinite ==
    \A S : /\ P!IsFiniteSet(S) = IsFiniteSet(S)
           /\ P!Cardinality(S) = Cardinality(S)
           /\ Abstract!Cardinality(S) = Cardinality(S)
           /\ I!Cardinality(S) = Cardinality(S)
BY DEF P!IsFiniteSet, IsFiniteSet, P!Cardinality, Abstract!Cardinality, I!Cardinality,
   Cardinality

(* The variables of the two instances. *)
LEMMA SameVars == P!vars = Abstract!vars /\ P!vars' = Abstract!vars'
BY DEF P!vars, P!wvars, P!pools, P!counters, P!flags, P!links,
       Abstract!vars, Abstract!wvars, Abstract!pools, Abstract!counters, Abstract!flags,
       Abstract!links, AnswerIds

(* The steps of the two instances. *)
LEMMA SameNext ==
    /\ P!Next <=> Abstract!Next
    /\ P!ServeAny <=> Abstract!ServeAny
    /\ P!ServeAnyFails <=> Abstract!ServeAnyFails
<1>1. \A t : P!Release(t) <=> Abstract!Release(t)
  BY DEF P!Release, P!Progress, P!NextRequest, P!FinishTransaction, P!StartTransaction,
         P!Prepared, P!AfterRequest, P!Mismatch, P!InitialOps, P!pools, P!counters, P!flags,
         Abstract!Release, Abstract!Progress, Abstract!NextRequest, Abstract!FinishTransaction,
         Abstract!StartTransaction, Abstract!Prepared, Abstract!AfterRequest,
         Abstract!Mismatch, Abstract!InitialOps, Abstract!pools, Abstract!counters,
         Abstract!flags
<1>2. \A t, lp, sp : P!StartTransaction(t, lp, sp, FALSE)
                       <=> Abstract!StartTransaction(t, lp, sp, FALSE)
  BY DEF P!NextRequest, P!StartTransaction, P!Prepared, P!AfterRequest, P!InitialOps,
         Abstract!NextRequest, Abstract!StartTransaction, Abstract!Prepared,
         Abstract!AfterRequest, Abstract!InitialOps
<1>a. P!ReceiveCount = Abstract!ReceiveCount
  BY SameFinite DEF P!ReceiveCount, Abstract!ReceiveCount
<1>b. \A a, b : P!Lesser(a, b) = Abstract!Lesser(a, b)
  BY DEF P!Lesser, Abstract!Lesser
<1> USE DEF P!pools, P!counters, P!flags, P!links, P!Polling, P!Fail, P!wvars,
  Abstract!pools, Abstract!counters, Abstract!flags, Abstract!links, Abstract!Polling,
  Abstract!Fail, Abstract!wvars, AnswerIds
<1>3. P!SubmitResponseTasks <=> Abstract!SubmitResponseTasks
  BY <1>a DEF P!SubmitResponseTasks, Abstract!SubmitResponseTasks
<1>4. P!StartInitial <=> Abstract!StartInitial
  BY Zenon, <1>2, <1>b, SameFinite DEF P!StartInitial, Abstract!StartInitial
<1>5. P!StartPolling <=> Abstract!StartPolling
  BY Zenon, <1>b, SameFinite DEF P!StartPolling, Abstract!StartPolling
<1>6. P!run_data_path_ops <=> Abstract!run_data_path_ops
  BY DEF P!run_data_path_ops, Abstract!run_data_path_ops
<1>7. P!SubmitRequest <=> Abstract!SubmitRequest
  BY DEF P!SubmitRequest, Abstract!SubmitRequest
<1>8. P!SubmitRequestFails <=> Abstract!SubmitRequestFails
  BY DEF P!SubmitRequestFails, Abstract!SubmitRequestFails
<1>9. P!doca_comch_consumer_task_post_recv_cb <=> Abstract!doca_comch_consumer_task_post_recv_cb
  BY <1>1 DEF P!doca_comch_consumer_task_post_recv_cb,
     Abstract!doca_comch_consumer_task_post_recv_cb
<1>10. P!RepostReceive <=> Abstract!RepostReceive
  BY Zenon DEF P!RepostReceive, Abstract!RepostReceive
<1>11. P!doca_comch_consumer_task_post_recv_error_cb
        <=> Abstract!doca_comch_consumer_task_post_recv_error_cb
  BY DEF P!doca_comch_consumer_task_post_recv_error_cb,
     Abstract!doca_comch_consumer_task_post_recv_error_cb
<1>12. P!doca_comch_producer_task_send_cb <=> Abstract!doca_comch_producer_task_send_cb
  BY <1>1 DEF P!doca_comch_producer_task_send_cb, Abstract!doca_comch_producer_task_send_cb
<1>13. P!doca_comch_producer_task_send_error_cb
        <=> Abstract!doca_comch_producer_task_send_error_cb
  BY Zenon DEF P!doca_comch_producer_task_send_error_cb,
     Abstract!doca_comch_producer_task_send_error_cb
<1>14. P!Next <=> Abstract!Next
  BY <1>3, <1>4, <1>5, <1>6, <1>7, <1>8, <1>9, <1>10, <1>11, <1>12, <1>13 DEF P!Next,
     Abstract!Next
<1>15. P!ServeAny <=> Abstract!ServeAny
  BY DEF P!ServeAny, Abstract!ServeAny, P!Serve, Abstract!Serve
<1>16. P!ServeAnyFails <=> Abstract!ServeAnyFails
  BY DEF P!ServeAnyFails, Abstract!ServeAnyFails, P!ServeFails, Abstract!ServeFails
<1> QED BY <1>14, <1>15, <1>16

(* What InitiatorProofs proves, for this instance of its constants. *)
LEMMA AbstractInit == P!SInit => P!IInv
BY P!InitInv, DataPathAssumption, SameFinite
   DEF I!RunTypes, P!RunTypes, I!FaultKinds, P!FaultKinds

(* Its induction step. *)
LEMMA AbstractStep == P!IInv /\ [P!SNext]_P!vars => P!IInv'
BY P!NextInv, DataPathAssumption, SameFinite
   DEF I!RunTypes, P!RunTypes, I!FaultKinds, P!FaultKinds

(* The invariant of the abstract specification gives OpenInv. *)
LEMMA OpenFacts ==
    ASSUME P!IInv
    PROVE  OpenInv
<1>1. /\ OpenRequests \subseteq P!Request /\ AnswerIds \subseteq [id : Txns]
      /\ i_spin \in Txns \cup {0}
  BY DEF P!IInv, P!TypeOK
<1>2. /\ \A t \in Txns : io_request[t].id = t
      /\ \A m \in OpenRequests : m = io_request[m.id] /\ [id |-> m.id] \notin AnswerIds
  BY DEF P!IInv, P!LinkInv
<1>3. ASSUME NEW m \in OpenRequests
      PROVE  m.id \in Txns /\ m.type \in {"read", "write"}
  BY <1>1 DEF P!Request
<1>4. ASSUME NEW a \in OpenAnswers
      PROVE  [id |-> a.id] \in AnswerIds /\ a.id \in Txns
  <2>1. [id |-> a.id] \in AnswerIds
    BY DEF AnswerIds
  <2>2. [id |-> a.id] \in [id : Txns]
    BY <1>1, <2>1
  <2> QED BY <2>1, <2>2
<1>5. ASSUME NEW m \in OpenRequests, NEW a \in OpenAnswers
      PROVE  a.id # m.id
  BY Zenon, <1>2, <1>4
<1>6. ASSUME i_spin # 0
      PROVE  /\ io_request[i_spin].id = i_spin
             /\ \A m \in OpenRequests \cup OpenAnswers : m.id # i_spin
  <2>1. i_spin \in Txns
    BY <1>1, <1>6
  <2>2. ~P!Answering(i_spin)
    BY <2>1 DEF P!IInv, P!RefInv
  <2>3. ASSUME NEW a \in OpenAnswers PROVE a.id # i_spin
    <3>1. [id |-> a.id].id = a.id
      OBVIOUS
    <3> QED BY Zenon, <1>4, <2>2, <3>1 DEF P!Answering
  <2> QED BY <1>2, <2>1, <2>2, <2>3 DEF P!Answering
<1> QED BY Zenon, <1>1, <1>2, <1>3, <1>4, <1>5, <1>6 DEF OpenInv

(* A step of the data path, in the terms of the two invariants. *)
LEMMA InvStep ==
    ASSUME Lossless, PathInv, P!IInv, [Next]_vars
    PROVE  PathInv' /\ P!IInv' /\ Seen
<1>1. PathInv' /\ Seen
  BY OpenFacts, PathStep
<1>2. [P!SNext]_P!vars
  BY <1>1, SameNext, SameVars DEF Seen, P!SNext
<1> QED BY <1>1, <1>2, AbstractStep

(* Both invariants hold throughout. *)
LEMMA AlwaysPath == Lossless /\ Spec => [](Lossless /\ PathInv /\ P!IInv)
<1>1. Lossless /\ Init => Lossless /\ PathInv /\ P!IInv
  BY PathInit, SameInit, AbstractInit
<1>2. Lossless /\ PathInv /\ P!IInv /\ [Next]_vars => (Lossless /\ PathInv /\ P!IInv)'
  <2>1. Lossless => Lossless'
    BY DEF Lossless
  <2> QED BY <2>1, InvStep
<1> QED BY <1>1, <1>2, PTL DEF Spec

(* The relay and the target, whatever their number of buffers and however  *)
(* their steps are interleaved, carry out every request of the initiator   *)
(* in one step between its sending and its answer, and answer it once.     *)
THEOREM ServiceImplemented == Lossless /\ Spec => ImplementsService
<1>1. Init => Abstract!SInit
  BY PathInit
<1>2. Lossless /\ PathInv /\ P!IInv /\ [Next]_vars => [Abstract!SNext]_Abstract!vars
  BY InvStep DEF Seen, Abstract!SNext
<1> QED BY <1>1, <1>2, AlwaysPath, PTL DEF Spec, ImplementsService, Abstract!Spec

(* Until a transfer fails on the target, the initiator validates the       *)
(* content that it expects.                                                *)
DataPathInv == t_error_flag \/ P!DataInv

(* Nothing but such a failure brings other content to the initiator. *)
LEMMA DataPathStep ==
    ASSUME Lossless, PathInv, P!IInv, DataPathInv, [Next]_vars,
           InitiatorFaults = {}, "submit_transfer" \notin TargetFaults
    PROVE  DataPathInv'
<1> SUFFICES ASSUME ~t_error_flag' PROVE P!DataInv'
  BY DEF DataPathInv
<1>1. P!DataInv
  BY ErrorStays DEF DataPathInv
<1>2. (P!Next /\ UNCHANGED disk) \/ P!ServeAny \/ UNCHANGED P!vars
  BY InvStep, SameNext, SameVars DEF Seen
<1> QED BY <1>1, <1>2, P!DataStep, DataPathAssumption, SameFinite
       DEF I!RunTypes, P!RunTypes, I!FaultKinds, P!FaultKinds

(* An error of the initiator is due to a transfer that failed: whatever    *)
(* way its requests take through the relay and the target, it reads back   *)
(* what it wrote. A transfer that could not even be submitted is excluded, *)
(* since the target answers it with an error that it does not record.      *)
THEOREM MismatchIsRealHolds ==
    Lossless /\ "submit_transfer" \notin TargetFaults /\ Spec => []MismatchIsReal
<1> DEFINE Sub == "submit_transfer" \notin TargetFaults
           Inv == Sub /\ (InitiatorFaults = {} => DataPathInv)
<1>1. Sub /\ Init => Inv
  BY PathInit, SameInit, P!DataInit, DataPathAssumption, SameFinite
     DEF DataPathInv, I!RunTypes, P!RunTypes, I!FaultKinds, P!FaultKinds
<1>2. Lossless /\ PathInv /\ P!IInv /\ Inv /\ [Next]_vars => Inv'
  BY DataPathStep
<1>3. Inv => MismatchIsReal
  BY DEF MismatchIsReal, DataPathInv, P!DataInv
<1> QED BY <1>1, <1>2, <1>3, AlwaysPath, PTL DEF Spec
=============================================================================
