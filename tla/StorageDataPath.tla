--------------------------- MODULE StorageDataPath ---------------------------
(***************************************************************************)
(* One worker of the initiator, of the zero-copy service and of the        *)
(* target, running their data paths against each other:                    *)
(*                                                                         *)
(*     initiator --c2s--> zero copy --s2t--> target                        *)
(*     initiator <--s2c-- zero copy <--t2s-- target                        *)
(*                                                                         *)
(* The target moves the data between the host's memory and its storage.    *)
(* A link is the set of messages on it; they may be delivered in any       *)
(* order. An RDMA send waits for a posted receive on the other side, a     *)
(* comch send is refused with DOCA_ERROR_AGAIN while there is none.        *)
(***************************************************************************)
EXTENDS Integers, FiniteSets

CONSTANTS
    Txns, LocalCount, StorageCount, TargetOps, RunType, InitiatorFaults,  \* initiator
    RelaySlots, RelayFaults,                                              \* zero copy
    TargetSlots, TargetFaults, CounterRange                                   \* target

VARIABLES
    pending_actions, refcount, io_request, local_pool, storage_pool, started, i_completed,
    i_run_flag, i_error_flag, i_phase, i_spin, repost, posted, sending,
    request_tasks, response_tasks, z_spin, request, response, z_completed,
    z_run_flag, z_error_flag, z_phase,
    t_tasks, io_message, in_flight, t_completed, t_run_flag, t_error_flag, t_phase,
    c2s, s2t, t2s, s2c, host, disk

ivars == <<pending_actions, refcount, io_request, local_pool, storage_pool, started, i_completed,
           i_run_flag, i_error_flag, i_phase, i_spin, repost, posted, sending>>
zvars == <<request_tasks, response_tasks, z_spin, request, response, z_completed,
           z_run_flag, z_error_flag, z_phase>>
tvars == <<t_tasks, io_message, in_flight, t_completed, t_run_flag, t_error_flag, t_phase>>
vars == <<ivars, zvars, tvars, c2s, s2t, t2s, s2c, host, disk>>

I == INSTANCE InitiatorWorker WITH completed <- i_completed, run_flag <- i_run_flag,
        error_flag <- i_error_flag, phase <- i_phase, spin <- i_spin
Z == INSTANCE ZeroCopyWorker WITH Slots <- RelaySlots, spin <- z_spin,
        completed <- z_completed, run_flag <- z_run_flag, error_flag <- z_error_flag,
        phase <- z_phase
T == INSTANCE TargetWorker WITH Slots <- TargetSlots, tasks <- t_tasks,
        completed <- t_completed, run_flag <- t_run_flag, error_flag <- t_error_flag,
        phase <- t_phase

(* What the three parts assume of their constants. *)
ASSUME DataPathAssumption ==
    /\ IsFiniteSet(Txns) /\ 0 \notin Txns
    /\ LocalCount \in Nat /\ StorageCount \in Nat /\ TargetOps \in Nat \ {0}
    /\ Cardinality(Txns) <= LocalCount /\ Cardinality(Txns) <= StorageCount
    /\ RunType \in I!RunTypes /\ InitiatorFaults \subseteq I!FaultKinds
    /\ IsFiniteSet(RelaySlots) /\ 0 \notin RelaySlots /\ RelayFaults \subseteq Z!FaultKinds
    /\ IsFiniteSet(TargetSlots) /\ TargetFaults \subseteq T!FaultKinds
    /\ CounterRange \in Nat /\ Cardinality(TargetSlots) < CounterRange

Init ==
    /\ I!Init
    /\ Z!Init
    /\ T!Init
    /\ s2t = {}
    /\ t2s = {}
    /\ disk = [b \in I!StorageBlocks |-> IF RunType = "read_only_data_validity" THEN b ELSE 0]

-----------------------------------------------------------------------------
(* A comch send is accepted while the peer has a receive posted for it. *)
RequestCredit ==
    Cardinality(c2s) < Cardinality({s \in RelaySlots : "receive" \in request_tasks[s]})
ResponseCredit == Cardinality(s2c) < posted

InitiatorStarts == I!SubmitResponseTasks \/ I!StartInitial \/ I!StartPolling
InitiatorEnds == I!run_data_path_ops
InitiatorSubmits == I!SubmitRequest /\ RequestCredit
InitiatorReceives == I!doca_comch_consumer_task_post_recv_cb
InitiatorReposts == I!RepostReceive
InitiatorSent == I!doca_comch_producer_task_send_cb
InitiatorFails ==
    \/ I!SubmitRequestFails
    \/ I!doca_comch_consumer_task_post_recv_error_cb
    \/ I!doca_comch_producer_task_send_error_cb

InitiatorStep ==
    /\ \/ InitiatorStarts \/ InitiatorEnds \/ InitiatorSubmits \/ InitiatorReceives
       \/ InitiatorReposts \/ InitiatorSent \/ InitiatorFails
    /\ UNCHANGED <<zvars, tvars, s2t, t2s, disk>>

RelayStarts == Z!SubmitInitialTasks
RelayEnds == Z!run_data_path_ops
RelaySubmits == Z!SubmitResponse /\ ResponseCredit

(* The initiator asks for the stop when its workers no longer run. The     *)
(* service passes it on to the target before it stops its own workers, and *)
(* the target answers after it joined its own.                             *)
TargetStops == T!Stop /\ ~i_run_flag
RelayStops == Z!Stop /\ ~i_run_flag /\ t_phase = "exited"

RelayStep ==
    /\ \/ RelayStarts \/ RelayEnds \/ RelaySubmits \/ RelayStops
       \/ Z!ReceiveRequest \/ Z!ReceiveResponse \/ Z!RequestSent \/ Z!ResponseSent
       \/ Z!AnyTaskError
    /\ UNCHANGED <<ivars, tvars, host, disk>>

TargetStep ==
    /\ \/ T!SubmitInitialTasks \/ T!run_data_path_ops \/ TargetStops
       \/ T!ReceiveRequest \/ T!ReceiveFailed \/ T!TransferDone \/ T!TransferFailed
       \/ T!ResponseSent \/ T!ResponseFailed
    /\ UNCHANGED <<ivars, zvars, c2s, s2c>>

AllEnded == i_phase = "exited" /\ z_phase = "exited" /\ t_phase = "exited"
Done == AllEnded /\ UNCHANGED vars

Next == InitiatorStep \/ RelayStep \/ TargetStep \/ Done

(* Each of the three threads keeps polling its progress engine, which      *)
(* reports every kind of completion in turn.                               *)
Fairness ==
    LET INext(A) == A /\ UNCHANGED <<zvars, tvars, s2t, t2s, disk>>
        ZNext(A) == A /\ UNCHANGED <<ivars, tvars, host, disk>>
        TNext(A) == A /\ UNCHANGED <<ivars, zvars, c2s, s2c>>
    IN  /\ WF_vars(INext(InitiatorStarts \/ InitiatorEnds \/ InitiatorSubmits \/ InitiatorReposts))
        /\ WF_vars(INext(InitiatorReceives)) /\ WF_vars(INext(InitiatorSent))
        /\ WF_vars(ZNext(RelayStarts \/ RelayEnds \/ RelaySubmits \/ RelayStops))
        /\ WF_vars(ZNext(Z!ReceiveRequest)) /\ WF_vars(ZNext(Z!ReceiveResponse))
        /\ WF_vars(ZNext(Z!RequestSent)) /\ WF_vars(ZNext(Z!ResponseSent))
        /\ WF_vars(TNext(T!SubmitInitialTasks \/ T!run_data_path_ops \/ TargetStops))
        /\ WF_vars(TNext(T!ReceiveRequest)) /\ WF_vars(TNext(T!TransferDone))
        /\ WF_vars(TNext(T!ResponseSent))

Spec == Init /\ [][Next]_vars
FairSpec == Spec /\ Fairness

-----------------------------------------------------------------------------
(* Properties *)

(* The requests that the service has not carried out yet, and the answers  *)
(* that have not reached the initiator.                                    *)
OpenRequests == c2s \cup s2t \cup {io_message[s] : s \in {x \in TargetSlots : T!Transferring(x)}}
OpenAnswers ==
    t2s \cup s2c \cup (IF z_spin = 0 THEN {} ELSE {response[z_spin]})
AnswerIds == {[id |-> m.id] : m \in OpenAnswers}

(* The relay and the target together are the service that InitiatorStorage *)
(* assumes: every request is carried out in one step between its sending   *)
(* and its answer, and is answered once.                                   *)
Abstract == INSTANCE InitiatorStorage WITH
    completed <- i_completed, run_flag <- i_run_flag, error_flag <- i_error_flag,
    phase <- i_phase, spin <- i_spin,
    c2s <- OpenRequests, s2c <- AnswerIds,
    ServiceFaults <- IF TargetFaults \cap {"transfer_error", "submit_transfer"} = {}
                     THEN {} ELSE {"io_error"}
ImplementsService == Abstract!Spec

(* The data read back is the data expected: when no other task fails, the  *)
(* initiator records an error, in particular a mismatch that it found      *)
(* while validating, only if a transfer failed on the target.              *)
MismatchIsReal ==
    (InitiatorFaults = {} /\ RelayFaults = {} /\ i_error_flag) => t_error_flag

(* Every thread ends: no one waits for ever for a receive to be posted, a  *)
(* response to be accepted, or a drain to finish.                          *)
AllEnd == <>AllEnded

(* encountered_errors: "false if the thread was started and ran to         *)
(* completion without error, true otherwise" - a transfer that failed on   *)
(* the target is an error of the run.                                      *)
FailedTransferReported ==
    (i_phase = "exited" /\ t_error_flag) => i_error_flag
=============================================================================
