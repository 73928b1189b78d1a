--------------------------- MODULE ZeroCopySystem ---------------------------
(***************************************************************************)
(* A worker of the zero-copy service between an initiator and a target     *)
(* that answers every request once, in any order.                          *)
(***************************************************************************)
EXTENDS ZeroCopyWorker

CONSTANTS
    MaxRequests,        \* bound on the requests of the initiator
    ClientReceives      \* receive tasks that the initiator keeps posted

ASSUME PeersAssumption == MaxRequests \in Nat /\ ClientReceives \in Nat

VARIABLES
    sent,           \* requests sent by the initiator
    serving,        \* requests the target has taken and not yet answered
    answered        \* requests whose response has reached the initiator

peers == <<sent, serving, answered>>
vars == <<zvars, links, peers>>

Ids == 1 .. MaxRequests
Request == [id : Ids]
Answer == [id : Ids, result : {"SUCCESS", "IO_FAILED"}]

ZInit ==
    /\ Init
    /\ c2s = {} /\ s2t = {} /\ t2s = {} /\ s2c = {}
    /\ sent = 0
    /\ serving = {}
    /\ answered = {}

(* A comch send needs a receive posted on the other side. *)
ClientSends ==
    /\ sent < MaxRequests
    /\ Cardinality(c2s) < Cardinality({s \in Slots : "receive" \in request_tasks[s]})
    /\ sent' = sent + 1
    /\ c2s' = c2s \cup {[id |-> sent + 1]}
    /\ UNCHANGED <<zvars, s2t, t2s, s2c, serving, answered>>

ClientTakes ==
    /\ \E m \in s2c : s2c' = s2c \ {m} /\ answered' = answered \cup {m.id}
    /\ UNCHANGED <<zvars, c2s, s2t, t2s, sent, serving>>

TargetTakes ==
    /\ \E m \in s2t : s2t' = s2t \ {m} /\ serving' = serving \cup {m.id}
    /\ UNCHANGED <<zvars, c2s, t2s, s2c, sent, answered>>

TargetAnswers ==
    /\ \E i \in serving, r \in {"SUCCESS", "IO_FAILED"} :
         /\ serving' = serving \ {i}
         /\ t2s' = t2s \cup {[id |-> i, result |-> r]}
    /\ UNCHANGED <<zvars, c2s, s2t, s2c, sent, answered>>

Done == phase = "exited" /\ UNCHANGED vars

RelayStep ==
    /\ Next
    /\ s2c' # s2c => Cardinality(s2c) < ClientReceives
    /\ UNCHANGED peers

ZNext == RelayStep \/ ClientSends \/ ClientTakes \/ TargetTakes \/ TargetAnswers \/ Done

(* The thread polls, completions are reported, and both peers go on. *)
Fairness ==
    /\ WF_vars((SubmitInitialTasks \/ run_data_path_ops) /\ RelayStep)
    /\ WF_vars(SubmitResponse /\ RelayStep)
    /\ WF_vars(ReceiveRequest /\ RelayStep) /\ WF_vars(ReceiveResponse /\ RelayStep)
    /\ WF_vars(ResponseSent /\ RelayStep)
    /\ \A s \in Slots : WF_vars(doca_rdma_task_send_cb(s) /\ RelayStep)
    /\ WF_vars(ClientSends) /\ WF_vars(ClientTakes)
    /\ WF_vars(TargetTakes) /\ WF_vars(TargetAnswers)

Spec == ZInit /\ [][ZNext]_vars
FairSpec == Spec /\ Fairness

-----------------------------------------------------------------------------
(* Properties *)

(* A buffer that is being sent on holds a message of the right type: the   *)
(* receive callback has overwritten the request that shared it.            *)
TypeOK ==
    /\ request_tasks \in [Slots -> SUBSET {"receive", "send"}]
    /\ response_tasks \in [Slots -> SUBSET {"receive", "send"}]
    /\ spin \in Slots \cup {0}
    /\ request \in [Slots -> Request \cup {NoMessage}]
    /\ response \in [Slots -> Answer \cup {NoMessage}]
    /\ completed \in Nat
    /\ run_flag \in BOOLEAN
    /\ error_flag \in BOOLEAN
    /\ phase \in {"start", "run", "exited"}
    /\ c2s \subseteq Request /\ s2t \subseteq Request
    /\ t2s \subseteq Answer /\ s2c \subseteq Answer
    /\ sent \in 0 .. MaxRequests
    /\ serving \subseteq Ids
    /\ answered \subseteq Ids

(* The two tasks that share a message buffer are never both submitted: a   *)
(* request is not overwritten while it is forwarded, nor a response.       *)
OneTaskPerBuffer ==
    \A s \in Slots :
      /\ Cardinality(request_tasks[s]) <= 1
      /\ Cardinality(response_tasks[s]) <= 1

(* The places where request i, or its answer, is. *)
IdsOf(messages) == {m.id : m \in messages}
Forwarding == IF spin = 0 THEN {} ELSE {response[spin].id}
Places == <<IdsOf(c2s), IdsOf(s2t), serving, IdsOf(t2s), Forwarding, IdsOf(s2c), answered>>

(* Each request is in at most one place, so that it is forwarded and       *)
(* answered at most once whatever fails; and as long as no error has been  *)
(* recorded it is in exactly one: the relay neither loses nor duplicates   *)
(* what passes through its shared buffers.                                 *)
Conserved ==
    \A i \in 1 .. sent :
      /\ \A p, q \in DOMAIN Places : i \in Places[p] /\ i \in Places[q] => p = q
      /\ ~error_flag => \E p \in DOMAIN Places : i \in Places[p]

(* A relay that is not stopped answers every request, although the single  *)
(* thread waits inside a callback for the initiator to accept a response.  *)
AllAnswered == (phase = "run") ~> (answered = Ids \/ ~run_flag)
=============================================================================
