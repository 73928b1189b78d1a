-------------------------- MODULE InitiatorStorage --------------------------
(***************************************************************************)
(* What the initiator's worker relies on: a storage service that carries   *)
(* out each request in one step, in any order, and answers it exactly      *)
(* once.  The initiator's worker together with this service is the         *)
(* abstract specification which StorageDataPath, with its relay and its    *)
(* remote target, is checked against.                                      *)
(***************************************************************************)
EXTENDS InitiatorWorker

CONSTANT ServiceFaults      \* {"io_error"} when the service may fail a request

ASSUME ServiceFaultsAssumption == ServiceFaults \subseteq {"io_error"}

VARIABLE disk               \* content of the storage blocks

vars == <<wvars, links, host, disk>>

(* The storage of a read-only validity test holds the expected content. *)
InitialDisk ==
    [b \in StorageBlocks |-> IF RunType = "read_only_data_validity" THEN b ELSE 0]

SInit == Init /\ disk = InitialDisk

(* The memory of a read and the storage of a write. *)
Serve(m) ==
    /\ c2s' = c2s \ {m}
    /\ s2c' = s2c \cup {[id |-> m.id]}
    /\ IF m.type = "read"
         THEN host' = [host EXCEPT ![m.local] = disk[m.storage]] /\ UNCHANGED disk
         ELSE disk' = [disk EXCEPT ![m.storage] = host[m.local]] /\ UNCHANGED host
    /\ UNCHANGED wvars

(* A failed request is answered as well, and changes nothing. *)
ServeFails(m) ==
    /\ "io_error" \in ServiceFaults
    /\ c2s' = c2s \ {m}
    /\ s2c' = s2c \cup {[id |-> m.id]}
    /\ UNCHANGED <<wvars, host, disk>>

ServeAny == \E m \in c2s : Serve(m)
ServeAnyFails == \E m \in c2s : ServeFails(m)

(* The worker has ended and the main thread joins it. *)
Done == phase = "exited" /\ UNCHANGED vars

SNext == (Next /\ UNCHANGED disk) \/ ServeAny \/ ServeAnyFails \/ Done

(* The thread keeps polling: a completion that is there is delivered, and  *)
(* the service answers.                                                    *)
Fairness ==
    /\ WF_vars((SubmitResponseTasks \/ StartInitial \/ StartPolling \/ run_data_path_ops) /\ UNCHANGED disk)
    /\ WF_vars(SubmitRequest /\ UNCHANGED disk)
    /\ WF_vars(RepostReceive /\ UNCHANGED disk)
    /\ WF_vars(doca_comch_consumer_task_post_recv_cb /\ UNCHANGED disk)
    /\ WF_vars(doca_comch_producer_task_send_cb /\ UNCHANGED disk)
    /\ WF_vars(ServeAny)

Spec == SInit /\ [][SNext]_vars
FairSpec == Spec /\ Fairness

-----------------------------------------------------------------------------
(* Properties *)

(* The pools stay within their capacity, no more receives are posted than  *)
(* were allocated, and a reference count is never decremented below zero.  *)
TypeOK ==
    /\ pending_actions \in [Txns -> SUBSET Actions]
    /\ refcount \in [Txns -> 0 .. 2]
    /\ io_request \in [Txns -> Request]
    /\ local_pool \subseteq LocalBlocks
    /\ storage_pool \subseteq StorageBlocks
    /\ started \in 0 .. TargetOps
    /\ completed \in 0 .. TargetOps
    /\ run_flag \in BOOLEAN
    /\ error_flag \in BOOLEAN
    /\ phase \in {"init", "start", "run", "exited"}
    /\ spin \in Txns \cup {0}
    /\ repost \in BOOLEAN
    /\ posted \in 0 .. ReceiveCount
    /\ sending \subseteq Txns
    /\ c2s \subseteq Request
    /\ s2c \subseteq [id : Txns]
    /\ host \in [LocalBlocks -> {0} \cup StorageBlocks]
    /\ disk \in [StorageBlocks -> {0} \cup StorageBlocks]

(* A transaction is active from start to finish. *)
Active(t) == pending_actions[t] # {}
Answering(t) == (\E m \in c2s : m.id = t) \/ (\E m \in s2c : m.id = t)

(* As long as no error is recorded, the reference count of a transaction   *)
(* is exactly the number of callbacks still to come: the completion of its *)
(* send task and its response. Only at 0 is the message rewritten, and a   *)
(* transaction that can no longer finish has been reported as an error.    *)
(* And every response finds a posted receive: twice as many receive tasks  *)
(* as transactions suffice, although the task in use is reposted only      *)
(* after the next request went out.                                        *)
CallbacksExact ==
    ~error_flag =>
      /\ \A t \in Txns :
           refcount[t] = IF spin = t THEN 2
                         ELSE (IF t \in sending THEN 1 ELSE 0) + (IF Answering(t) THEN 1 ELSE 0)
      /\ Cardinality(s2c) <= posted

(* No memory has two users. No two active transactions use the same local  *)
(* block or the same storage block, none uses a block that is still in a   *)
(* pool, and the message buffer is never rewritten while a send task or    *)
(* the service may read it: a request on the wire is the one that its      *)
(* transaction waits for.                                                  *)
MemoryExclusive ==
    /\ \A t \in Txns : Active(t) =>
         /\ io_request[t].local \notin local_pool
         /\ io_request[t].storage \notin storage_pool
         /\ \A u \in Txns \ {t} : Active(u) =>
              /\ io_request[t].local # io_request[u].local
              /\ io_request[t].storage # io_request[u].storage
    /\ \A m \in c2s : m = io_request[m.id] /\ spin # m.id /\ Active(m.id)

(* A worker that ends after its data path has run all its transactions,    *)
(* has all its addresses back, leaves no message or completion behind, and *)
(* has cleared run_flag, on which run() of the main thread waits.          *)
ExitQuiescent ==
    (phase = "exited" /\ started > 0) =>
      /\ started = TargetOps
      /\ ~run_flag
      /\ c2s = {} /\ s2c = {} /\ sending = {}
      /\ local_pool = LocalBlocks
      /\ storage_pool = 1 .. Lesser(LocalCount, StorageCount)

(* run_flag: "Setting this to false while the thread is running will       *)
(* signal the thread to stop."                                             *)
StopSignalled == (~run_flag) ~> (phase = "exited")
=============================================================================
