--------------------------- MODULE InitiatorProofs ---------------------------
(***************************************************************************)
(* Proofs about InitiatorStorage: for any number of transactions, blocks   *)
(* and operations, any run type and any failures, reference counts are the *)
(* callbacks to come, no memory has two users, and a worker whose data     *)
(* path ends leaves nothing behind.                                        *)
(***************************************************************************)
EXTENDS InitiatorStorage, FiniteSetTheorems, TLAPS

Held == {t \in Txns : Active(t)}
Usable == 1 .. Lesser(LocalCount, StorageCount)

(* A transaction that waits for a callback has not finished. *)
ActInv == \A t \in Txns : refcount[t] # 0 => "finish" \in pending_actions[t]

(* A request on the wire is the one of its transaction, and is either on   *)
(* its way or answered.                                                    *)
LinkInv ==
    /\ \A t \in Txns : io_request[t].id = t
    /\ \A m \in c2s : m = io_request[m.id] /\ [id |-> m.id] \notin s2c

(* What a reference count says of the callbacks to come. An error may lose *)
(* callbacks, but never adds one.                                          *)
RefInv ==
    \A t \in Txns :
      /\ spin = t => refcount[t] = 2 /\ t \notin sending /\ ~Answering(t)
      /\ refcount[t] = 0 => t \notin sending /\ ~Answering(t)
      /\ refcount[t] = 1 => t \notin sending \/ ~Answering(t)
      /\ ~error_flag /\ spin # t =>
           /\ refcount[t] = 1 => t \in sending \/ Answering(t)
           /\ refcount[t] = 2 => t \in sending /\ Answering(t)

(* Every address is in its pool or held by one of the transactions H. *)
PoolOK(H, req, lp, sp) ==
    /\ \A t \in H :
         /\ req[t].local \in LocalBlocks \ lp
         /\ req[t].storage \in Usable \ sp
         /\ \A u \in H \ {t} : req[t].local # req[u].local /\ req[t].storage # req[u].storage
    /\ lp \subseteq LocalBlocks
    /\ \A b \in LocalBlocks \ lp : \E t \in H : req[t].local = b
    /\ sp \subseteq Usable
    /\ \A b \in Usable \ sp : \E t \in H : req[t].storage = b

PoolInv == PoolOK(Held, io_request, local_pool, storage_pool)

(* The transactions started are the completed and the active ones, and     *)
(* run_flag is cleared by the last completion or by an error.              *)
Counted ==
    /\ started = completed + Cardinality(Held)
    /\ completed = TargetOps => ~run_flag
    /\ ~run_flag => error_flag \/ completed = TargetOps

(* The thread ends before it starts a transaction, or after all of them.   *)
ExitInv == phase = "exited" => started = 0 \/ completed = TargetOps

(* Nothing is under way before the receives are posted, and without an     *)
(* error they are all posted but the one in the running callback.          *)
PostInv ==
    /\ repost => posted < ReceiveCount
    /\ phase = "init" =>
         started = 0 /\ spin = 0 /\ c2s = {} /\ s2c = {} /\ sending = {} /\ ~repost /\ posted = 0
    /\ ~error_flag /\ phase # "init" => posted = ReceiveCount - IF repost THEN 1 ELSE 0

IInv == TypeOK /\ ActInv /\ LinkInv /\ RefInv /\ PoolInv /\ Counted /\ ExitInv /\ PostInv

-----------------------------------------------------------------------------
(* Numbers, sets and pools *)

(* The constants have their types. *)
LEMMA ConstantFacts ==
    /\ Cardinality(Txns) \in Nat /\ ReceiveCount \in Nat /\ ReceiveCount = 2 * Cardinality(Txns)
    /\ Lesser(LocalCount, StorageCount) \in Nat
    /\ Cardinality(Txns) <= Lesser(LocalCount, StorageCount)
    /\ Usable \subseteq StorageBlocks
    /\ TargetOps \in Nat \ {0}
<1>1. Cardinality(Txns) \in Nat
  BY TxnsAssumption, FS_CardinalityType
<1> QED BY <1>1, CountsAssumption DEF ReceiveCount, Lesser, Usable, StorageBlocks

(* A set of transactions is finite. *)
LEMMA TxnSets ==
    ASSUME NEW S \in SUBSET Txns
    PROVE  IsFiniteSet(S) /\ Cardinality(S) \in Nat /\ Cardinality(S) <= Cardinality(Txns)
BY TxnsAssumption, FS_Subset, FS_CardinalityType

(* The counters are numbers within their bounds. *)
LEMMA NumberFacts ==
    ASSUME TypeOK
    PROVE  /\ posted \in Nat /\ posted <= ReceiveCount
           /\ started \in Nat /\ started <= TargetOps
           /\ completed \in Nat /\ completed <= TargetOps
           /\ \A t \in Txns : refcount[t] \in {0, 1, 2}
<1>1. /\ posted \in 0 .. ReceiveCount /\ started \in 0 .. TargetOps
      /\ completed \in 0 .. TargetOps /\ refcount \in [Txns -> 0 .. 2]
  BY DEF TypeOK
<1>2. \A t \in Txns : refcount[t] \in 0 .. 2
  BY <1>1
<1> QED BY <1>1, <1>2, ConstantFacts

(* The pools of the next state. *)
LEMMA PoolNow ==
    ASSUME NEW H, NEW req, NEW lp, NEW sp, PoolOK(H, req, lp, sp),
           Held' = H, io_request' = req, local_pool' = lp, storage_pool' = sp
    PROVE  PoolInv'
BY DEF PoolInv, PoolOK, Usable, LocalBlocks

(* As long as a transaction is left that holds no address, neither pool is *)
(* empty: init_storage gives a worker no more transactions than blocks.    *)
LEMMA PoolsNotEmpty ==
    ASSUME NEW H \in SUBSET Txns, NEW t \in Txns \ H, NEW req, NEW lp, NEW sp,
           PoolOK(H, req, lp, sp)
    PROVE  lp # {} /\ sp # {}
<1> DEFINE n == Cardinality(H)
<1>1. n \in Nat /\ n + 1 <= Cardinality(Txns) /\ IsFiniteSet(H)
  <2>1. H \cup {t} \in SUBSET Txns
    OBVIOUS
  <2>2. Cardinality(H \cup {t}) = n + 1
    BY TxnSets, FS_AddElement
  <2> QED BY <2>1, <2>2, TxnSets
<1>2. ASSUME NEW k \in Nat, Cardinality(Txns) <= k, NEW f \in Surjection(H, 1 .. k)
      PROVE  FALSE
  <2>1. Cardinality(1 .. k) <= n
    BY <1>1, <1>2, FS_Surjection
  <2>2. Cardinality(1 .. k) = IF 1 > k THEN 0 ELSE k - 1 + 1
    BY FS_Interval
  <2> QED BY <1>1, <1>2, <2>1, <2>2, ConstantFacts
<1>3. lp # {}
  <2> SUFFICES ASSUME lp = {} PROVE FALSE
    OBVIOUS
  <2> DEFINE f == [u \in H |-> req[u].local]
  <2>1. f \in Surjection(H, 1 .. LocalCount)
    BY DEF PoolOK, Surjection, LocalBlocks
  <2> QED BY <1>2, <2>1, CountsAssumption
<1>4. sp # {}
  <2> SUFFICES ASSUME sp = {} PROVE FALSE
    OBVIOUS
  <2> DEFINE f == [u \in H |-> req[u].storage]
  <2>1. f \in Surjection(H, 1 .. Lesser(LocalCount, StorageCount))
    BY DEF PoolOK, Surjection, Usable
  <2> QED BY <1>2, <2>1, ConstantFacts
<1> QED BY <1>3, <1>4

(* A transaction puts its addresses back. *)
LEMMA PoolGive ==
    ASSUME NEW H, NEW t \in H, NEW req, NEW lp, NEW sp, PoolOK(H, req, lp, sp)
    PROVE  PoolOK(H \ {t}, req, lp \cup {req[t].local}, sp \cup {req[t].storage})
BY DEF PoolOK

(* A transaction takes addresses out of the pools. *)
LEMMA PoolTake ==
    ASSUME NEW H, NEW t, t \notin H, NEW req, NEW lp, NEW sp, PoolOK(H, req, lp, sp),
           NEW l \in lp, NEW s \in sp, NEW new, new[t].local = l, new[t].storage = s,
           \A u \in H : new[u] = req[u]
    PROVE  PoolOK(H \cup {t}, new, lp \ {l}, sp \ {s})
<1>1. \A u \in H \cup {t} :
         /\ new[u].local \in LocalBlocks \ (lp \ {l})
         /\ new[u].storage \in Usable \ (sp \ {s})
         /\ \A v \in (H \cup {t}) \ {u} :
              new[u].local # new[v].local /\ new[u].storage # new[v].storage
  BY DEF PoolOK
<1>2. \A b \in LocalBlocks \ (lp \ {l}) : \E u \in H \cup {t} : new[u].local = b
  BY DEF PoolOK
<1>3. \A b \in Usable \ (sp \ {s}) : \E u \in H \cup {t} : new[u].storage = b
  BY DEF PoolOK
<1> QED BY <1>1, <1>2, <1>3 DEF PoolOK

(* The next request of a transaction is for the same addresses. *)
LEMMA PoolSame ==
    ASSUME NEW H, NEW req, NEW lp, NEW sp, PoolOK(H, req, lp, sp), NEW new,
           \A u \in H : new[u].local = req[u].local /\ new[u].storage = req[u].storage
    PROVE  PoolOK(H, new, lp, sp)
BY DEF PoolOK

-----------------------------------------------------------------------------
(* progress_transaction *)

(* What it does to transaction t: go to the submission of a request, *)
Asks(t) ==
    /\ spin' = t
    /\ refcount' = [refcount EXCEPT ![t] = 2]
    /\ "finish" \in pending_actions'[t]
    /\ \A u \in Txns \ {t} : pending_actions'[u] = pending_actions[u]
    /\ io_request'[t].id = t
    /\ \A u \in Txns \ {t} : io_request'[u] = io_request[u]

(* finish it, *)
Ends(t) ==
    /\ refcount' = [refcount EXCEPT ![t] = 0]
    /\ pending_actions' = [pending_actions EXCEPT ![t] = {}]
    /\ UNCHANGED <<spin, io_request>>

(* or wait for its other callback. *)
Drops(t) ==
    /\ refcount[t] = 2
    /\ refcount' = [refcount EXCEPT ![t] = 1]
    /\ UNCHANGED <<spin, io_request, pending_actions, pools, counters, flags, host>>

(* The types of what progress_transaction changes. *)
ProgressType ==
    /\ pending_actions \in [Txns -> SUBSET Actions]
    /\ refcount \in [Txns -> 0 .. 2]
    /\ io_request \in [Txns -> Request]
    /\ local_pool \subseteq LocalBlocks
    /\ storage_pool \subseteq StorageBlocks
    /\ started \in 0 .. TargetOps
    /\ completed \in 0 .. TargetOps
    /\ run_flag \in BOOLEAN
    /\ error_flag \in BOOLEAN
    /\ spin \in Txns \cup {0}
    /\ host \in [LocalBlocks -> {0} \cup StorageBlocks]

(* Every run type ends with "finish", which no request takes away. *)
LEMMA OpsFacts ==
    /\ InitialOps \in SUBSET Actions /\ "finish" \in InitialOps
    /\ \A ops \in SUBSET Actions :
         /\ AfterRequest(ops) \in SUBSET Actions
         /\ "finish" \in ops => "finish" \in AfterRequest(ops)
BY KindsAssumption DEF InitialOps, Actions, AfterRequest, RunTypes

(* A request of t for the blocks l and s. *)
LEMMA NextRequestAsks ==
    ASSUME ProgressType, NEW t \in Txns, NEW ops \in SUBSET Actions, "finish" \in ops,
           NEW l \in LocalBlocks, NEW s \in StorageBlocks, NextRequest(t, ops, l, s)
    PROVE  /\ Asks(t)
           /\ io_request'[t].local = l /\ io_request'[t].storage = s
           /\ pending_actions' \in [Txns -> SUBSET Actions]
           /\ refcount' \in [Txns -> 0 .. 2]
           /\ io_request' \in [Txns -> Request]
           /\ spin' \in Txns \cup {0}
           /\ host' \in [LocalBlocks -> {0} \cup StorageBlocks]
           /\ Held' = Held \cup {t}
<1> DEFINE r == [id |-> t, type |-> IF "write" \in ops THEN "write" ELSE "read",
                 local |-> l, storage |-> s]
<1>1. r \in Request
  BY DEF Request
<1>2. io_request' = [io_request EXCEPT ![t] = r]
  BY DEF NextRequest
<1>3. /\ io_request' \in [Txns -> Request] /\ io_request'[t] = r
      /\ \A u \in Txns \ {t} : io_request'[u] = io_request[u]
  BY <1>1, <1>2 DEF ProgressType
<1>4. /\ pending_actions' \in [Txns -> SUBSET Actions] /\ "finish" \in pending_actions'[t]
      /\ \A u \in Txns \ {t} : pending_actions'[u] = pending_actions[u]
  BY OpsFacts DEF ProgressType, NextRequest
<1>5. refcount' \in [Txns -> 0 .. 2] /\ spin' = t /\ refcount' = [refcount EXCEPT ![t] = 2]
  BY DEF ProgressType, NextRequest
<1>6. host' \in [LocalBlocks -> {0} \cup StorageBlocks]
  BY DEF ProgressType, NextRequest, Prepared
<1>7. Held' = Held \cup {t}
  BY <1>4 DEF Held, Active
<1> QED BY <1>3, <1>4, <1>5, <1>6, <1>7 DEF Asks

(* A transaction starts on addresses of its own. *)
LEMMA StartTakes ==
    ASSUME ProgressType, NEW t \in Txns, NEW lp, NEW sp, NEW failed \in BOOLEAN,
           lp # {}, sp # {}, PoolOK(Held \ {t}, io_request, lp, sp),
           started < TargetOps, StartTransaction(t, lp, sp, failed), completed' \in 0 .. TargetOps
    PROVE  /\ Asks(t) /\ ProgressType' /\ PoolInv'
           /\ Held' = Held \cup {t}
           /\ started' = started + 1
           /\ ~run_flag => ~run_flag'
           /\ error_flag => error_flag'
           /\ ~run_flag' => ~run_flag \/ error_flag'
<1>1. PICK l \in lp, s \in sp :
        local_pool' = lp \ {l} /\ storage_pool' = sp \ {s} /\ NextRequest(t, InitialOps, l, s)
  BY DEF StartTransaction
<1>2. lp \subseteq LocalBlocks /\ sp \subseteq Usable /\ Usable \subseteq StorageBlocks
  BY ConstantFacts DEF PoolOK
<1>3. /\ Asks(t)
      /\ io_request'[t].local = l /\ io_request'[t].storage = s
      /\ pending_actions' \in [Txns -> SUBSET Actions]
      /\ refcount' \in [Txns -> 0 .. 2]
      /\ io_request' \in [Txns -> Request]
      /\ spin' \in Txns \cup {0}
      /\ host' \in [LocalBlocks -> {0} \cup StorageBlocks]
      /\ Held' = Held \cup {t}
  BY <1>1, <1>2, NextRequestAsks, OpsFacts
<1>4. /\ started' = started + 1 /\ run_flag' \in BOOLEAN /\ error_flag' \in BOOLEAN
      /\ ~run_flag => ~run_flag'
      /\ error_flag => error_flag'
      /\ ~run_flag' => ~run_flag \/ error_flag'
  BY DEF StartTransaction, ProgressType
<1>5. started' \in 0 .. TargetOps
  BY <1>4, ConstantFacts DEF ProgressType
<1>6. \A u \in Held \ {t} : io_request'[u] = io_request[u]
  BY <1>3 DEF Asks, Held
<1>7. PoolOK((Held \ {t}) \cup {t}, io_request', lp \ {l}, sp \ {s})
  <2> DEFINE H == Held \ {t}
  <2>1. t \notin H /\ \A u \in H : io_request'[u] = io_request[u]
    BY <1>6
  <2> HIDE DEF H
  <2>2. PoolOK(H \cup {t}, io_request', lp \ {l}, sp \ {s})
    BY Zenon, <1>1, <1>3, <2>1, PoolTake DEF H
  <2> QED BY <2>2 DEF H
<1>8. (Held \ {t}) \cup {t} = Held'
  BY <1>3
<1>9. PoolInv'
  BY <1>1, <1>7, <1>8, PoolNow
<1> QED BY <1>1, <1>2, <1>3, <1>4, <1>5, <1>9 DEF ProgressType

(* A transaction that finishes gives its addresses back, and takes others  *)
(* if it starts again.                                                     *)
LEMMA FinishKeeps ==
    ASSUME ProgressType, PoolInv, Counted, NEW t \in Held, completed # TargetOps,
           FinishTransaction(t)
    PROVE  /\ ProgressType' /\ PoolInv' /\ Counted'
           /\ error_flag => error_flag'
           /\ Asks(t) \/ Ends(t)
<1> DEFINE lp == local_pool \cup {io_request[t].local}
           sp == storage_pool \cup {io_request[t].storage}
           last == completed + 1 = TargetOps
<1>1. t \in Txns /\ Held \in SUBSET Txns /\ Mismatch(t) \in BOOLEAN
  BY DEF Held, Mismatch
<1>2. completed' = completed + 1 /\ completed' \in 0 .. TargetOps
  BY ConstantFacts DEF FinishTransaction, ProgressType
<1>3. PoolOK(Held \ {t}, io_request, lp, sp)
  BY PoolGive DEF PoolInv
<1>4. CASE last \/ started = TargetOps
  <2>1. /\ pending_actions' = [pending_actions EXCEPT ![t] = {}]
        /\ refcount' = [refcount EXCEPT ![t] = 0]
        /\ local_pool' = lp
        /\ storage_pool' = sp
        /\ run_flag' = (run_flag /\ ~last /\ ~Mismatch(t))
        /\ error_flag' = (error_flag \/ Mismatch(t))
        /\ UNCHANGED <<io_request, started, host, spin>>
    BY <1>4 DEF FinishTransaction
  <2>2. Held' = Held \ {t}
    BY <1>1, <2>1 DEF Held, Active, ProgressType
  <2>3. PoolInv'
    <3> HIDE DEF lp, sp
    <3> QED BY <1>3, <2>1, <2>2, PoolNow
  <2>4. lp \subseteq LocalBlocks /\ sp \subseteq StorageBlocks
    BY <1>3, ConstantFacts DEF PoolOK
  <2>5. ProgressType'
    <3>1. pending_actions' \in [Txns -> SUBSET Actions] /\ refcount' \in [Txns -> 0 .. 2]
      <4>1. [pending_actions EXCEPT ![t] = {}] \in [Txns -> SUBSET Actions]
        BY Zenon DEF ProgressType
      <4>2. [refcount EXCEPT ![t] = 0] \in [Txns -> 0 .. 2]
        <5>1. refcount \in [Txns -> 0 .. 2] /\ 0 \in 0 .. 2
          BY DEF ProgressType
        <5> QED BY Zenon, <5>1
      <4> QED BY <2>1, <4>1, <4>2
    <3>2. run_flag' \in BOOLEAN /\ error_flag' \in BOOLEAN
      BY <2>1 DEF ProgressType
    <3> QED BY <1>2, <2>1, <2>4, <3>1, <3>2 DEF ProgressType
  <2>6. Counted'
    <3>1. Cardinality(Held') = Cardinality(Held) - 1
      BY <1>1, <2>2, TxnSets, FS_RemoveElement
    <3>2. started' = completed' + Cardinality(Held')
      BY <1>1, <1>2, <2>1, <3>1, TxnSets DEF Counted, ProgressType
    <3>3. completed' = TargetOps => ~run_flag'
      BY Zenon, <1>2, <2>1
    <3>4. ~run_flag' => error_flag' \/ completed' = TargetOps
      BY Zenon, <1>2, <2>1 DEF Counted
    <3> QED BY <3>2, <3>3, <3>4 DEF Counted
  <2> QED BY Zenon, <2>1, <2>3, <2>5, <2>6 DEF Ends
<1>5. CASE ~(last \/ started = TargetOps)
  <2>1. StartTransaction(t, lp, sp, Mismatch(t))
    BY <1>5 DEF FinishTransaction
  <2>2. started < TargetOps
    BY <1>5, ConstantFacts DEF ProgressType
  <2>3. lp # {} /\ sp # {}
    OBVIOUS
  <2> HIDE DEF lp, sp
  <2>4. /\ Asks(t) /\ ProgressType' /\ PoolInv'
        /\ Held' = Held \cup {t}
        /\ started' = started + 1
        /\ ~run_flag => ~run_flag'
        /\ error_flag => error_flag'
        /\ ~run_flag' => ~run_flag \/ error_flag'
    BY Zenon, <1>1, <1>2, <1>3, <2>1, <2>2, <2>3, StartTakes
  <2>5. Held' = Held
    BY <2>4
  <2>6. Counted'
    <3>1. Cardinality(Held) \in Nat /\ Cardinality(Held') = Cardinality(Held)
      BY <1>1, <2>5, TxnSets
    <3>2. started' = completed' + Cardinality(Held')
      BY <1>2, <2>4, <3>1 DEF Counted, ProgressType
    <3>3. completed' # TargetOps
      BY <1>2, <1>5
    <3>4. ~run_flag' => error_flag'
      BY <2>4 DEF Counted
    <3> QED BY <3>2, <3>3, <3>4 DEF Counted
  <2> QED BY <2>4, <2>6
<1> QED BY <1>4, <1>5

(* A callback of t drops a reference; the last one lets t go on. *)
LEMMA ReleaseKeeps ==
    ASSUME ProgressType, ActInv, PoolInv, Counted, NEW t \in Txns, refcount[t] # 0,
           completed # TargetOps, Release(t)
    PROVE  /\ ProgressType' /\ ActInv' /\ PoolInv' /\ Counted'
           /\ error_flag => error_flag'
           /\ Drops(t) \/ (refcount[t] = 1 /\ (Asks(t) \/ Ends(t)))
<1>1. refcount[t] \in {1, 2} /\ "finish" \in pending_actions[t] /\ t \in Held
  BY DEF ProgressType, ActInv, Held, Active
<1>2. CASE refcount[t] # 1
  <2>1. Drops(t)
    BY <1>1, <1>2 DEF Release, Drops
  <2>2. ProgressType'
    BY <2>1 DEF Drops, ProgressType, pools, counters, flags
  <2>3. ActInv'
    BY <1>1, <2>1 DEF Drops, ProgressType, ActInv
  <2>4. Held' = Held
    BY <2>1 DEF Drops, Held, Active
  <2>5. PoolInv'
    BY <2>1, <2>4, PoolNow DEF Drops, PoolInv, pools
  <2>6. Counted'
    BY <2>1, <2>4 DEF Drops, Counted, counters, flags
  <2> QED BY <2>1, <2>2, <2>3, <2>5, <2>6 DEF Drops, flags
<1>3. CASE refcount[t] = 1
  <2>1. CASE pending_actions[t] \cap {"read", "write"} # {}
    <3> DEFINE l == io_request[t].local
               s == io_request[t].storage
    <3>1. l \in LocalBlocks /\ s \in StorageBlocks /\ pending_actions[t] \in SUBSET Actions
      BY DEF ProgressType, Request
    <3>2. NextRequest(t, pending_actions[t], l, s) /\ UNCHANGED <<pools, counters, flags>>
      BY <1>3, <2>1 DEF Release, Progress
    <3> HIDE DEF l, s
    <3>3. /\ Asks(t)
          /\ io_request'[t].local = l /\ io_request'[t].storage = s
          /\ pending_actions' \in [Txns -> SUBSET Actions]
          /\ refcount' \in [Txns -> 0 .. 2]
          /\ io_request' \in [Txns -> Request]
          /\ spin' \in Txns \cup {0}
          /\ host' \in [LocalBlocks -> {0} \cup StorageBlocks]
          /\ Held' = Held \cup {t}
      BY <1>1, <3>1, <3>2, NextRequestAsks
    <3>4. ProgressType'
      BY <3>2, <3>3 DEF ProgressType, pools, counters, flags
    <3>5. Held' = Held
      BY <1>1, <3>3
    <3>6. \A u \in Held : /\ io_request'[u].local = io_request[u].local
                          /\ io_request'[u].storage = io_request[u].storage
      BY <3>3 DEF Asks, Held, l, s
    <3>7. PoolOK(Held, io_request', local_pool, storage_pool)
      BY <3>6, PoolSame DEF PoolInv
    <3>8. PoolInv' /\ Counted'
      <4>1. PoolInv'
        BY <3>2, <3>5, <3>7, PoolNow DEF pools
      <4>2. Counted'
        BY <3>2, <3>5 DEF Counted, counters, flags
      <4> QED BY <4>1, <4>2
    <3>9. ActInv'
      BY <3>3 DEF Asks, ActInv, ProgressType
    <3> QED BY <1>3, <3>2, <3>3, <3>4, <3>8, <3>9 DEF flags
  <2>2. CASE pending_actions[t] \cap {"read", "write"} = {}
    <3>1. FinishTransaction(t)
      BY <1>3, <2>2 DEF Release, Progress
    <3>2. /\ ProgressType' /\ PoolInv' /\ Counted'
          /\ error_flag => error_flag'
          /\ Asks(t) \/ Ends(t)
      BY <1>1, <3>1, FinishKeeps
    <3>3. ActInv'
      BY <3>2 DEF Asks, Ends, ActInv, ProgressType
    <3> QED BY <1>3, <3>2, <3>3
  <2> QED BY <2>1, <2>2
<1> QED BY <1>2, <1>3

-----------------------------------------------------------------------------
(* Callbacks to come *)

(* The types of what the callbacks change besides. *)
WireType ==
    /\ phase \in {"init", "start", "run", "exited"}
    /\ repost \in BOOLEAN
    /\ posted \in 0 .. ReceiveCount
    /\ sending \subseteq Txns
    /\ c2s \subseteq Request
    /\ s2c \subseteq [id : Txns]
    /\ disk \in [StorageBlocks -> {0} \cup StorageBlocks]

(* The two parts of the type invariant. *)
LEMMA TypeSplit == TypeOK <=> ProgressType /\ WireType
BY DEF TypeOK, ProgressType, WireType

(* A request or an answer names a transaction. *)
LEMMA MessageFacts ==
    ASSUME WireType
    PROVE  /\ \A m \in c2s : m.id \in Txns /\ m.type \in {"read", "write"}
                             /\ m.local \in LocalBlocks /\ m.storage \in StorageBlocks
           /\ \A m \in s2c : m.id \in Txns /\ m = [id |-> m.id]
BY DEF WireType, Request

(* A callback takes one of the two things that t waits for, and t waits    *)
(* for the other one, asks again, or ends.                                 *)
LEMMA TokenTaken ==
    ASSUME ProgressType, RefInv, NEW t \in Txns, refcount[t] # 0, spin = 0,
           error_flag => error_flag',
           Drops(t) \/ (refcount[t] = 1 /\ (Asks(t) \/ Ends(t))),
           \A u \in Txns \ {t} : /\ u \in sending' <=> u \in sending
                                 /\ Answering(u)' <=> Answering(u),
           \/ t \in sending /\ t \notin sending' /\ (Answering(t)' <=> Answering(t))
           \/ Answering(t) /\ ~Answering(t)' /\ (t \in sending' <=> t \in sending)
    PROVE  RefInv'
<1> SUFFICES ASSUME NEW u \in Txns
             PROVE  /\ spin' = u => refcount'[u] = 2 /\ u \notin sending' /\ ~Answering(u)'
                    /\ refcount'[u] = 0 => u \notin sending' /\ ~Answering(u)'
                    /\ refcount'[u] = 1 => u \notin sending' \/ ~Answering(u)'
                    /\ ~error_flag' /\ spin' # u =>
                         /\ refcount'[u] = 1 => u \in sending' \/ Answering(u)'
                         /\ refcount'[u] = 2 => u \in sending' /\ Answering(u)'
  BY DEF RefInv
<1>0. spin # u /\ spin # t
  BY TxnsAssumption
<1>1. spin' \in {spin, t} /\ refcount' \in [Txns -> 0 .. 2]
  BY DEF Drops, Asks, Ends, ProgressType
<1>2. CASE u # t
  <2>1. refcount'[u] = refcount[u] /\ spin' # u
    BY <1>0, <1>1, <1>2 DEF Drops, Asks, Ends, ProgressType
  <2> QED BY <1>0, <1>2, <2>1 DEF RefInv
<1>3. CASE u = t
  <2>1. CASE Drops(t)
    <3>1. refcount[t] = 2 /\ refcount'[t] = 1 /\ spin' = spin
      BY <2>1 DEF Drops, ProgressType
    <3>2. ~error_flag => t \in sending /\ Answering(t)
      BY <1>0, <3>1 DEF RefInv
    <3> QED BY <1>0, <1>3, <3>1, <3>2
  <2>2. CASE refcount[t] = 1 /\ Asks(t)
    <3>1. refcount'[t] = 2 /\ spin' = t
      BY <2>2 DEF Asks, ProgressType
    <3>2. t \notin sending \/ ~Answering(t)
      BY <2>2 DEF RefInv
    <3> QED BY <1>3, <3>1, <3>2
  <2>3. CASE refcount[t] = 1 /\ Ends(t)
    <3>1. refcount'[t] = 0 /\ spin' = spin
      BY <2>3 DEF Ends, ProgressType
    <3>2. t \notin sending \/ ~Answering(t)
      BY <2>3 DEF RefInv
    <3> QED BY <1>0, <1>3, <3>1, <3>2
  <2> QED BY <2>1, <2>2, <2>3
<1> QED BY <1>2, <1>3

(* The message of t is rewritten only when t waits for nothing. *)
LEMMA LinksKept ==
    ASSUME WireType, LinkInv, NEW t \in Txns, c2s' = c2s, s2c' \subseteq s2c,
           Drops(t) \/ Ends(t) \/ (Asks(t) /\ ~Answering(t)')
    PROVE  LinkInv'
<1>1. \A u \in Txns \ {t} : io_request'[u] = io_request[u]
  BY DEF Drops, Asks, Ends
<1>2. io_request'[t].id = t
  BY DEF Drops, Asks, Ends, LinkInv
<1>3. ASSUME NEW m \in c2s PROVE m = io_request'[m.id] /\ [id |-> m.id] \notin s2c'
  <2>1. m.id \in Txns /\ m = io_request[m.id] /\ [id |-> m.id] \notin s2c
    BY MessageFacts DEF LinkInv
  <2>2. CASE m.id = t
    BY <2>1, <2>2 DEF Drops, Ends, Answering
  <2>3. CASE m.id # t
    BY <1>1, <2>1, <2>3
  <2> QED BY <2>2, <2>3
<1>4. \A u \in Txns : io_request'[u].id = u
  BY <1>1, <1>2 DEF LinkInv
<1> QED BY <1>3, <1>4 DEF LinkInv

-----------------------------------------------------------------------------
(* The steps *)

(* The worker before its thread has done anything. *)
LEMMA InitInv == SInit => IInv
<1> SUFFICES ASSUME SInit PROVE IInv
  OBVIOUS
<1> USE DEF SInit, Init
<1>1. ASSUME NEW t \in Txns PROVE 1 \in LocalBlocks /\ 1 \in StorageBlocks
  <2>1. Cardinality(Txns) # 0
    BY TxnsAssumption, FS_EmptySet
  <2> QED BY <2>1, ConstantFacts, CountsAssumption DEF LocalBlocks, StorageBlocks
<1>2. TypeOK
  <2>1. io_request \in [Txns -> Request]
    BY <1>1 DEF Request
  <2>2. /\ pending_actions \in [Txns -> SUBSET Actions]
        /\ refcount \in [Txns -> 0 .. 2]
        /\ host \in [LocalBlocks -> {0} \cup StorageBlocks]
    OBVIOUS
  <2>3. disk \in [StorageBlocks -> {0} \cup StorageBlocks]
    BY DEF InitialDisk
  <2>4. storage_pool \subseteq StorageBlocks /\ 0 \in 0 .. TargetOps /\ 0 \in 0 .. ReceiveCount
    BY ConstantFacts DEF Usable
  <2> QED BY Zenon, <2>1, <2>2, <2>3, <2>4 DEF TypeOK
<1>3. Held = {}
  BY DEF Held, Active
<1>4. PoolInv
  BY <1>3 DEF PoolInv, PoolOK, Usable
<1>5. Counted
  BY <1>3, FS_EmptySet, ConstantFacts DEF Counted
<1>6. ActInv /\ LinkInv /\ ExitInv /\ PostInv
  BY DEF ActInv, LinkInv, ExitInv, PostInv
<1>7. RefInv
  BY TxnsAssumption DEF RefInv, Answering
<1> QED BY <1>2, <1>4, <1>5, <1>6, <1>7 DEF IInv

(* What holds of the transactions, as long as they are left alone. *)
LEMMA TxnsKept ==
    ASSUME UNCHANGED <<pending_actions, refcount, io_request, pools, counters>>,
           UNCHANGED flags \/ Fail
    PROVE  /\ ActInv => ActInv'
           /\ PoolInv => PoolInv'
           /\ Counted => Counted'
<1>1. Held' = Held
  BY DEF Held, Active
<1>2. ActInv => ActInv'
  BY DEF ActInv
<1>3. PoolInv => PoolInv'
  BY <1>1, PoolNow DEF PoolInv, pools
<1>4. Counted => Counted'
  BY <1>1 DEF Counted, counters, flags, Fail
<1> QED BY <1>2, <1>3, <1>4

(* What holds of the callbacks to come, likewise. *)
LEMMA CallbacksKept ==
    ASSUME UNCHANGED <<refcount, io_request, spin, sending, links>>, UNCHANGED flags \/ Fail
    PROVE  (LinkInv => LinkInv') /\ (RefInv => RefInv')
<1>1. \A u \in Txns : Answering(u)' <=> Answering(u)
  BY DEF Answering, links
<1>2. error_flag => error_flag'
  BY Zenon DEF flags, Fail
<1>3. LinkInv => LinkInv'
  BY DEF LinkInv, links
<1>4. RefInv => RefInv'
  BY <1>1, <1>2 DEF RefInv
<1> QED BY <1>3, <1>4

(* The receives are posted. *)
LEMMA SubmitResponseTasksKeeps ==
    ASSUME IInv, SubmitResponseTasks, UNCHANGED disk
    PROVE  IInv'
<1>1. /\ phase = "init" /\ phase' \in {"start", "exited"}
      /\ \/ phase' = "start" /\ posted' = ReceiveCount /\ UNCHANGED flags
         \/ posted' \in 0 .. ReceiveCount - 1 /\ Fail
      /\ UNCHANGED <<pending_actions, refcount, io_request, pools, counters, spin, repost,
                     sending, links, host>>
  BY DEF SubmitResponseTasks
<1>2. ActInv' /\ PoolInv' /\ Counted'
  BY <1>1, TxnsKept DEF IInv
<1>3. TypeOK'
  <2>1. posted' \in 0 .. ReceiveCount
    BY <1>1, ConstantFacts
  <2>2. run_flag' \in BOOLEAN /\ error_flag' \in BOOLEAN
    BY Zenon, <1>1 DEF IInv, TypeOK, flags, Fail
  <2> QED BY <1>1, <2>1, <2>2 DEF IInv, TypeOK, pools, counters, links
<1>4. LinkInv' /\ RefInv'
  BY <1>1, CallbacksKept DEF IInv
<1>5. started = 0 /\ ~repost
  BY <1>1 DEF IInv, PostInv
<1>6. ExitInv'
  BY <1>1, <1>5 DEF ExitInv, counters
<1>7. PostInv'
  BY <1>1, <1>5, ConstantFacts DEF PostInv, flags, Fail
<1> QED BY <1>2, <1>3, <1>4, <1>6, <1>7 DEF IInv

(* One of the first transactions starts: there are addresses for it. *)
LEMMA StartInitialKeeps ==
    ASSUME IInv, StartInitial, UNCHANGED disk
    PROVE  IInv'
<1>1. PICK t \in Txns : /\ pending_actions[t] = {}
                        /\ refcount[t] = 0
                        /\ StartTransaction(t, local_pool, storage_pool, FALSE)
  BY Zenon DEF StartInitial
<1>2. /\ phase = "start" /\ spin = 0 /\ started < TargetOps
      /\ UNCHANGED <<completed, phase, repost, posted, sending, links>>
  <2>1. started < Lesser(Cardinality(Txns), TargetOps)
    BY DEF StartInitial
  <2>2. started < TargetOps
    BY <2>1, NumberFacts, ConstantFacts DEF Lesser, IInv
  <2> QED BY <2>2 DEF StartInitial
<1>3. ProgressType /\ WireType /\ Held \in SUBSET Txns /\ t \notin Held /\ Held \ {t} = Held
  BY <1>1, TypeSplit DEF IInv, Held, Active
<1>4. local_pool # {} /\ storage_pool # {}
  BY <1>3, PoolsNotEmpty DEF IInv, PoolInv
<1>5. PoolOK(Held \ {t}, io_request, local_pool, storage_pool)
  BY <1>3 DEF IInv, PoolInv
<1>6. completed' \in 0 .. TargetOps
  BY <1>2, <1>3 DEF ProgressType
<1>7. /\ Asks(t) /\ ProgressType' /\ PoolInv'
      /\ Held' = Held \cup {t}
      /\ started' = started + 1
      /\ ~run_flag => ~run_flag'
      /\ error_flag => error_flag'
      /\ ~run_flag' => ~run_flag \/ error_flag'
  BY Zenon, <1>1, <1>2, <1>3, <1>4, <1>5, <1>6, StartTakes
<1>8. TypeOK'
  <2>1. WireType'
    BY <1>2, <1>3 DEF WireType, links
  <2> QED BY <1>7, <2>1 DEF TypeOK, ProgressType, WireType
<1>9. Counted'
  <2>1. Cardinality(Held') = Cardinality(Held) + 1 /\ Cardinality(Held) \in Nat
    BY <1>3, <1>7, TxnSets, FS_AddElement
  <2>2. started' = completed' + Cardinality(Held')
    <3>1. started = completed + Cardinality(Held) /\ completed' = completed
      BY <1>2 DEF IInv, Counted
    <3> QED BY <1>7, <2>1, <3>1, NumberFacts DEF IInv
  <2> QED BY <1>2, <1>7, <2>2 DEF IInv, Counted
<1>10. t \notin sending /\ ~Answering(t) /\ ~Answering(t)'
  BY <1>1, <1>2 DEF IInv, RefInv, Answering, links
<1>11. LinkInv'
  BY <1>2, <1>3, <1>7, <1>10, LinksKept DEF IInv, links
<1>12. RefInv'
  <2>1. \A u \in Txns : Answering(u)' <=> Answering(u)
    BY <1>2 DEF Answering, links
  <2>2. spin' = t /\ refcount'[t] = 2 /\ \A u \in Txns \ {t} : refcount'[u] = refcount[u]
    BY <1>3, <1>7 DEF Asks, ProgressType
  <2>3. \A u \in Txns : spin # u
    BY <1>2, TxnsAssumption
  <2> QED BY <1>2, <1>7, <1>10, <2>1, <2>2, <2>3 DEF IInv, RefInv
<1>13. ActInv'
  BY <1>3, <1>7 DEF Asks, IInv, ActInv, ProgressType
<1>14. ExitInv' /\ PostInv'
  BY <1>2, <1>7 DEF IInv, ExitInv, PostInv, links
<1> QED BY <1>7, <1>8, <1>9, <1>11, <1>12, <1>13, <1>14 DEF IInv

(* The thread goes on, ends, or does nothing. *)
LEMMA ThreadKeeps ==
    ASSUME IInv, UNCHANGED disk, StartPolling \/ run_data_path_ops \/ UNCHANGED vars
    PROVE  IInv'
<1>1. /\ UNCHANGED <<pending_actions, refcount, io_request, pools, counters, flags, spin, repost,
                     posted, sending, links, host>>
      /\ \/ phase' = phase
         \/ phase = "start" /\ phase' = "run"
         \/ phase = "run" /\ phase' = "exited" /\ completed = TargetOps
  BY DEF StartPolling, run_data_path_ops, vars, wvars
<1>2. ActInv' /\ PoolInv' /\ Counted'
  BY <1>1, TxnsKept DEF IInv, flags
<1>3. TypeOK'
  BY <1>1 DEF IInv, TypeOK, pools, counters, flags, links
<1>4. LinkInv' /\ RefInv'
  BY <1>1, CallbacksKept DEF IInv
<1>5. ExitInv' /\ PostInv'
  BY <1>1 DEF IInv, ExitInv, PostInv, links, flags, counters
<1> QED BY <1>2, <1>3, <1>4, <1>5 DEF IInv

(* The request of the spinning transaction goes out: from now on its two   *)
(* callbacks are to come.                                                  *)
LEMMA SubmitRequestKeeps ==
    ASSUME IInv, SubmitRequest, UNCHANGED disk
    PROVE  IInv'
<1>0. PICK t \in Txns : spin = t
  BY DEF IInv, TypeOK, SubmitRequest
<1>1. /\ spin' = 0
      /\ c2s' = c2s \cup {io_request[t]} /\ sending' = sending \cup {t}
      /\ UNCHANGED <<pending_actions, refcount, io_request, pools, counters, flags, phase, repost,
                     posted, s2c, host>>
  BY <1>0 DEF SubmitRequest
<1>2. /\ io_request[t] \in Request /\ io_request[t].id = t
      /\ refcount[t] = 2 /\ t \notin sending /\ ~Answering(t)
  BY <1>0 DEF IInv, TypeOK, LinkInv, RefInv
<1>3. ActInv' /\ PoolInv' /\ Counted'
  BY <1>1, TxnsKept DEF IInv
<1>4. TypeOK'
  BY <1>1, <1>2 DEF IInv, TypeOK, pools, counters, flags
<1>5. LinkInv'
  <2>1. [id |-> t] \notin s2c
    BY <1>2 DEF Answering
  <2> QED BY <1>1, <1>2, <2>1 DEF IInv, LinkInv
<1>6. RefInv'
  <2>1. Answering(t)' /\ t \in sending' /\ refcount'[t] = 2
    BY <1>1, <1>2 DEF Answering
  <2>2. \A u \in Txns \ {t} : /\ Answering(u)' <=> Answering(u)
                              /\ u \in sending' <=> u \in sending
                              /\ refcount'[u] = refcount[u]
                              /\ spin # u
    BY <1>0, <1>1, <1>2 DEF Answering
  <2>3. error_flag' = error_flag /\ \A u \in Txns : spin' # u
    BY <1>1, TxnsAssumption DEF flags
  <2>4. \A u \in Txns \ {t} :
          /\ refcount'[u] = 0 => u \notin sending' /\ ~Answering(u)'
          /\ refcount'[u] = 1 => u \notin sending' \/ ~Answering(u)'
          /\ ~error_flag' =>
               /\ refcount'[u] = 1 => u \in sending' \/ Answering(u)'
               /\ refcount'[u] = 2 => u \in sending' /\ Answering(u)'
    BY <2>2, <2>3 DEF IInv, RefInv
  <2> QED BY <2>1, <2>3, <2>4 DEF RefInv
<1>7. ExitInv' /\ PostInv'
  <2>1. phase # "init"
    BY <1>0, TxnsAssumption DEF IInv, PostInv
  <2> QED BY <1>1, <2>1 DEF IInv, ExitInv, PostInv, counters, flags
<1> QED BY <1>3, <1>4, <1>5, <1>6, <1>7 DEF IInv

(* The submission fails: the callbacks of its transaction never come, and  *)
(* the error is recorded.                                                  *)
LEMMA SubmitRequestFailsKeeps ==
    ASSUME IInv, SubmitRequestFails, UNCHANGED disk
    PROVE  IInv'
<1>1. /\ spin' = 0 /\ Fail
      /\ UNCHANGED <<pending_actions, refcount, io_request, pools, counters, phase, repost,
                     posted, sending, links, host>>
  BY DEF SubmitRequestFails
<1>2. ActInv' /\ PoolInv' /\ Counted'
  BY <1>1, TxnsKept DEF IInv
<1>3. TypeOK'
  BY Zenon, <1>1 DEF IInv, TypeOK, pools, counters, Fail, links
<1>4. LinkInv'
  BY <1>1 DEF IInv, LinkInv, links
<1>5. RefInv'
  <2>1. \A u \in Txns : spin' # u /\ (Answering(u)' <=> Answering(u))
    BY <1>1, TxnsAssumption DEF Answering, links
  <2> QED BY <1>1, <2>1 DEF IInv, RefInv, Fail
<1>6. ExitInv' /\ PostInv'
  BY <1>1 DEF IInv, ExitInv, PostInv, counters, Fail, links
<1> QED BY <1>2, <1>3, <1>4, <1>5, <1>6 DEF IInv

(* A response: it is the only message of its transaction. *)
LEMMA RecvKeeps ==
    ASSUME IInv, doca_comch_consumer_task_post_recv_cb, UNCHANGED disk
    PROVE  IInv'
<1>1. PICK m \in s2c :
        /\ s2c' = s2c \ {m}
        /\ IF m.id \in Txns
             THEN Release(m.id) /\ repost' = TRUE
             ELSE /\ Fail
                  /\ UNCHANGED <<pending_actions, refcount, io_request, pools, counters, spin,
                                 repost, host>>
  BY DEF doca_comch_consumer_task_post_recv_cb
<1> DEFINE t == m.id
<1>2. /\ ProgressType /\ WireType /\ ActInv /\ LinkInv /\ RefInv /\ PoolInv /\ Counted
      /\ ExitInv /\ PostInv
  BY TypeSplit DEF IInv
<1>3. t \in Txns /\ m = [id |-> t] /\ \A x \in s2c : x = [id |-> x.id]
  BY <1>2, MessageFacts
<1>4. /\ phase = "run" /\ spin = 0 /\ ~repost /\ completed # TargetOps /\ posted > 0
      /\ posted' = posted - 1 /\ UNCHANGED <<phase, sending, c2s>>
  BY DEF doca_comch_consumer_task_post_recv_cb, Polling
<1>5. Release(t) /\ repost' = TRUE
  BY <1>1, <1>3
<1>6. Answering(t) /\ ~Answering(t)'
  BY <1>1, <1>2, <1>3, <1>4 DEF Answering, LinkInv
<1>7. \A u \in Txns \ {t} : Answering(u)' <=> Answering(u)
  BY <1>1, <1>3, <1>4 DEF Answering
<1>8. refcount[t] # 0
  BY <1>2, <1>3, <1>6 DEF RefInv
<1> HIDE DEF t
<1>9. /\ ProgressType' /\ ActInv' /\ PoolInv' /\ Counted'
      /\ error_flag => error_flag'
      /\ Drops(t) \/ (refcount[t] = 1 /\ (Asks(t) \/ Ends(t)))
  BY <1>2, <1>3, <1>4, <1>5, <1>8, ReleaseKeeps
<1>10. RefInv'
  BY <1>2, <1>3, <1>4, <1>6, <1>7, <1>8, <1>9, TokenTaken
<1>11. LinkInv'
  BY <1>1, <1>2, <1>3, <1>4, <1>6, <1>9, LinksKept
<1>12. WireType'
  <2>1. posted' \in 0 .. ReceiveCount
    BY <1>2, <1>4, ConstantFacts DEF WireType
  <2> QED BY <1>1, <1>2, <1>4, <1>5, <2>1 DEF WireType
<1>13. ExitInv' /\ PostInv'
  <2>1. posted \in Nat /\ posted <= ReceiveCount
    BY NumberFacts DEF IInv
  <2>2. ~error_flag' => posted = ReceiveCount
    <3>1. ~error_flag' => posted = ReceiveCount - 0
      BY <1>2, <1>4, <1>9 DEF PostInv
    <3> QED BY <3>1, ConstantFacts
  <2>3. PostInv'
    BY <1>4, <1>5, <2>1, <2>2, ConstantFacts DEF PostInv
  <2> QED BY <1>4, <2>3 DEF ExitInv
<1> QED BY <1>9, <1>10, <1>11, <1>12, <1>13 DEF IInv, TypeOK, ProgressType, WireType

(* The completion of a send task. *)
LEMMA SendKeeps ==
    ASSUME IInv, doca_comch_producer_task_send_cb, UNCHANGED disk
    PROVE  IInv'
<1>1. PICK t \in sending : sending' = sending \ {t} /\ Release(t)
  BY DEF doca_comch_producer_task_send_cb
<1>2. /\ ProgressType /\ WireType /\ ActInv /\ LinkInv /\ RefInv /\ PoolInv /\ Counted
      /\ ExitInv /\ PostInv
  BY TypeSplit DEF IInv
<1>3. t \in Txns /\ refcount[t] # 0
  BY <1>2 DEF WireType, RefInv
<1>4. /\ phase = "run" /\ spin = 0 /\ ~repost /\ completed # TargetOps
      /\ UNCHANGED <<phase, repost, posted, c2s, s2c>>
  BY DEF doca_comch_producer_task_send_cb, Polling, links
<1>5. \A u \in Txns : Answering(u)' <=> Answering(u)
  BY <1>4 DEF Answering
<1>6. /\ ProgressType' /\ ActInv' /\ PoolInv' /\ Counted'
      /\ error_flag => error_flag'
      /\ Drops(t) \/ (refcount[t] = 1 /\ (Asks(t) \/ Ends(t)))
  BY <1>1, <1>2, <1>3, <1>4, ReleaseKeeps
<1>7. RefInv'
  BY <1>1, <1>2, <1>3, <1>4, <1>5, <1>6, TokenTaken
<1>8. LinkInv'
  <2>1. refcount[t] = 1 => ~Answering(t)'
    BY <1>2, <1>3, <1>5 DEF RefInv
  <2> QED BY <1>2, <1>3, <1>4, <1>6, <2>1, LinksKept
<1>9. WireType'
  BY <1>1, <1>2, <1>4 DEF WireType
<1>10. ExitInv' /\ PostInv'
  BY <1>2, <1>4, <1>6 DEF ExitInv, PostInv
<1> QED BY <1>6, <1>7, <1>8, <1>9, <1>10 DEF IInv, TypeOK, ProgressType, WireType

(* The end of the callback of a response. *)
LEMMA RepostKeeps ==
    ASSUME IInv, RepostReceive, UNCHANGED disk
    PROVE  IInv'
<1>1. /\ repost /\ repost' = FALSE
      /\ \/ posted' = posted + 1 /\ UNCHANGED flags
         \/ posted' = posted /\ Fail
      /\ UNCHANGED <<pending_actions, refcount, io_request, pools, counters, phase, spin,
                     sending, links, host>>
  BY DEF RepostReceive
<1>2. ActInv' /\ PoolInv' /\ Counted'
  BY <1>1, TxnsKept DEF IInv
<1>3. posted \in Nat /\ posted < ReceiveCount /\ phase # "init"
  <2>1. posted < ReceiveCount /\ phase # "init"
    BY <1>1 DEF IInv, PostInv
  <2> QED BY <2>1, NumberFacts DEF IInv
<1>4. TypeOK'
  <2>1. posted' \in 0 .. ReceiveCount
    BY <1>1, <1>3, ConstantFacts
  <2>2. run_flag' \in BOOLEAN /\ error_flag' \in BOOLEAN
    BY Zenon, <1>1 DEF IInv, TypeOK, flags, Fail
  <2> QED BY Zenon, <1>1, <2>1, <2>2 DEF IInv, TypeOK, pools, counters, links
<1>5. LinkInv' /\ RefInv'
  BY <1>1, CallbacksKept DEF IInv
<1>6. ExitInv' /\ PostInv'
  <2>1. ExitInv'
    BY <1>1 DEF IInv, ExitInv, counters
  <2>2. ~error_flag' => posted = ReceiveCount - 1 /\ posted' = posted + 1
    BY <1>1, <1>3 DEF IInv, PostInv, flags, Fail
  <2>3. PostInv'
    BY <1>1, <1>3, <2>2, ConstantFacts DEF PostInv
  <2> QED BY <2>1, <2>3
<1> QED BY <1>2, <1>4, <1>5, <1>6 DEF IInv

(* A receive is flushed. While the thread polls run_flag is cleared only   *)
(* by an error, so that the error is recorded whether it is set or not.    *)
LEMMA RecvErrorKeeps ==
    ASSUME IInv, doca_comch_consumer_task_post_recv_error_cb, UNCHANGED disk
    PROVE  IInv'
<1>1. /\ phase = "run" /\ posted > 0 /\ ~repost /\ posted' = posted - 1 /\ error_flag'
      /\ UNCHANGED flags \/ Fail
      /\ UNCHANGED <<pending_actions, refcount, io_request, pools, counters, phase, spin, repost,
                     sending, links, host>>
  BY DEF doca_comch_consumer_task_post_recv_error_cb, Polling, Fail, flags, IInv, Counted
<1>2. ActInv' /\ PoolInv' /\ Counted'
  BY <1>1, TxnsKept DEF IInv
<1>3. TypeOK'
  <2>1. posted' \in 0 .. ReceiveCount
    BY <1>1, NumberFacts, ConstantFacts DEF IInv
  <2>2. run_flag' \in BOOLEAN /\ error_flag' \in BOOLEAN
    BY Zenon, <1>1 DEF IInv, TypeOK, flags, Fail
  <2> QED BY <1>1, <2>1, <2>2 DEF IInv, TypeOK, pools, counters, links
<1>4. LinkInv' /\ RefInv'
  BY <1>1, CallbacksKept DEF IInv
<1>5. ExitInv' /\ PostInv'
  BY <1>1 DEF IInv, ExitInv, PostInv, counters
<1> QED BY <1>2, <1>3, <1>4, <1>5 DEF IInv

(* A send task fails: neither callback of its transaction comes any more.  *)
LEMMA SendErrorKeeps ==
    ASSUME IInv, doca_comch_producer_task_send_error_cb, UNCHANGED disk
    PROVE  IInv'
<1>1. /\ phase = "run" /\ spin = 0 /\ Fail
      /\ sending' \subseteq sending /\ c2s' \subseteq c2s
      /\ UNCHANGED <<pending_actions, refcount, io_request, pools, counters, phase, spin, repost,
                     posted, s2c, host>>
  BY DEF doca_comch_producer_task_send_error_cb, Polling
<1>2. ActInv' /\ PoolInv' /\ Counted'
  BY <1>1, TxnsKept DEF IInv
<1>3. TypeOK'
  BY Zenon, <1>1 DEF IInv, TypeOK, Fail, pools, counters
<1>4. LinkInv'
  BY <1>1 DEF IInv, LinkInv
<1>5. RefInv'
  <2>1. \A u \in Txns : /\ Answering(u)' => Answering(u)
                        /\ u \in sending' => u \in sending
                        /\ spin' # u
    BY <1>1, TxnsAssumption DEF Answering
  <2> QED BY <1>1, <2>1 DEF IInv, RefInv, Fail
<1>6. ExitInv' /\ PostInv'
  BY <1>1 DEF IInv, ExitInv, PostInv, counters, Fail
<1> QED BY <1>2, <1>3, <1>4, <1>5, <1>6 DEF IInv

(* The service answers a request, served or failed. *)
LEMMA ServeKeeps ==
    ASSUME IInv, NEW m \in c2s, Serve(m) \/ ServeFails(m)
    PROVE  IInv'
<1>1. c2s' = c2s \ {m} /\ s2c' = s2c \cup {[id |-> m.id]} /\ UNCHANGED wvars
  BY DEF Serve, ServeFails
<1>2. /\ ProgressType /\ WireType /\ LinkInv
      /\ m.id \in Txns /\ m.local \in LocalBlocks /\ m.storage \in StorageBlocks
      /\ phase # "init"
  BY TypeSplit, MessageFacts DEF IInv, PostInv
<1>3. ActInv' /\ PoolInv' /\ Counted'
  BY <1>1, TxnsKept DEF IInv, wvars
<1>4. /\ host' \in [LocalBlocks -> {0} \cup StorageBlocks]
      /\ disk' \in [StorageBlocks -> {0} \cup StorageBlocks]
  BY Zenon, <1>2 DEF Serve, ServeFails, ProgressType, WireType
<1>5. TypeOK'
  <2>1. UNCHANGED <<pending_actions, refcount, io_request, local_pool, storage_pool, started,
                    completed, run_flag, error_flag, phase, spin, repost, posted, sending>>
    BY <1>1 DEF wvars, pools, counters, flags
  <2>2. c2s' \subseteq Request /\ s2c' \subseteq [id : Txns]
    BY <1>1, <1>2 DEF WireType
  <2> QED BY <1>4, <2>1, <2>2 DEF IInv, TypeOK
<1>6. LinkInv'
  <2>1. \A x \in c2s' : x.id # m.id
    BY Zenon, <1>1, <1>2 DEF LinkInv
  <2> QED BY <1>1, <1>2, <2>1 DEF LinkInv, wvars
<1>7. RefInv'
  <2>1. ASSUME NEW u \in Txns PROVE Answering(u)' <=> Answering(u)
    <3>1. CASE u = m.id
      <4>1. Answering(u)
        BY <3>1 DEF Answering
      <4>2. [id |-> m.id] \in s2c' /\ [id |-> m.id].id = u
        BY <1>1, <3>1
      <4> QED BY <4>1, <4>2 DEF Answering
    <3>2. CASE u # m.id
      <4>1. (\E x \in c2s' : x.id = u) <=> (\E x \in c2s : x.id = u)
        BY <1>1, <3>2
      <4>2. (\E x \in s2c' : x.id = u) <=> (\E x \in s2c : x.id = u)
        BY <1>1, <3>2
      <4> QED BY <4>1, <4>2 DEF Answering
    <3> QED BY <3>1, <3>2
  <2> QED BY <1>1, <2>1 DEF IInv, RefInv, wvars, flags
<1>8. ExitInv' /\ PostInv'
  BY <1>1, <1>2 DEF IInv, ExitInv, PostInv, wvars, counters, flags
<1> QED BY <1>3, <1>5, <1>6, <1>7, <1>8 DEF IInv

-----------------------------------------------------------------------------
(* Theorems *)

(* Every step of the worker, of its completions and of the service keeps   *)
(* the inductive invariant.                                                *)
LEMMA NextInv == IInv /\ [SNext]_vars => IInv'
<1> SUFFICES ASSUME IInv, [SNext]_vars PROVE IInv'
  OBVIOUS
<1>1. CASE UNCHANGED vars
  BY <1>1, ThreadKeeps DEF vars
<1>2. CASE Done
  BY <1>2, ThreadKeeps DEF Done, vars
<1>3. CASE ServeAny \/ ServeAnyFails
  BY <1>3, ServeKeeps DEF ServeAny, ServeAnyFails
<1>4. CASE Next /\ UNCHANGED disk
  BY <1>4, SubmitResponseTasksKeeps, StartInitialKeeps, ThreadKeeps, SubmitRequestKeeps,
     SubmitRequestFailsKeeps, RecvKeeps, RepostKeeps, RecvErrorKeeps, SendKeeps, SendErrorKeeps
  DEF Next
<1> QED BY <1>1, <1>2, <1>3, <1>4 DEF SNext

(* The inductive invariant holds throughout. *)
LEMMA AlwaysInv == Spec => []IInv
BY InitInv, NextInv, PTL DEF Spec

(* The counters of initiator_comch.cpp keep within their bounds, whatever  *)
(* fails: no reference count is dropped below zero and no transaction is   *)
(* started or completed past the target.                                   *)
THEOREM TypeCorrect == Spec => []TypeOK
<1>1. IInv => TypeOK
  BY DEF IInv
<1> QED BY <1>1, AlwaysInv, PTL

(* There are no more responses on their way than transactions. *)
LEMMA ResponsesBounded ==
    ASSUME WireType
    PROVE  Cardinality(s2c) \in Nat /\ Cardinality(s2c) <= Cardinality(Txns)
<1> DEFINE f == [m \in s2c |-> m.id]
<1>1. f \in Injection(s2c, Txns)
  BY MessageFacts DEF Injection, IsInjective
<1> HIDE DEF f
<1>2. IsFiniteSet(s2c) /\ Cardinality(s2c) <= Cardinality(Txns)
  BY <1>1, TxnsAssumption, FS_Injection
<1> QED BY <1>2, FS_CardinalityType

(* Until an error is recorded, the reference count of a transaction is the *)
(* number of callbacks that it still gets, and every response finds a      *)
(* receive posted.                                                         *)
THEOREM CallbacksExactHolds == Spec => []CallbacksExact
<1>1. IInv => CallbacksExact
  <2> SUFFICES ASSUME IInv, ~error_flag PROVE CallbacksExact
    BY DEF CallbacksExact
  <2>1. ASSUME NEW t \in Txns
        PROVE  refcount[t] = IF spin = t THEN 2
                             ELSE (IF t \in sending THEN 1 ELSE 0) + (IF Answering(t) THEN 1 ELSE 0)
    <3>1. refcount[t] \in {0, 1, 2}
      BY NumberFacts DEF IInv
    <3> QED BY <3>1 DEF IInv, RefInv
  <2>2. Cardinality(s2c) <= posted
    <3>1. Cardinality(s2c) \in Nat /\ Cardinality(s2c) <= Cardinality(Txns)
      BY TypeSplit, ResponsesBounded DEF IInv
    <3>2. CASE s2c = {}
      BY <3>2, FS_EmptySet, NumberFacts DEF IInv
    <3>3. CASE s2c # {}
      <4>1. phase # "init"
        BY <3>3 DEF IInv, PostInv
      <4>2. posted = ReceiveCount - IF repost THEN 1 ELSE 0
        BY <4>1 DEF IInv, PostInv
      <4>3. Cardinality(Txns) # 0
        <5>1. PICK m \in s2c : m.id \in Txns
          BY <3>3, TypeSplit, MessageFacts DEF IInv
        <5> QED BY <5>1, TxnsAssumption, FS_EmptySet
      <4> QED BY <3>1, <4>2, <4>3, ConstantFacts
    <3> QED BY <3>2, <3>3
  <2> QED BY <2>1, <2>2 DEF CallbacksExact
<1> QED BY <1>1, AlwaysInv, PTL

(* No block and no message buffer of the worker has two users, whatever    *)
(* fails.                                                                  *)
THEOREM MemoryExclusiveHolds == Spec => []MemoryExclusive
<1>1. IInv => MemoryExclusive
  <2> SUFFICES ASSUME IInv PROVE MemoryExclusive
    OBVIOUS
  <2>1. \A t \in Txns : Active(t) =>
          /\ io_request[t].local \notin local_pool
          /\ io_request[t].storage \notin storage_pool
          /\ \A u \in Txns \ {t} : Active(u) =>
               /\ io_request[t].local # io_request[u].local
               /\ io_request[t].storage # io_request[u].storage
    BY DEF IInv, PoolInv, PoolOK, Held
  <2>2. ASSUME NEW m \in c2s
        PROVE  m = io_request[m.id] /\ spin # m.id /\ Active(m.id)
    <3>1. m.id \in Txns /\ m = io_request[m.id] /\ Answering(m.id)
      BY Zenon, TypeSplit, MessageFacts DEF IInv, LinkInv, Answering
    <3>2. refcount[m.id] # 0 /\ spin # m.id
      BY <3>1 DEF IInv, RefInv
    <3> QED BY <3>1, <3>2 DEF IInv, ActInv, Active
  <2> QED BY <2>1, <2>2 DEF MemoryExclusive
<1> QED BY <1>1, AlwaysInv, PTL

(* A data path that has started and ends has run all its transactions,     *)
(* leaves nothing in flight, has every address back and has cleared        *)
(* run_flag.                                                               *)
THEOREM ExitQuiescentHolds == Spec => []ExitQuiescent
<1>1. IInv => ExitQuiescent
  <2> SUFFICES ASSUME IInv, phase = "exited", started > 0
               PROVE  /\ started = TargetOps /\ ~run_flag
                      /\ c2s = {} /\ s2c = {} /\ sending = {}
                      /\ local_pool = LocalBlocks
                      /\ storage_pool = 1 .. Lesser(LocalCount, StorageCount)
    BY DEF ExitQuiescent
  <2>0. started \in Nat /\ started <= TargetOps
    BY NumberFacts DEF IInv
  <2>1. completed = TargetOps /\ Held \in SUBSET Txns
    BY <2>0 DEF IInv, ExitInv, Held
  <2>2. Cardinality(Held) = 0 /\ started = TargetOps /\ ~run_flag
    <3>1. Cardinality(Held) \in Nat
      BY <2>1, TxnSets
    <3>2. started = TargetOps + Cardinality(Held) /\ ~run_flag
      BY <2>1 DEF IInv, Counted
    <3> QED BY <2>0, <3>1, <3>2, ConstantFacts
  <2>3. Held = {}
    BY <2>1, <2>2, TxnSets, FS_EmptySet
  <2>4. \A t \in Txns : refcount[t] = 0 /\ t \notin sending /\ ~Answering(t)
    BY <2>3 DEF IInv, ActInv, RefInv, Held, Active
  <2>5. c2s = {} /\ s2c = {} /\ sending = {}
    BY <2>4, TypeSplit, MessageFacts DEF IInv, WireType, Answering
  <2>6. local_pool = LocalBlocks /\ storage_pool = 1 .. Lesser(LocalCount, StorageCount)
    BY Zenon, <2>3 DEF IInv, PoolInv, PoolOK, Usable
  <2> QED BY <2>2, <2>5, <2>6
<1> QED BY <1>1, AlwaysInv, PTL

-----------------------------------------------------------------------------
(* The data that is validated *)

(* The request of t has not been carried out. *)
Outstanding(t) == spin = t \/ \E m \in c2s : m.id = t

(* A write carries the expected content from the memory to the storage,    *)
(* and the read that follows it brings that content back.                  *)
DataOK(t) ==
    LET r == io_request[t]
    IN  IF r.type = "write"
          THEN /\ "read" \in pending_actions[t]
               /\ IF Outstanding(t) THEN host[r.local] = r.storage ELSE disk[r.storage] = r.storage
          ELSE /\ "read" \notin pending_actions[t]
               /\ disk[r.storage] = r.storage
               /\ Outstanding(t) \/ host[r.local] = r.storage

DataInv ==
    /\ ~error_flag
    /\ \A t \in Txns : "write" \notin pending_actions[t]
    /\ RunType = "read_only_data_validity" =>
         (\A b \in StorageBlocks : disk[b] = b) /\ (\A t \in Txns : io_request[t].type = "read")
    /\ \A t \in Txns : "validate" \in pending_actions[t] => DataOK(t)

(* A worker that starts has nothing to validate. *)
LEMMA DataInit == SInit => DataInv
BY DEF SInit, Init, InitialDisk, DataInv

(* What a step has to leave alone. *)
LEMMA DataKept ==
    ASSUME DataInv, UNCHANGED <<pending_actions, io_request, host, disk, c2s, spin, error_flag>>
    PROVE  DataInv'
<1>1. \A t \in Txns : Outstanding(t)' <=> Outstanding(t)
  BY DEF Outstanding
<1> QED BY <1>1 DEF DataInv, DataOK

(* The next request of t: a write takes the content that was copied, and a *)
(* read needs the content to be there.                                     *)
LEMMA RequestData ==
    ASSUME ProgressType, DataInv, NEW t \in Txns, NEW ops \in SUBSET Actions, "finish" \in ops,
           NEW l \in LocalBlocks, NEW s \in StorageBlocks, NextRequest(t, ops, l, s), spin = 0,
           \A u \in Held \ {t} : io_request[u].local # l,
           "validate" \in ops =>
             IF "write" \in ops THEN "copy" \in ops /\ "read" \in ops ELSE disk[s] = s,
           RunType = "read_only_data_validity" => "write" \notin ops,
           UNCHANGED <<c2s, disk, error_flag>>
    PROVE  DataInv'
<1> DEFINE r == [id |-> t, type |-> IF "write" \in ops THEN "write" ELSE "read",
                 local |-> l, storage |-> s]
<1>1. /\ spin' = t /\ host' = Prepared(ops, l, s)
      /\ pending_actions' = [pending_actions EXCEPT ![t] = AfterRequest(ops)]
      /\ io_request' = [io_request EXCEPT ![t] = r]
  BY Zenon DEF NextRequest
<1>2. io_request'[t] = r /\ pending_actions'[t] = AfterRequest(ops)
  BY <1>1 DEF ProgressType
<1>3. \A u \in Txns \ {t} :
        io_request'[u] = io_request[u] /\ pending_actions'[u] = pending_actions[u]
  BY <1>1 DEF ProgressType
<1>4. /\ "copy" \in ops => host'[l] = s
      /\ \A b \in LocalBlocks \ {l} : host'[b] = host[b]
  BY <1>1 DEF Prepared, ProgressType
<1>5. ASSUME NEW u \in Txns \ {t}, "validate" \in pending_actions'[u]
      PROVE  DataOK(u)'
  <2>1. u \in Held \ {t} /\ DataOK(u)
    BY Zenon, <1>3, <1>5 DEF Held, Active, DataInv
  <2>2. host'[io_request[u].local] = host[io_request[u].local]
    <3>1. io_request[u].local \in LocalBlocks \ {l}
      BY <2>1 DEF ProgressType, Request
    <3> QED BY Zenon, <1>4, <3>1
  <2>3. Outstanding(u)' <=> Outstanding(u)
    BY <1>1, TxnsAssumption DEF Outstanding
  <2> QED BY Zenon, <1>3, <2>1, <2>2, <2>3 DEF DataOK
<1>6. ASSUME "validate" \in pending_actions'[t] PROVE DataOK(t)'
  <2>1. Outstanding(t)'
    BY Zenon, <1>1 DEF Outstanding
  <2>2. "validate" \in ops
    BY <1>2, <1>6 DEF AfterRequest
  <2>3. CASE "write" \in ops
    <3>1. r.type = "write" /\ r.local = l /\ r.storage = s /\ host'[l] = s
      BY <1>4, <2>2, <2>3
    <3>2. "read" \in pending_actions'[t]
      BY <1>2, <2>2, <2>3 DEF AfterRequest
    <3> HIDE DEF r
    <3> QED BY <1>2, <2>1, <3>1, <3>2 DEF DataOK
  <2>4. CASE "write" \notin ops
    <3>1. r.type = "read" /\ r.storage = s /\ disk[s] = s
      BY <2>2, <2>4
    <3>2. "read" \notin pending_actions'[t]
      BY <1>2, <2>4 DEF AfterRequest
    <3> HIDE DEF r
    <3> QED BY <1>2, <2>1, <3>1, <3>2 DEF DataOK
  <2> QED BY <2>3, <2>4
<1>7. \A u \in Txns : "write" \notin pending_actions'[u]
  <2>1. "write" \notin AfterRequest(ops)
    BY DEF AfterRequest
  <2> QED BY <1>2, <1>3, <2>1 DEF DataInv
<1>8. RunType = "read_only_data_validity" =>
        (\A b \in StorageBlocks : disk'[b] = b) /\ (\A u \in Txns : io_request'[u].type = "read")
  <2> SUFFICES ASSUME RunType = "read_only_data_validity"
               PROVE  /\ \A b \in StorageBlocks : disk'[b] = b
                      /\ \A u \in Txns : io_request'[u].type = "read"
    OBVIOUS
  <2>1. \A b \in StorageBlocks : disk'[b] = b
    BY DEF DataInv
  <2>2. io_request'[t].type = "read"
    <3>1. r.type = "read"
      OBVIOUS
    <3> HIDE DEF r
    <3> QED BY <1>2, <3>1
  <2>3. \A u \in Txns \ {t} : io_request'[u].type = "read"
    BY <1>3 DEF DataInv
  <2> QED BY <2>1, <2>2, <2>3
<1> QED BY Zenon, <1>5, <1>6, <1>7, <1>8 DEF DataInv

(* A transaction that starts on addresses of its own. *)
LEMMA StartData ==
    ASSUME ProgressType, DataInv, NEW t \in Txns, NEW lp, NEW sp, lp # {}, sp # {},
           PoolOK(Held \ {t}, io_request, lp, sp), StartTransaction(t, lp, sp, FALSE),
           spin = 0, UNCHANGED <<c2s, disk>>
    PROVE  DataInv'
<1>1. PICK l \in lp, s \in sp : NextRequest(t, InitialOps, l, s)
  BY Zenon DEF StartTransaction
<1>2. UNCHANGED error_flag
  <2>1. error_flag' = (error_flag \/ ~(lp # {} /\ sp # {}) \/ FALSE)
    BY DEF StartTransaction
  <2> QED BY <2>1 DEF DataInv, ProgressType
<1>3. l \in LocalBlocks /\ s \in StorageBlocks
  BY ConstantFacts DEF PoolOK
<1>4. \A u \in Held \ {t} : io_request[u].local # l
  BY DEF PoolOK
<1>5. /\ "validate" \in InitialOps =>
           IF "write" \in InitialOps THEN "copy" \in InitialOps /\ "read" \in InitialOps
           ELSE disk[s] = s
      /\ RunType = "read_only_data_validity" => "write" \notin InitialOps
  BY <1>3, KindsAssumption DEF InitialOps, RunTypes, DataInv
<1> QED BY Zenon, <1>1, <1>2, <1>3, <1>4, <1>5, OpsFacts, RequestData

(* A callback of t: the last one of a write is followed by the read, and   *)
(* the last one of a read finds the content that is expected.              *)
LEMMA ReleaseData ==
    ASSUME ProgressType, ActInv, PoolInv, DataInv, NEW t \in Txns, refcount[t] # 0, spin = 0,
           refcount[t] = 1 => ~Outstanding(t), Release(t), UNCHANGED <<c2s, disk>>
    PROVE  DataInv'
<1>0. t \in Held
  BY DEF ActInv, Held, Active
<1>1. CASE refcount[t] # 1
  BY <1>1, DataKept DEF Release, flags
<1>2. CASE refcount[t] = 1 /\ "read" \in pending_actions[t]
  <2> DEFINE l == io_request[t].local
             s == io_request[t].storage
  <2>1. NextRequest(t, pending_actions[t], l, s) /\ UNCHANGED error_flag
    BY <1>2 DEF Release, Progress, flags
  <2>2. l \in LocalBlocks /\ s \in StorageBlocks /\ pending_actions[t] \in SUBSET Actions
        /\ "finish" \in pending_actions[t]
    BY DEF ProgressType, Request, ActInv
  <2>3. \A u \in Held \ {t} : io_request[u].local # l
    BY <1>0 DEF PoolInv, PoolOK
  <2>4. "write" \notin pending_actions[t]
    BY DEF DataInv
  <2>5. "validate" \in pending_actions[t] => disk[s] = s
    BY <1>2 DEF DataInv, DataOK
  <2> HIDE DEF l, s
  <2> QED BY <2>1, <2>2, <2>3, <2>4, <2>5, RequestData
<1>3. CASE refcount[t] = 1 /\ "read" \notin pending_actions[t]
  <2> DEFINE lp == local_pool \cup {io_request[t].local}
             sp == storage_pool \cup {io_request[t].storage}
             last == completed + 1 = TargetOps
  <2>1. FinishTransaction(t)
    BY <1>3 DEF Release, Progress, DataInv
  <2>2. Mismatch(t) = FALSE
    BY <1>3 DEF Mismatch, DataInv, DataOK
  <2>3. CASE last \/ started = TargetOps
    <3>1. /\ pending_actions' = [pending_actions EXCEPT ![t] = {}]
          /\ error_flag' = (error_flag \/ Mismatch(t))
          /\ UNCHANGED <<io_request, host, spin>>
      BY Zenon, <2>1, <2>3 DEF FinishTransaction
    <3>2. ~error_flag'
      BY Zenon, <2>2, <3>1 DEF DataInv
    <3>3. pending_actions'[t] = {} /\ \A u \in Txns \ {t} : pending_actions'[u] = pending_actions[u]
      BY <3>1 DEF ProgressType
    <3>4. \A u \in Txns : Outstanding(u)' <=> Outstanding(u)
      BY <3>1 DEF Outstanding
    <3> QED BY Zenon, <3>1, <3>2, <3>3, <3>4 DEF DataInv, DataOK
  <2>4. CASE ~(last \/ started = TargetOps)
    <3>1. StartTransaction(t, lp, sp, FALSE)
      BY Zenon, <2>1, <2>2, <2>4 DEF FinishTransaction
    <3>2. PoolOK(Held \ {t}, io_request, lp, sp) /\ lp # {} /\ sp # {}
      BY <1>0, PoolGive DEF PoolInv
    <3> HIDE DEF lp, sp
    <3> QED BY Zenon, <3>1, <3>2, StartData
  <2> QED BY <2>3, <2>4
<1> QED BY <1>1, <1>2, <1>3

(* The service carries a request out: the content of a write reaches the   *)
(* storage, that of a read the memory, and no other block is touched.      *)
LEMMA ServeData ==
    ASSUME IInv, DataInv, NEW m \in c2s, Serve(m)
    PROVE  DataInv'
<1> DEFINE t == m.id
<1>1. ProgressType /\ WireType /\ LinkInv /\ PoolInv
  BY TypeSplit DEF IInv
<1>2. /\ t \in Txns /\ m = io_request[t] /\ m.type \in {"read", "write"}
      /\ m.local \in LocalBlocks /\ m.storage \in StorageBlocks
  BY Zenon, <1>1, MessageFacts DEF LinkInv
<1>3. Answering(t) /\ Outstanding(t)
  BY DEF Answering, Outstanding
<1>4. spin # t /\ refcount[t] # 0
  BY Zenon, <1>2, <1>3 DEF IInv, RefInv
<1>5. t \in Held
  BY <1>2, <1>4 DEF IInv, ActInv, Held, Active
<1>6. /\ c2s' = c2s \ {m}
      /\ UNCHANGED <<pending_actions, io_request, spin, error_flag>>
  BY DEF Serve, wvars, flags
<1>7. \A x \in c2s : x.id = t => x = m
  BY Zenon, <1>1, <1>2 DEF LinkInv
<1>8. ~Outstanding(t)' /\ \A u \in Txns \ {t} : Outstanding(u)' <=> Outstanding(u)
  BY <1>4, <1>6, <1>7 DEF Outstanding
<1>9. \A u \in Held \ {t} : /\ u \in Txns
                            /\ io_request[u].local \in LocalBlocks \ {m.local}
                            /\ io_request[u].storage \in StorageBlocks \ {m.storage}
  <2>1. \A u \in Held \ {t} : u \in Txns /\ io_request[u] \in Request
    BY <1>1 DEF Held, ProgressType
  <2>2. \A u \in Held \ {t} : /\ io_request[u].local # io_request[t].local
                              /\ io_request[u].storage # io_request[t].storage
    BY <1>1, <1>5 DEF PoolInv, PoolOK
  <2> QED BY <1>2, <2>1, <2>2 DEF Request
<1>10. \A u \in Txns : "validate" \in pending_actions[u] => u \in Held
  BY DEF Held, Active
<1> HIDE DEF t
<1>11. CASE m.type = "read"
  <2>1. /\ host' = [host EXCEPT ![m.local] = disk[m.storage]] /\ UNCHANGED disk
    BY <1>11 DEF Serve
  <2>2. host'[m.local] = disk[m.storage] /\ \A b \in LocalBlocks \ {m.local} : host'[b] = host[b]
    BY <1>1, <1>2, <2>1 DEF ProgressType
  <2>3. ASSUME NEW u \in Txns \ {t}, "validate" \in pending_actions'[u] PROVE DataOK(u)'
    BY Zenon, <1>6, <1>8, <1>9, <1>10, <2>1, <2>2, <2>3 DEF DataInv, DataOK
  <2>4. ASSUME "validate" \in pending_actions'[t] PROVE DataOK(t)'
    BY Zenon, <1>2, <1>6, <1>8, <1>11, <2>1, <2>2, <2>4 DEF DataInv, DataOK
  <2> QED BY <1>2, <1>6, <2>1, <2>3, <2>4 DEF DataInv
<1>12. CASE m.type = "write"
  <2>1. /\ disk' = [disk EXCEPT ![m.storage] = host[m.local]] /\ UNCHANGED host
    BY <1>12 DEF Serve
  <2>2. disk'[m.storage] = host[m.local] /\ \A b \in StorageBlocks \ {m.storage} : disk'[b] = disk[b]
    BY <1>1, <1>2, <2>1 DEF WireType
  <2>3. ASSUME NEW u \in Txns \ {t}, "validate" \in pending_actions'[u] PROVE DataOK(u)'
    BY Zenon, <1>6, <1>8, <1>9, <1>10, <2>1, <2>2, <2>3 DEF DataInv, DataOK
  <2>4. ASSUME "validate" \in pending_actions'[t] PROVE DataOK(t)'
    BY Zenon, <1>2, <1>3, <1>6, <1>8, <1>12, <2>1, <2>2, <2>4 DEF DataInv, DataOK
  <2>5. RunType # "read_only_data_validity"
    BY <1>2, <1>12 DEF DataInv
  <2> QED BY Zenon, <1>2, <1>6, <2>1, <2>3, <2>4, <2>5 DEF DataInv
<1> QED BY <1>2, <1>11, <1>12

(* Every step in which nothing fails. *)
LEMMA DataStep ==
    ASSUME InitiatorFaults = {}, IInv, DataInv,
           (Next /\ UNCHANGED disk) \/ ServeAny \/ UNCHANGED vars
    PROVE  DataInv'
<1>1. ProgressType /\ WireType /\ ActInv /\ LinkInv /\ RefInv /\ PoolInv
  BY TypeSplit DEF IInv
<1>2. CASE ServeAny
  BY <1>2, ServeData DEF ServeAny
<1>3. CASE UNCHANGED vars
  BY <1>3, DataKept DEF vars, wvars, links, flags
<1>4. CASE SubmitResponseTasks /\ UNCHANGED disk
  BY <1>4, DataKept DEF SubmitResponseTasks, flags, links
<1>5. CASE StartInitial /\ UNCHANGED disk
  <2>1. PICK t \in Txns : /\ pending_actions[t] = {}
                          /\ StartTransaction(t, local_pool, storage_pool, FALSE)
    BY Zenon, <1>5 DEF StartInitial
  <2>2. Held \in SUBSET Txns /\ t \in Txns \ Held /\ Held \ {t} = Held
    BY <2>1 DEF Held, Active
  <2>3. local_pool # {} /\ storage_pool # {}
    BY <1>1, <2>2, PoolsNotEmpty DEF PoolInv
  <2>4. PoolOK(Held \ {t}, io_request, local_pool, storage_pool)
    BY <1>1, <2>2 DEF PoolInv
  <2>5. spin = 0 /\ UNCHANGED <<c2s, disk>>
    BY <1>5 DEF StartInitial, links
  <2> QED BY Zenon, <1>1, <2>1, <2>3, <2>4, <2>5, StartData
<1>6. CASE (StartPolling \/ run_data_path_ops) /\ UNCHANGED disk
  BY <1>6, DataKept DEF StartPolling, run_data_path_ops, flags, links
<1>7. CASE SubmitRequest /\ UNCHANGED disk
  <2>1. /\ c2s' = c2s \cup {io_request[spin]} /\ spin' = 0 /\ spin \in Txns
        /\ UNCHANGED <<pending_actions, io_request, host, disk, error_flag>>
    BY <1>1, <1>7 DEF SubmitRequest, flags, ProgressType
  <2>2. io_request[spin].id = spin
    BY <1>1, <2>1 DEF LinkInv
  <2>3. \A u \in Txns : Outstanding(u)' <=> Outstanding(u)
    BY <2>1, <2>2, TxnsAssumption DEF Outstanding
  <2> QED BY <2>1, <2>3 DEF DataInv, DataOK
<1>8. CASE doca_comch_consumer_task_post_recv_cb /\ UNCHANGED disk
  <2>1. PICK m \in s2c : m.id \in Txns => Release(m.id)
    BY <1>8 DEF doca_comch_consumer_task_post_recv_cb
  <2>2. m.id \in Txns /\ m = [id |-> m.id] /\ Answering(m.id)
    BY <1>1, MessageFacts DEF Answering
  <2>3. spin = 0 /\ UNCHANGED <<c2s, disk>>
    BY <1>8 DEF doca_comch_consumer_task_post_recv_cb, Polling
  <2>4. refcount[m.id] # 0 /\ ~Outstanding(m.id)
    BY <1>1, <2>2, <2>3, TxnsAssumption DEF RefInv, LinkInv, Outstanding
  <2> QED BY <1>1, <2>1, <2>2, <2>3, <2>4, ReleaseData
<1>9. CASE RepostReceive /\ UNCHANGED disk
  BY <1>9, DataKept DEF RepostReceive, flags, links
<1>10. CASE doca_comch_producer_task_send_cb /\ UNCHANGED disk
  <2>1. PICK t \in sending : Release(t)
    BY <1>10 DEF doca_comch_producer_task_send_cb
  <2>2. t \in Txns /\ refcount[t] # 0
    BY <1>1 DEF WireType, RefInv
  <2>3. spin = 0 /\ UNCHANGED <<c2s, disk>>
    BY <1>10 DEF doca_comch_producer_task_send_cb, Polling, links
  <2>4. refcount[t] = 1 => ~Outstanding(t)
    BY <1>1, <2>2, <2>3, TxnsAssumption DEF RefInv, Answering, Outstanding
  <2> QED BY <1>1, <2>1, <2>2, <2>3, <2>4, ReleaseData
<1>11. CASE (\/ SubmitRequestFails \/ doca_comch_consumer_task_post_recv_error_cb
             \/ doca_comch_producer_task_send_error_cb) /\ UNCHANGED disk
  BY <1>11 DEF SubmitRequestFails, doca_comch_consumer_task_post_recv_error_cb,
     doca_comch_producer_task_send_error_cb
<1> QED BY <1>2, <1>3, <1>4, <1>5, <1>6, <1>7, <1>8, <1>9, <1>10, <1>11 DEF Next

(* When nothing fails the worker never records an error: no validation     *)
(* finds other content than it expects, however the requests of the        *)
(* transactions are interleaved, and no address pool is found empty.       *)
THEOREM ValidationSucceeds == InitiatorFaults = {} /\ ServiceFaults = {} /\ Spec => []~error_flag
<1> DEFINE NoFaults == InitiatorFaults = {} /\ ServiceFaults = {}
<1>1. IInv /\ NoFaults /\ DataInv /\ [SNext]_vars => DataInv' /\ NoFaults'
  <2>1. NoFaults => ~ServeAnyFails /\ NoFaults'
    BY DEF ServeAnyFails, ServeFails
  <2> QED BY <2>1, DataStep DEF SNext, Done
<1>2. NoFaults /\ DataInv => ~error_flag
  BY DEF DataInv
<1> QED BY <1>1, <1>2, DataInit, AlwaysInv, PTL DEF Spec
=============================================================================
