------------------------------ MODULE GgaProofs ------------------------------
(***************************************************************************)
(* The contexts of the GGA worker, proved for any number of transactions,  *)
(* clients and requests and for every failure the model has:               *)
(*   - pending_storage_response_count is never less than what is still to  *)
(*     come, and is exactly that when nothing fails; the in-flight count   *)
(*     is the number of contexts in use (CountersExact);                   *)
(*   - a context has one user at a time (OneUserPerContext);               *)
(*   - a request of one block keeps the error it has met (ErrorKept).      *)
(*                                                                         *)
(* A callback runs one context. The invariant says of each of them what    *)
(* its tasks, pending actions and count may be together (Work, Wait), and  *)
(* that its storage requests and responses are told apart by their role.   *)
(* Progress is then one lemma: from a context that has nothing submitted   *)
(* and nothing to come, progress_transaction leaves one that has one task, *)
(* or the storage requests its count is set for, or nothing (Outcome).     *)
(***************************************************************************)
EXTENDS GgaSystem, FiniteSetTheorems, TLAPS

Fields == {"pending", "initial", "count", "idx", "n", "io", "result", "tasks", "sends"}
Tasks == {"receive", "reply", "memcpy", "create", "recover", "decompress"}

(* A context: its fields and the range of its counter. *)
Shape(x) ==
    /\ DOMAIN x = Fields
    /\ x.count \in Nat /\ x.count < 256
    /\ x.sends \subseteq Roles

(* What is submitted for it: one task at most, the receive task when the   *)
(* context is free and others when it is not; a context in use has still   *)
(* to reply.                                                               *)
Work(x) ==
    /\ x.tasks = {} \/ \E a \in Tasks : x.tasks = {a}
    /\ "receive" \in x.tasks => x.pending = {}
    /\ x.pending = {} => x.tasks \subseteq {"receive"}
    /\ x.pending # {} => /\ "reply_to_initiator" \in x.pending
                         /\ x.initial \in {ReadActions, WriteActions}

(* A transaction of one block, between two callbacks: it does not start    *)
(* again, and what has yet to be written has met no error.                 *)
Single(x) ==
    x.pending # {} =>
      /\ x.n = 1
      /\ "fetch_from_storage" \notin x.pending
      /\ "advance_block" \in x.pending => x.idx = 0
      /\ "memcpy" \in x.tasks => "fetch_from_initiator" \in x.pending
      /\ "create" \in x.tasks => /\ "produce_ec_blocks" \in x.pending
                                 /\ "fetch_from_initiator" \notin x.pending
      /\ x.pending \cap {"fetch_from_initiator", "produce_ec_blocks"} # {} =>
           x.count = 0 /\ x.result # "IO_FAILED"

(* The counter and the messages of a transaction. *)
Wait(t) ==
    /\ \A m \in Outstanding(t) : ~(m \in s2t /\ m \in t2s)
    /\ \A m1, m2 \in Outstanding(t) : m1.role = m2.role => m1 = m2
    /\ tx[t].count >= ToCome(t)
    /\ GgaFaults = {} => tx[t].count = ToCome(t)
    /\ tx[t].tasks # {} => tx[t].count = 0
    /\ tx[t].pending = {} => tx[t].count = 0

MailInv ==
    /\ IsFiniteSet(s2t) /\ IsFiniteSet(t2s)
    /\ \A m \in s2t \cup t2s : m.txn \in Txns /\ m.role \in Roles
    /\ \A m \in t2s : m.result \in Results
    /\ \A m \in c2s : m.blocks \in Nat \ {0}

ContextInv ==
    /\ tx = [t \in Txns |-> tx[t]]
    /\ \A t \in Txns : Shape(tx[t]) /\ Work(tx[t])
    /\ phase = "start" => \A t \in Txns : tx[t].pending = {}

Busy == {t \in Txns : tx[t].pending # {}}
FlightInv == in_flight = Cardinality(Busy)
WaitInv == Continues => \A t \in Txns : Wait(t)
SingleInv == BlockLimit = 1 /\ Continues => \A t \in Txns : Single(tx[t])

GInv == MailInv /\ ContextInv /\ FlightInv /\ WaitInv /\ SingleInv

-----------------------------------------------------------------------------
(* The first pending action *)

(* A set of indices of Order has a least element. *)
LEMMA MinFacts ==
    ASSUME NEW S, S \subseteq 1 .. 8, S # {}
    PROVE  Min(S) \in S /\ \A k \in S : Min(S) <= k
<1>1. \E i \in S : \A k \in S : i <= k
  <2>1. CASE 1 \in S
    BY <2>1
  <2>2. CASE 1 \notin S /\ 2 \in S
    BY <2>2
  <2>3. CASE 1 \notin S /\ 2 \notin S /\ 3 \in S
    BY <2>3
  <2>4. CASE 1 \notin S /\ 2 \notin S /\ 3 \notin S /\ 4 \in S
    BY <2>4
  <2>5. CASE 1 \notin S /\ 2 \notin S /\ 3 \notin S /\ 4 \notin S /\ 5 \in S
    BY <2>5
  <2>6. CASE 1 \notin S /\ 2 \notin S /\ 3 \notin S /\ 4 \notin S
           /\ 5 \notin S /\ 6 \in S
    BY <2>6
  <2>7. CASE 1 \notin S /\ 2 \notin S /\ 3 \notin S /\ 4 \notin S
           /\ 5 \notin S /\ 6 \notin S /\ 7 \in S
    BY <2>7
  <2>8. CASE 1 \notin S /\ 2 \notin S /\ 3 \notin S /\ 4 \notin S
           /\ 5 \notin S /\ 6 \notin S /\ 7 \notin S /\ 8 \in S
    BY <2>8
  <2>9. PICK k : k \in S
    OBVIOUS
  <2>10. k \in {1, 2, 3, 4, 5, 6, 7, 8}
    BY <2>9
  <2> QED  BY <2>1, <2>2, <2>3, <2>4, <2>5, <2>6, <2>7, <2>8, <2>9, <2>10, Zenon
<1> QED  BY <1>1, Zenon DEF Min

(* The action progress_transaction starts is a pending one, and a fetch if *)
(* there is one.                                                           *)
LEMMA FirstFacts ==
    ASSUME NEW p
    PROVE  /\ First(p) # "none" => First(p) \in p
           /\ "fetch_from_storage" \in p => First(p) = "fetch_from_storage"
           /\ "fetch_from_initiator" \in p =>
                First(p) \in {"fetch_from_storage", "fetch_from_initiator"}
           /\ "reply_to_initiator" \in p => First(p) # "none"
<1> DEFINE left == {i \in 1 .. 8 : Order[i] \in p}
<1>1. DOMAIN Order = 1 .. 8
  BY DEF Order
<1>2. First(p) = IF left = {} THEN "none" ELSE Order[Min(left)]
  BY <1>1 DEF First
<1>3. ASSUME left # {} PROVE Min(left) \in left /\ \A k \in left : Min(left) <= k
  <2>1. left \subseteq 1 .. 8
    OBVIOUS
  <2> HIDE DEF left
  <2> QED  BY Zenon, <1>3, <2>1, MinFacts
<1>4. /\ Order[1] = "fetch_from_storage" /\ Order[2] = "fetch_from_initiator"
      /\ Order[8] = "reply_to_initiator"
      /\ \A i \in 1 .. 8 : Order[i] # "none"
  BY DEF Order
<1>5. First(p) # "none" => First(p) \in p
  BY <1>2, <1>3
<1>6. ASSUME "fetch_from_storage" \in p PROVE First(p) = "fetch_from_storage"
  <2>1. 1 \in left
    BY <1>4, <1>6
  <2>2. Min(left) = 1
    BY <2>1, <1>3
  <2> QED  BY <2>1, <2>2, <1>2, <1>4
<1>7. ASSUME "fetch_from_initiator" \in p
      PROVE  First(p) \in {"fetch_from_storage", "fetch_from_initiator"}
  <2>1. 2 \in left
    BY <1>4, <1>7
  <2>2. Min(left) \in {1, 2}
    BY <2>1, <1>3
  <2> QED  BY <2>1, <2>2, <1>2, <1>4
<1>8. ASSUME "reply_to_initiator" \in p PROVE First(p) # "none"
  <2>1. 8 \in left
    BY <1>4, <1>8
  <2>2. Min(left) \in 1 .. 8
    BY <2>1, <1>3
  <2> QED  BY <2>1, <2>2, <1>2, <1>4
<1> QED  BY <1>5, <1>6, <1>7, <1>8

-----------------------------------------------------------------------------
(* Progress *)

(* What a callback may make of context t: a context of the right form,     *)
(* which keeps an error of its only block.                                 *)
Kept(t, y) ==
    tx[t].pending # {} /\ tx[t].result = "IO_FAILED" /\ y.pending # {} => y.result = "IO_FAILED"
Fine(t, y) ==
    /\ Shape(y) /\ Work(y)
    /\ BlockLimit = 1 => Kept(t, y) /\ (Continues' => Single(y))

(* A context that a callback has left with nothing submitted. *)
Ready(x) ==
    /\ Shape(x)
    /\ x.tasks = {} /\ x.count = 0
    /\ "reply_to_initiator" \in x.pending
    /\ x.initial \in {ReadActions, WriteActions}

(* The same for a transaction of one block. *)
ReadySingle(t, x) ==
    /\ x.n = 1
    /\ "advance_block" \in x.pending => x.idx = 0
    /\ "fetch_from_storage" \in x.pending =>
         x.pending \cap {"fetch_from_initiator", "produce_ec_blocks"} = {}
    /\ x.pending \cap {"fetch_from_initiator", "produce_ec_blocks"} # {} => x.result # "IO_FAILED"
    /\ tx[t].pending # {} /\ tx[t].result = "IO_FAILED" =>
         x.result = "IO_FAILED" /\ "fetch_from_storage" \notin x.pending

(* T has one message of t for each of the roles R. *)
OnePerRole(t, T, R) ==
    /\ \A m \in T : m.txn = t /\ m.role \in R
    /\ \A r \in R : \E m \in T : m.role = r
    /\ \A m1, m2 \in T : m1.role = m2.role => m1 = m2

(* What progress_transaction makes of it: a task, or storage requests T to *)
(* the roles R and the count for them, or nothing. S are the sends that    *)
(* the context had before.                                                 *)
Leaves(t, S, y, R, T) ==
    /\ tx' = [tx EXCEPT ![t] = y]
    /\ Fine(t, y)
    /\ y.pending # {}
    /\ R \subseteq Roles
    /\ y.sends = S \cup R
    /\ y.tasks # {} => y.count = 0
    /\ y.count >= 2 * Cardinality(R)
    /\ GgaFaults = {} => y.count = 2 * Cardinality(R)
    /\ s2t' = s2t \cup T
    /\ OnePerRole(t, T, R)
Outcome(t, S) == \E y, R, T : Leaves(t, S, y, R, T)

(* The sets of roles and their sizes. *)
LEMMA RolesFacts ==
    /\ IsFiniteSet(Roles) /\ Cardinality(Roles) = 3
    /\ IsFiniteSet(Parts) /\ Cardinality(Parts) = 2 /\ Parts \subseteq Roles
    /\ IsFiniteSet({}) /\ Cardinality({}) = 0
<1>1. IsFiniteSet({}) /\ Cardinality({}) = 0
  BY FS_EmptySet
<1>2. ASSUME NEW a, NEW b, a # b
      PROVE  IsFiniteSet({a, b}) /\ Cardinality({a, b}) = 2
  <2>1. IsFiniteSet({} \cup {a}) /\ Cardinality({} \cup {a}) = 1
    BY <1>1, FS_AddElement
  <2>2. /\ IsFiniteSet(({} \cup {a}) \cup {b})
        /\ Cardinality(({} \cup {a}) \cup {b}) = 2
    BY <2>1, <1>2, FS_AddElement
  <2>3. ({} \cup {a}) \cup {b} = {a, b}
    OBVIOUS
  <2> QED  BY <2>2, <2>3
<1>3. IsFiniteSet({"data_1", "data_2"}) /\ Cardinality({"data_1", "data_2"}) = 2
  BY Zenon, <1>2
<1>4. /\ IsFiniteSet({"data_1", "data_2"} \cup {"data_p"})
      /\ Cardinality({"data_1", "data_2"} \cup {"data_p"}) = 3
  BY <1>3, FS_AddElement
<1>5. {"data_1", "data_2"} \cup {"data_p"} = Roles
  BY DEF Roles
<1>6. Parts \in {{"data_1", "data_2"}, {"data_p", "data_2"}, {"data_1", "data_p"}}
  BY DEF Parts
<1>7. /\ IsFiniteSet({"data_p", "data_2"}) /\ Cardinality({"data_p", "data_2"}) = 2
      /\ IsFiniteSet({"data_1", "data_p"}) /\ Cardinality({"data_1", "data_p"}) = 2
  BY Zenon, <1>2
<1>8. IsFiniteSet(Parts) /\ Cardinality(Parts) = 2
  BY <1>3, <1>6, <1>7
<1>9. Parts \subseteq Roles
  BY <1>6 DEF Roles
<1> QED  BY <1>1, <1>4, <1>5, <1>8, <1>9

(* Moving on to the next block, or past the last. *)
LEMMA AdvanceFacts ==
    ASSUME NEW t, NEW x, Ready(x), BlockLimit = 1 => ReadySingle(t, x),
           NEW y, y = IF First(x.pending) = "advance_block" THEN advance_block(x) ELSE x
    PROVE  /\ Ready(y) /\ y.sends = x.sends
           /\ BlockLimit = 1 => ReadySingle(t, y)
<1>1. CASE First(x.pending) # "advance_block"
  BY <1>1
<1>2. CASE First(x.pending) = "advance_block"
  <2> DEFINE idx == (x.idx + 1) % 256
  <2>1. y = [x EXCEPT !.idx = idx,
                      !.pending = IF idx # x.n THEN x.initial ELSE @ \ {"advance_block"}]
    BY <1>2 DEF advance_block
  <2>2. "advance_block" \in x.pending
    BY <1>2, FirstFacts
  <2>3. Ready(y) /\ y.sends = x.sends
    <3> HIDE DEF idx
    <3>1. /\ y.sends = x.sends /\ y.count = x.count /\ y.tasks = x.tasks
          /\ y.initial = x.initial /\ DOMAIN y = Fields
          /\ y.pending \in {x.initial, x.pending \ {"advance_block"}}
      BY Zenon, <2>1 DEF Ready, Shape, Fields
    <3>2. "reply_to_initiator" \in x.initial
      BY DEF Ready, ReadActions, WriteActions
    <3> QED  BY <3>1, <3>2 DEF Ready, Shape
  <2>4. ASSUME BlockLimit = 1 PROVE ReadySingle(t, y)
    <3>1. x.idx = 0 /\ x.n = 1
      BY <2>2, <2>4 DEF ReadySingle
    <3>a. idx = x.n
      BY <3>1
    <3> HIDE DEF idx
    <3>2. y.pending = x.pending \ {"advance_block"}
      BY Zenon, <2>1, <3>a DEF Ready, Shape, Fields
    <3>3. y.n = x.n /\ y.result = x.result
      BY Zenon, <2>1 DEF Ready, Shape, Fields
    <3> QED  BY <3>2, <3>3, <2>4 DEF ReadySingle
  <2> QED  BY <2>3, <2>4
<1> QED  BY <1>1, <1>2

(* A task is submitted, or its submission fails. *)
LEMMA TaskOutcome ==
    ASSUME NEW t, NEW y, Ready(y), BlockLimit = 1 => ReadySingle(t, y),
           "fetch_from_storage" \notin y.pending,
           NEW task \in Tasks \ {"receive"},
           task = "memcpy" => "fetch_from_initiator" \in y.pending,
           task = "create" => /\ "produce_ec_blocks" \in y.pending
                              /\ "fetch_from_initiator" \notin y.pending,
           NEW z, z \in {[y EXCEPT !.tasks = @ \cup {task}], y},
           tx' = [tx EXCEPT ![t] = z], s2t' = s2t
    PROVE  Outcome(t, y.sends)
<1>1. /\ DOMAIN z = Fields /\ z.tasks \in {{}, {task}}
      /\ z.pending = y.pending /\ z.initial = y.initial /\ z.count = 0 /\ z.sends = y.sends
      /\ z.n = y.n /\ z.idx = y.idx /\ z.result = y.result
  BY DEF Ready, Shape, Fields
<1>2. Shape(z)
  BY <1>1 DEF Ready, Shape
<1>3. Work(z)
  BY <1>1 DEF Ready, Work
<1>4. ASSUME BlockLimit = 1 PROVE Kept(t, z) /\ Single(z)
  <2>1. Kept(t, z)
    BY <1>1, <1>4 DEF ReadySingle, Kept
  <2>2. Single(z)
    BY <1>1, <1>4 DEF ReadySingle, Single
  <2> QED  BY <2>1, <2>2
<1>5. Fine(t, z)
  BY <1>2, <1>3, <1>4 DEF Fine
<1>6. {} \subseteq Roles /\ z.sends = y.sends \cup {}
  BY <1>1
<1>7. z.count >= 2 * Cardinality({}) /\ z.count = 2 * Cardinality({})
  BY <1>1, RolesFacts
<1>8. z.pending # {}
  BY <1>1 DEF Ready
<1>9. s2t' = s2t \cup {}
  OBVIOUS
<1>10. OnePerRole(t, {}, {})
  BY DEF OnePerRole
<1>11. Leaves(t, y.sends, z, {}, {})
  BY <1>1, <1>5, <1>6, <1>7, <1>8, <1>9, <1>10, Zenon DEF Leaves
<1> QED  BY <1>11, Zenon DEF Outcome

(* The storage requests of a block differ in their role. *)
LEMMA RequestsPerRole ==
    ASSUME NEW t, NEW x, NEW type, NEW R, NEW T, T = {StorageRequest(t, x, type, r) : r \in R}
    PROVE  OnePerRole(t, T, R)
<1>1. \A r : StorageRequest(t, x, type, r).txn = t /\ StorageRequest(t, x, type, r).role = r
  BY DEF StorageRequest
<1>2. \A m \in T : \E r \in R : m = StorageRequest(t, x, type, r)
  OBVIOUS
<1>3. \A r \in R : StorageRequest(t, x, type, r) \in T
  OBVIOUS
<1>4. \A m \in T : m.txn = t /\ m.role \in R /\ m = StorageRequest(t, x, type, m.role)
  BY <1>1, <1>2
<1> QED  BY <1>1, <1>3, <1>4, Zenon DEF OnePerRole

(* The reads of a block are sent, or some of them. *)
LEMMA ReadOutcome ==
    ASSUME NEW t, NEW y, NEW stop, NEW error, Ready(y), BlockLimit = 1 => ReadySingle(t, y),
           "fetch_from_storage" \in y.pending,
           start_read(t, y, stop, error)
    PROVE  Outcome(t, y.sends)
<1>1. PICK R \in SUBSET Parts :
        /\ R = Parts \/ "submit" \in GgaFaults
        /\ tx' = [tx EXCEPT ![t] = Fetching(y, R)]
        /\ s2t' = s2t \cup {StorageRequest(t, y, "read", r) : r \in R}
        /\ Flags(stop, error \/ R # Parts)
  BY Zenon DEF start_read
<1>2. PICK z : z = Fetching(y, R)
  OBVIOUS
<1>3. /\ DOMAIN z = Fields /\ z.tasks = {} /\ z.count = 4 /\ z.sends = y.sends \cup R
      /\ z.pending = (y.pending \ {"fetch_from_storage"}) \cup RecoverAction
      /\ z.initial = y.initial /\ z.n = y.n /\ z.idx = y.idx
  BY <1>2 DEF Ready, Shape, Fields, Fetching, ReadCompletions
<1>4. R \subseteq Roles
  BY <1>1, RolesFacts
<1>5. RecoverAction \subseteq {"recover_a", "recover_b"}
  BY DEF RecoverAction
<1>6. Shape(z)
  BY <1>3, <1>4 DEF Ready, Shape
<1>7. Work(z)
  BY <1>3, <1>5 DEF Ready, Work
<1>8. ASSUME BlockLimit = 1 PROVE Kept(t, z) /\ Single(z)
  <2>1. Kept(t, z)
    BY <1>8 DEF ReadySingle, Kept
  <2>2. Single(z)
    BY <1>3, <1>5, <1>8 DEF ReadySingle, Single
  <2> QED  BY <2>1, <2>2
<1>9. Fine(t, z)
  BY <1>6, <1>7, <1>8 DEF Fine
<1>10. Cardinality(R) \in Nat /\ Cardinality(R) <= 2 /\ (GgaFaults = {} => Cardinality(R) = 2)
  <2>1. IsFiniteSet(R) /\ Cardinality(R) <= 2
    BY <1>1, RolesFacts, FS_Subset
  <2>2. Cardinality(R) \in Nat
    BY <2>1, FS_CardinalityType
  <2>3. GgaFaults = {} => Cardinality(R) = 2
    BY <1>1, RolesFacts
  <2> QED  BY <2>1, <2>2, <2>3
<1>11. z.count >= 2 * Cardinality(R) /\ (GgaFaults = {} => z.count = 2 * Cardinality(R))
  BY <1>3, <1>10
<1>12. z.pending # {}
  BY <1>3 DEF Ready
<1>13. PICK T : T = {StorageRequest(t, y, "read", r) : r \in R}
  BY Zenon
<1>14. s2t' = s2t \cup T /\ OnePerRole(t, T, R)
  <2>1. s2t' = s2t \cup T
    BY <1>1, <1>13
  <2>2. OnePerRole(t, T, R)
    BY <1>13, RequestsPerRole
  <2> QED  BY <2>1, <2>2
<1>15. tx' = [tx EXCEPT ![t] = z]
  BY <1>1, <1>2
<1>16. Leaves(t, y.sends, z, R, T)
  BY <1>3, <1>4, <1>9, <1>11, <1>12, <1>14, <1>15, Zenon DEF Leaves
<1> QED  BY <1>16, Zenon DEF Outcome

(* The writes of a block are sent, or some of them and the transaction is  *)
(* cancelled.                                                              *)
LEMMA CommitOutcome ==
    ASSUME NEW t, NEW x, Ready(x), start_commit_to_storage(t, x),
           BlockLimit = 1 =>
             /\ ReadySingle(t, x)
             /\ x.pending \cap {"fetch_from_storage", "fetch_from_initiator",
                                "produce_ec_blocks"} = {}
             /\ ~(tx[t].pending # {} /\ tx[t].result = "IO_FAILED")
    PROVE  Outcome(t, x.sends)
<1>1. PICK R \in {{}, {"data_1"}, {"data_1", "data_2"}, Roles} :
        /\ R = Roles \/ "submit" \in GgaFaults
        /\ tx' = [tx EXCEPT ![t] = Committing(x, R)]
        /\ s2t' = s2t \cup {StorageRequest(t, x, "write", r) : r \in R}
        /\ Flags(FALSE, R # Roles)
  BY Zenon DEF start_commit_to_storage
<1>2. PICK z : z = Committing(x, R)
  OBVIOUS
<1>3. /\ DOMAIN z = Fields /\ z.tasks = {} /\ z.count = 6 /\ z.sends = x.sends \cup R
      /\ z.pending \in {x.pending, x.pending \ ProcessingActions}
      /\ z.initial = x.initial /\ z.n = x.n /\ z.idx = x.idx
  BY <1>2 DEF Ready, Shape, Fields, Committing, set_error, WriteCompletions
<1>4. R \subseteq Roles
  BY <1>1 DEF Roles
<1>5. Shape(z)
  BY <1>3, <1>4 DEF Ready, Shape
<1>6. "reply_to_initiator" \in z.pending /\ z.pending \subseteq x.pending
  BY <1>3 DEF Ready, ProcessingActions
<1>7. Work(z)
  BY <1>3, <1>6 DEF Ready, Work
<1>8. ASSUME BlockLimit = 1 PROVE Kept(t, z) /\ Single(z)
  <2>1. Kept(t, z)
    BY <1>8 DEF Kept
  <2>2. Single(z)
    BY <1>3, <1>6, <1>8 DEF ReadySingle, Single
  <2> QED  BY <2>1, <2>2
<1>9. Fine(t, z)
  BY <1>5, <1>7, <1>8 DEF Fine
<1>10. Cardinality(R) \in Nat /\ Cardinality(R) <= 3 /\ (GgaFaults = {} => Cardinality(R) = 3)
  <2>1. IsFiniteSet(R) /\ Cardinality(R) <= 3
    BY <1>4, RolesFacts, FS_Subset
  <2>2. Cardinality(R) \in Nat
    BY <2>1, FS_CardinalityType
  <2>3. GgaFaults = {} => Cardinality(R) = 3
    BY <1>1, RolesFacts
  <2> QED  BY <2>1, <2>2, <2>3
<1>11. z.count >= 2 * Cardinality(R) /\ (GgaFaults = {} => z.count = 2 * Cardinality(R))
  BY <1>3, <1>10
<1>12. PICK T : T = {StorageRequest(t, x, "write", r) : r \in R}
  BY Zenon
<1>13. s2t' = s2t \cup T /\ OnePerRole(t, T, R)
  <2>1. s2t' = s2t \cup T
    BY <1>1, <1>12
  <2>2. OnePerRole(t, T, R)
    BY <1>12, RequestsPerRole
  <2> QED  BY <2>1, <2>2
<1>14. tx' = [tx EXCEPT ![t] = z]
  BY <1>1, <1>2
<1>15. z.pending # {}
  BY <1>6
<1>16. Leaves(t, x.sends, z, R, T)
  BY <1>3, <1>4, <1>9, <1>11, <1>13, <1>14, <1>15, Zenon DEF Leaves
<1> QED  BY <1>16, Zenon DEF Outcome

(* progress_transaction starts the next thing of a context that has        *)
(* nothing submitted.                                                      *)
LEMMA Progress ==
    ASSUME NEW t, NEW x, NEW stop, NEW error, Ready(x), BlockLimit = 1 => ReadySingle(t, x),
           progress_transaction(t, x, stop, error)
    PROVE  Outcome(t, x.sends)
<1>0. PICK y, next :
        /\ y = IF First(x.pending) = "advance_block" THEN advance_block(x) ELSE x
        /\ next = First(y.pending)
        /\ \/ next = "fetch_from_storage" /\ start_read(t, y, stop, error)
           \/ next = "fetch_from_initiator" /\ start_write(t, y, stop, error)
           \/ next \in {"recover_a", "recover_b"} /\ start_recover(t, y, stop, error)
           \/ next = "decompress" /\ start_decompress(t, y, stop, error)
           \/ next = "produce_ec_blocks" /\ start_create_ec_blocks(t, y, stop, error)
           \/ next = "reply_to_initiator" /\ send_transaction_complete(t, y, stop, error)
           \/ next = "none" /\ NoProgress(t, y, stop, error)
  BY Zenon DEF progress_transaction
<1>1. y = IF First(x.pending) = "advance_block" THEN advance_block(x) ELSE x
  BY <1>0
<1>2. next = First(y.pending)
  BY <1>0
<1>3. \/ next = "fetch_from_storage" /\ start_read(t, y, stop, error)
      \/ next = "fetch_from_initiator" /\ start_write(t, y, stop, error)
      \/ next \in {"recover_a", "recover_b"} /\ start_recover(t, y, stop, error)
      \/ next = "decompress" /\ start_decompress(t, y, stop, error)
      \/ next = "produce_ec_blocks" /\ start_create_ec_blocks(t, y, stop, error)
      \/ next = "reply_to_initiator" /\ send_transaction_complete(t, y, stop, error)
      \/ next = "none" /\ NoProgress(t, y, stop, error)
  BY <1>0, Zenon
<1>4. Ready(y) /\ y.sends = x.sends /\ (BlockLimit = 1 => ReadySingle(t, y))
  BY <1>1, AdvanceFacts
<1>5. next # "none"
  BY <1>2, <1>4, FirstFacts DEF Ready
<1>6. next \in y.pending
  BY <1>2, <1>5, FirstFacts
<1>7. next # "fetch_from_storage" => "fetch_from_storage" \notin y.pending
  BY <1>2, FirstFacts
<1>8. next \notin {"fetch_from_storage", "fetch_from_initiator"} =>
        "fetch_from_initiator" \notin y.pending
  BY <1>2, FirstFacts
<1>9. ASSUME NEW task \in Tasks \ {"receive"}, NEW stops, SubmitTask(t, y, task, stops, stop, error),
             next # "fetch_from_storage",
             task = "memcpy" => next = "fetch_from_initiator",
             task = "create" => next = "produce_ec_blocks"
      PROVE  Outcome(t, y.sends)
  <2>1. PICK z : /\ z \in {[y EXCEPT !.tasks = @ \cup {task}], y}
                 /\ tx' = [tx EXCEPT ![t] = z] /\ s2t' = s2t
    BY <1>9, Zenon DEF SubmitTask
  <2>2. /\ task = "memcpy" => "fetch_from_initiator" \in y.pending
        /\ task = "create" => /\ "produce_ec_blocks" \in y.pending
                              /\ "fetch_from_initiator" \notin y.pending
    BY <1>6, <1>8, <1>9
  <2> QED  BY Zenon, <1>4, <1>7, <1>9, <2>1, <2>2, TaskOutcome
<1>10. CASE next = "fetch_from_storage" /\ start_read(t, y, stop, error)
  BY <1>4, <1>6, <1>10, ReadOutcome
<1>11. CASE next = "fetch_from_initiator" /\ start_write(t, y, stop, error)
  BY Zenon, <1>4, <1>9, <1>11 DEF start_write, Tasks
<1>12. CASE next \in {"recover_a", "recover_b"} /\ start_recover(t, y, stop, error)
  BY Zenon, <1>4, <1>9, <1>12 DEF start_recover, Tasks
<1>13. CASE next = "decompress" /\ start_decompress(t, y, stop, error)
  BY Zenon, <1>4, <1>9, <1>13 DEF start_decompress, Tasks
<1>14. CASE next = "produce_ec_blocks" /\ start_create_ec_blocks(t, y, stop, error)
  BY Zenon, <1>4, <1>9, <1>14 DEF start_create_ec_blocks, Tasks
<1>15. CASE next = "reply_to_initiator" /\ send_transaction_complete(t, y, stop, error)
  <2>1. PICK z : /\ z \in {[y EXCEPT !.tasks = @ \cup {"reply"}], y}
                 /\ tx' = [tx EXCEPT ![t] = z] /\ s2t' = s2t
    BY <1>15, Zenon DEF send_transaction_complete
  <2>2. "reply" \in Tasks \ {"receive"} /\ "reply" # "memcpy" /\ "reply" # "create"
    BY DEF Tasks
  <2>3. "fetch_from_storage" \notin y.pending
    BY <1>7, <1>15
  <2>4. Outcome(t, y.sends)
    BY Zenon, <1>4, <2>1, <2>2, <2>3, TaskOutcome
  <2> QED  BY <1>4, <2>4
<1> QED  BY <1>3, <1>4, <1>5, <1>10, <1>11, <1>12, <1>13, <1>14, <1>15

-----------------------------------------------------------------------------
(* What is still to come for a transaction t with sends S, when A are the  *)
(* requests on their way to the targets and B the responses.               *)
Mail(t, A, B) == {m \in A \cup B : m.txn = t}
Left(t, S, A, B) == Cardinality(S) + Cardinality(Mail(t, A, B))

(* It is a number, and when it is 0 there is nothing. *)
LEMMA LeftFacts ==
    ASSUME NEW t, NEW S, S \subseteq Roles, NEW A, IsFiniteSet(A), NEW B, IsFiniteSet(B)
    PROVE  /\ IsFiniteSet(S) /\ Cardinality(S) \in Nat
           /\ IsFiniteSet(Mail(t, A, B)) /\ Cardinality(Mail(t, A, B)) \in Nat
           /\ Left(t, S, A, B) \in Nat
           /\ Left(t, S, A, B) <= 0 => S = {} /\ Mail(t, A, B) = {}
<1>1. IsFiniteSet(S) /\ Cardinality(S) \in Nat
  BY RolesFacts, FS_Subset, FS_CardinalityType
<1>2. IsFiniteSet(A \cup B)
  BY Zenon, FS_Union
<1>3. Mail(t, A, B) \subseteq A \cup B
  BY DEF Mail
<1>4. IsFiniteSet(Mail(t, A, B))
  BY <1>2, <1>3, FS_Subset
<1>5. Cardinality(Mail(t, A, B)) \in Nat
  BY <1>4, FS_CardinalityType
<1>6. Left(t, S, A, B) \in Nat
  BY <1>1, <1>5 DEF Left
<1>7. ASSUME Left(t, S, A, B) <= 0 PROVE S = {} /\ Mail(t, A, B) = {}
  <2>1. Cardinality(S) = 0 /\ Cardinality(Mail(t, A, B)) = 0
    BY <1>1, <1>5, <1>7 DEF Left
  <2> QED  BY <1>1, <1>4, <2>1, FS_EmptySet
<1> QED  BY <1>1, <1>4, <1>5, <1>6, <1>7

(* A completion of a send is one thing less, *)
LEMMA LeftSend ==
    ASSUME NEW t, NEW S, S \subseteq Roles, NEW A, IsFiniteSet(A), NEW B, IsFiniteSet(B),
           NEW r \in S
    PROVE  Left(t, S \ {r}, A, B) = Left(t, S, A, B) - 1
<1>1. IsFiniteSet(S) /\ Cardinality(S) \in Nat /\ Cardinality(Mail(t, A, B)) \in Nat
  BY LeftFacts
<1>2. Cardinality(S \ {r}) = Cardinality(S) - 1
  BY Zenon, <1>1, FS_RemoveElement
<1> QED  BY <1>1, <1>2 DEF Left

(* and so is a response. *)
LEMMA LeftResponse ==
    ASSUME NEW t, NEW S, S \subseteq Roles, NEW A, IsFiniteSet(A), NEW B, IsFiniteSet(B),
           NEW m \in B, m.txn = t, m \notin A
    PROVE  Left(t, S, A, B \ {m}) = Left(t, S, A, B) - 1
<1>1. /\ IsFiniteSet(Mail(t, A, B)) /\ Cardinality(Mail(t, A, B)) \in Nat
      /\ Cardinality(S) \in Nat
  BY LeftFacts
<1>2. m \in Mail(t, A, B) /\ Mail(t, A, B \ {m}) = Mail(t, A, B) \ {m}
  BY DEF Mail
<1>3. Cardinality(Mail(t, A, B \ {m})) = Cardinality(Mail(t, A, B)) - 1
  BY Zenon, <1>1, <1>2, FS_RemoveElement
<1> QED  BY <1>1, <1>3 DEF Left

(* Requests that are lost do not add anything. *)
LEMMA LeftLost ==
    ASSUME NEW t, NEW S, S \subseteq Roles, NEW A, IsFiniteSet(A), NEW B, IsFiniteSet(B),
           NEW C \in SUBSET A
    PROVE  Left(t, S, C, B) <= Left(t, S, A, B) /\ IsFiniteSet(C)
<1>1. /\ IsFiniteSet(Mail(t, A, B)) /\ Cardinality(Mail(t, A, B)) \in Nat
      /\ Cardinality(S) \in Nat
  BY LeftFacts
<1>2. Mail(t, C, B) \subseteq Mail(t, A, B)
  BY DEF Mail
<1>3. IsFiniteSet(Mail(t, C, B)) /\ Cardinality(Mail(t, C, B)) <= Cardinality(Mail(t, A, B))
  BY <1>1, <1>2, FS_Subset
<1>4. Cardinality(Mail(t, C, B)) \in Nat
  BY <1>3, FS_CardinalityType
<1>5. IsFiniteSet(C)
  BY FS_Subset
<1> QED  BY <1>1, <1>3, <1>4, <1>5 DEF Left

(* One request per role: as many as there are roles. *)
LEMMA RequestsCount ==
    ASSUME NEW t, NEW T, NEW R, R \subseteq Roles, OnePerRole(t, T, R)
    PROVE  IsFiniteSet(T) /\ Cardinality(T) = Cardinality(R) /\ Cardinality(R) \in Nat
<1>1. PICK g : g = [r \in R |-> CHOOSE m \in T : m.role = r]
  BY Zenon
<1>2. \A r \in R : g[r] \in T /\ g[r].role = r
  BY <1>1 DEF OnePerRole
<1>3. g \in [R -> T]
  BY <1>1, <1>2
<1>4. g \in Injection(R, T)
  BY <1>2, <1>3 DEF Injection, IsInjective
<1>5. g \in Surjection(R, T)
  <2>1. \A m \in T : m.role \in R /\ g[m.role] = m
    BY <1>2 DEF OnePerRole
  <2> QED  BY <1>3, <2>1 DEF Surjection
<1>6. ExistsBijection(R, T)
  BY <1>4, <1>5 DEF ExistsBijection, Bijection
<1>7. IsFiniteSet(R) /\ Cardinality(R) \in Nat
  BY RolesFacts, FS_Subset, FS_CardinalityType
<1> QED  BY <1>6, <1>7, FS_Bijection

(* Every request that is sent brings a completion and a response. *)
LEMMA LeftNew ==
    ASSUME NEW t, NEW A, IsFiniteSet(A), NEW B, IsFiniteSet(B), Mail(t, A, B) = {},
           NEW R, R \subseteq Roles, NEW T, OnePerRole(t, T, R)
    PROVE  /\ IsFiniteSet(A \cup T)
           /\ Left(t, R, A \cup T, B) = 2 * Cardinality(R)
<1>1. IsFiniteSet(T) /\ Cardinality(T) = Cardinality(R) /\ Cardinality(R) \in Nat
  BY RequestsCount
<1>2. IsFiniteSet(A \cup T)
  BY Zenon, <1>1, FS_Union
<1>3. Mail(t, A \cup T, B) = T
  BY DEF Mail, OnePerRole
<1>4. Left(t, R, A \cup T, B) = 2 * Cardinality(R)
  BY <1>1, <1>3 DEF Left
<1> QED  BY <1>2, <1>4

-----------------------------------------------------------------------------
(* A callback of transaction t, which leaves y as its context: it sends    *)
(* and receives messages of t only, and the counter is right when the      *)
(* worker goes on.                                                         *)
Step(t, y) ==
    /\ tx' = [tx EXCEPT ![t] = y]
    /\ Fine(t, y)
    /\ phase' = phase
    /\ c2s' \subseteq c2s /\ t2s' \subseteq t2s
    /\ IsFiniteSet(s2t')
    /\ \A m \in s2t' \ s2t : m.txn = t /\ m.role \in Roles
    /\ \A m \in s2t \cup t2s :
         m.txn # t => (m \in s2t => m \in s2t') /\ (m \in t2s => m \in t2s')
    /\ Continues' => Wait(t)'

(* The in-flight count follows the contexts in use. *)
Counts(t, y) ==
    \/ in_flight' = in_flight /\ (y.pending = {} <=> tx[t].pending = {})
    \/ in_flight' = in_flight + 1 /\ y.pending # {} /\ tx[t].pending = {}
    \/ in_flight' = in_flight - 1 /\ y.pending = {} /\ tx[t].pending # {}

(* The body of ErrorKept. *)
Keeps ==
    \A t \in Txns :
      tx[t].pending # {} /\ tx[t].result = "IO_FAILED" /\ tx'[t].pending # {} =>
        tx'[t].result = "IO_FAILED"

(* Such a callback keeps the invariant. *)
LEMMA StepKeeps ==
    ASSUME GInv, Continues, phase # "start", NEW t \in Txns, NEW y, Step(t, y), Counts(t, y)
    PROVE  GInv' /\ (BlockLimit = 1 => Keeps)
<1>1. tx'[t] = y /\ \A u \in Txns \ {t} : tx'[u] = tx[u]
  BY DEF GInv, ContextInv, Step
<1>2. ContextInv'
  <2>1. tx' = [u \in Txns |-> tx'[u]]
    BY DEF GInv, ContextInv, Step
  <2>2. \A u \in Txns : Shape(tx'[u]) /\ Work(tx'[u])
    BY <1>1 DEF GInv, ContextInv, Step, Fine
  <2>3. phase' # "start"
    BY DEF Step
  <2> QED  BY <2>1, <2>2, <2>3 DEF ContextInv, Shape, Work
<1>3. MailInv'
  <2>1. IsFiniteSet(s2t') /\ IsFiniteSet(t2s')
    BY FS_Subset DEF GInv, MailInv, Step
  <2>2. \A m \in s2t' \cup t2s' : m.txn \in Txns /\ m.role \in Roles
    BY DEF GInv, MailInv, Step
  <2>3. (\A m \in t2s' : m.result \in Results) /\ (\A m \in c2s' : m.blocks \in Nat \ {0})
    BY DEF GInv, MailInv, Step
  <2> QED  BY <2>1, <2>2, <2>3 DEF MailInv
<1>4. FlightInv'
  <2>1. Busy \subseteq Txns /\ IsFiniteSet(Txns)
    BY TxnsAssumption DEF Busy
  <2>2. IsFiniteSet(Busy)
    BY <2>1, FS_Subset
  <2>3. Cardinality(Busy) \in Nat /\ in_flight = Cardinality(Busy)
    BY <2>2, FS_CardinalityType DEF GInv, FlightInv
  <2>4. CASE in_flight' = in_flight /\ (y.pending = {} <=> tx[t].pending = {})
    <3>1. Busy' = Busy
      BY <1>1, <2>4 DEF Busy
    <3> QED  BY <2>3, <2>4, <3>1 DEF FlightInv
  <2>5. CASE in_flight' = in_flight + 1 /\ y.pending # {} /\ tx[t].pending = {}
    <3>1. Busy' = Busy \cup {t} /\ t \notin Busy
      BY <1>1, <2>5 DEF Busy
    <3>2. Cardinality(Busy \cup {t}) = Cardinality(Busy) + 1
      BY <2>2, <3>1, FS_AddElement
    <3> QED  BY <2>3, <2>5, <3>1, <3>2 DEF FlightInv
  <2>6. CASE in_flight' = in_flight - 1 /\ y.pending = {} /\ tx[t].pending # {}
    <3>1. Busy' = Busy \ {t} /\ t \in Busy
      BY <1>1, <2>6 DEF Busy
    <3>2. Cardinality(Busy \ {t}) = Cardinality(Busy) - 1
      BY <2>2, <3>1, FS_RemoveElement
    <3> QED  BY <2>3, <2>6, <3>1, <3>2 DEF FlightInv
  <2> QED  BY <2>4, <2>5, <2>6 DEF Counts
<1>5. WaitInv'
  <2> SUFFICES ASSUME Continues', NEW u \in Txns, u # t PROVE Wait(u)'
    BY DEF WaitInv, Step
  <2>1. \A m : m.txn = u => (m \in s2t' <=> m \in s2t) /\ (m \in t2s' <=> m \in t2s)
    BY DEF Step
  <2>2. Outstanding(u)' = Outstanding(u)
    BY <2>1 DEF Outstanding
  <2>3. tx'[u] = tx[u]
    BY <1>1
  <2>4. ToCome(u)' = ToCome(u)
    BY <2>2, <2>3 DEF ToCome
  <2>5. Wait(u)
    BY DEF GInv, WaitInv
  <2>6. \A m \in Outstanding(u) : m.txn = u
    BY DEF Outstanding
  <2>7. \A m \in Outstanding(u)' : ~(m \in s2t' /\ m \in t2s')
    BY <2>1, <2>2, <2>5, <2>6 DEF Wait
  <2> QED  BY <2>2, <2>3, <2>4, <2>5, <2>7 DEF Wait
<1>6. SingleInv'
  BY <1>1 DEF GInv, SingleInv, Step, Fine, Single
<1>7. BlockLimit = 1 => Keeps
  BY <1>1 DEF Keeps, Step, Fine, Kept
<1> QED  BY <1>2, <1>3, <1>4, <1>5, <1>6, <1>7 DEF GInv

(* What of the links a callback of t leaves as it is. *)
Links(t) ==
    /\ phase' = phase
    /\ c2s' \subseteq c2s /\ t2s' \subseteq t2s
    /\ \A m \in t2s : m.txn # t => m \in t2s'

(* Progress is such a callback, if nothing was to come. *)
LEMMA OutcomeStep ==
    ASSUME GInv, NEW t \in Txns, NEW S, Outcome(t, S), Links(t),
           Continues' => S = {} /\ Mail(t, s2t, t2s') = {}
    PROVE  \E y : Step(t, y) /\ y.pending # {}
<1>1. PICK y, R, T : Leaves(t, S, y, R, T)
  BY Zenon DEF Outcome
<1>2. R \subseteq Roles /\ OnePerRole(t, T, R) /\ s2t' = s2t \cup T
  BY <1>1 DEF Leaves
<1>3. tx'[t] = y
  BY <1>1 DEF GInv, ContextInv, Leaves
<1>4. IsFiniteSet(s2t) /\ IsFiniteSet(t2s')
  BY FS_Subset DEF GInv, MailInv, Links
<1>5. IsFiniteSet(T)
  BY <1>2, RequestsCount
<1>6. IsFiniteSet(s2t')
  BY Zenon, <1>2, <1>4, <1>5, FS_Union
<1>7. \A m \in T : m.txn = t /\ m.role \in Roles
  BY <1>2 DEF OnePerRole
<1>9. ASSUME Continues' PROVE Wait(t)'
  <2>1. S = {} /\ Mail(t, s2t, t2s') = {}
    BY <1>9
  <2>2. Outstanding(t)' = T
    BY <1>2, <1>7, <2>1 DEF Outstanding, Mail
  <2>3. \A m \in T : m \notin t2s'
    BY <1>7, <2>1 DEF Mail
  <2>4. \A m1, m2 \in T : m1.role = m2.role => m1 = m2
    BY <1>2 DEF OnePerRole
  <2>5. y.sends = R
    BY <1>1, <2>1 DEF Leaves
  <2>6. ToCome(t)' = 2 * Cardinality(R)
    <3>1. Left(t, R, s2t \cup T, t2s') = 2 * Cardinality(R)
      BY <1>2, <1>4, <2>1, LeftNew
    <3>2. ToCome(t)' = Left(t, R, s2t \cup T, t2s')
      BY <1>2, <1>3, <2>5 DEF ToCome, Outstanding, Left, Mail
    <3> QED  BY <3>1, <3>2
  <2>7. /\ y.count >= 2 * Cardinality(R) /\ (GgaFaults = {} => y.count = 2 * Cardinality(R))
        /\ y.tasks # {} => y.count = 0
        /\ y.pending # {}
    BY <1>1 DEF Leaves
  <2> QED  BY <1>3, <2>2, <2>3, <2>4, <2>6, <2>7 DEF Wait
<1>10. Step(t, y)
  <2>1. \A m \in s2t' \ s2t : m.txn = t /\ m.role \in Roles
    BY <1>2, <1>7
  <2>2. \A m \in s2t \cup t2s :
          m.txn # t => (m \in s2t => m \in s2t') /\ (m \in t2s => m \in t2s')
    BY <1>2 DEF Links
  <2>3. tx' = [tx EXCEPT ![t] = y] /\ Fine(t, y)
    BY <1>1 DEF Leaves
  <2> QED  BY <1>6, <1>9, <2>1, <2>2, <2>3 DEF Step, Links
<1>11. y.pending # {}
  BY <1>1 DEF Leaves
<1> QED  BY <1>10, <1>11

(* A callback that only changes the context. *)
LEMMA QuietStep ==
    ASSUME GInv, NEW t \in Txns, NEW y, tx' = [tx EXCEPT ![t] = y], Fine(t, y), Links(t),
           s2t' \subseteq s2t, \A m \in s2t : m.txn # t => m \in s2t',
           Continues' =>
             /\ Wait(t)
             /\ y.count >= Left(t, y.sends, s2t', t2s')
             /\ GgaFaults = {} => y.count = Left(t, y.sends, s2t', t2s')
             /\ y.tasks # {} => y.count = 0
             /\ y.pending = {} => y.count = 0
    PROVE  Step(t, y)
<1>1. tx'[t] = y
  BY DEF GInv, ContextInv
<1>2. ASSUME Continues' PROVE Wait(t)'
  <2>1. ToCome(t)' = Left(t, y.sends, s2t', t2s')
    BY <1>1 DEF ToCome, Outstanding, Left, Mail
  <2>2. Outstanding(t)' \subseteq Outstanding(t)
    BY DEF Outstanding, Links
  <2>3. \A m \in Outstanding(t)' : ~(m \in s2t' /\ m \in t2s')
    BY <1>2, <2>2 DEF Wait, Links
  <2>4. \A m1, m2 \in Outstanding(t)' : m1.role = m2.role => m1 = m2
    BY <1>2, <2>2 DEF Wait
  <2> QED  BY <1>1, <1>2, <2>1, <2>3, <2>4 DEF Wait
<1>3. IsFiniteSet(s2t')
  BY FS_Subset DEF GInv, MailInv
<1> QED  BY <1>2, <1>3 DEF Step, Links

(* The context of t as a storage completion has it before it counts. *)
Copy(t, x) ==
    /\ DOMAIN x = Fields
    /\ x.count = tx[t].count /\ x.tasks = tx[t].tasks /\ x.initial = tx[t].initial
    /\ x.idx = tx[t].idx /\ x.n = tx[t].n
    /\ x.sends \subseteq tx[t].sends
    /\ x.pending \in {tx[t].pending, tx[t].pending \ ProcessingActions}
    /\ x.result \in {tx[t].result, "IO_FAILED"}

(* The count is an uint8_t. *)
LEMMA CountFacts ==
    ASSUME NEW c \in Nat, c < 256
    PROVE  (c - 1) % 256 = IF c = 0 THEN 255 ELSE c - 1
<1>1. CASE c = 0
  <2>1. PICK k \in Int : k = c - 1
    OBVIOUS
  <2>2. k + 1 = 0
    BY <1>1, <2>1
  <2>3. k % 256 = 255
    <3>1. k % 256 \in Int /\ k \div 256 \in Int /\ k % 256 >= 0 /\ k % 256 < 256
      OBVIOUS
    <3>2. k = 256 * (k \div 256) + (k % 256)
      OBVIOUS
    <3> QED  BY <2>2, <3>1, <3>2
  <2> QED  BY <1>1, <2>1, <2>3
<1>2. CASE c # 0
  <2>1. c - 1 \in Nat /\ c - 1 < 256
    BY <1>2
  <2>2. \A k \in Nat : k < 256 => k % 256 = k
    OBVIOUS
  <2> QED  BY <1>2, <2>1, <2>2
<1> QED  BY <1>1, <1>2

(* A storage completion: one less to wait for, or the next step. *)
LEMMA CountDownStep ==
    ASSUME GInv, Continues, NEW t \in Txns, NEW x, Copy(t, x), NEW stop, NEW error,
           CountDown(t, x, stop, error), Links(t),
           Continues' => x.count # 0 /\ Left(t, x.sends, s2t, t2s') = ToCome(t) - 1
    PROVE  \E y : Step(t, y) /\ (y.pending = {} <=> tx[t].pending = {})
<1>1. PICK y : y = [x EXCEPT !.count = (@ - 1) % 256]
  BY Zenon
<1>2. Shape(tx[t]) /\ Work(tx[t]) /\ Wait(t) /\ (BlockLimit = 1 => Single(tx[t]))
  BY DEF GInv, ContextInv, WaitInv, SingleInv
<1>3. /\ DOMAIN y = Fields /\ y.count = (tx[t].count - 1) % 256
      /\ y.tasks = tx[t].tasks /\ y.initial = tx[t].initial
      /\ y.idx = tx[t].idx /\ y.n = tx[t].n /\ y.sends = x.sends /\ y.pending = x.pending
      /\ y.result = x.result
  BY <1>1 DEF Copy, Fields
<1>4. /\ x.pending \subseteq tx[t].pending
      /\ tx[t].pending # {} => "reply_to_initiator" \in x.pending
  BY <1>2 DEF Copy, Work, ProcessingActions
<1>5. Work(y) /\ (y.pending = {} <=> tx[t].pending = {})
  BY <1>2, <1>3, <1>4 DEF Work
<1>6. Kept(t, y)
  BY <1>3 DEF Copy, Kept
<1>7. y.sends \subseteq Roles /\ tx[t].count \in Nat /\ tx[t].count < 256
  BY <1>2, <1>3 DEF Copy, Shape
<1>8. CASE tx[t].count = 0
  <2>1. y.count = 255
    BY Zenon, <1>3, <1>7, <1>8, CountFacts
  <2>2. Fine(t, y)
    <3>1. ~Continues'
      BY <1>8 DEF Copy
    <3>2. Shape(y)
      BY <1>3, <1>7, <2>1 DEF Shape
    <3> QED  BY <1>5, <1>6, <3>1, <3>2 DEF Fine
  <2>3. tx' = [tx EXCEPT ![t] = y] /\ s2t' = s2t
    BY <1>1, <2>1 DEF CountDown, NoProgress
  <2>4. ~Continues'
    BY <1>8 DEF Copy
  <2>5. Step(t, y)
    BY Zenon, <2>2, <2>3, <2>4, QuietStep
  <2> QED  BY <1>5, <2>5
<1>9. ASSUME tx[t].count # 0
      PROVE  /\ tx[t].tasks = {} /\ tx[t].pending # {}
             /\ y.count = tx[t].count - 1 /\ y.count \in Nat /\ y.count < 255
             /\ BlockLimit = 1 => Single(y)
  <2>1. tx[t].tasks = {} /\ tx[t].pending # {}
    BY <1>2, <1>9 DEF Wait
  <2>2. y.count = tx[t].count - 1 /\ y.count \in Nat /\ y.count < 255
    <3>1. y.count = tx[t].count - 1
      BY <1>3, <1>7, <1>9, CountFacts
    <3> QED  BY <1>7, <1>9, <3>1
  <2>3. ASSUME BlockLimit = 1 PROVE Single(y)
    BY Zenon, <1>2, <1>3, <1>4, <1>9, <2>1, <2>3 DEF Single
  <2> QED  BY <2>1, <2>2, <2>3
<1>10. /\ IsFiniteSet(s2t) /\ IsFiniteSet(t2s) /\ IsFiniteSet(t2s')
       /\ tx[t].sends \subseteq Roles
  BY <1>2, FS_Subset DEF GInv, MailInv, Links, Shape
<1>11. ToCome(t) = Left(t, tx[t].sends, s2t, t2s) /\ ToCome(t) \in Nat
  <2>1. ToCome(t) = Left(t, tx[t].sends, s2t, t2s)
    BY DEF ToCome, Outstanding, Left, Mail
  <2> QED  BY Zenon, <1>10, <2>1, LeftFacts
<1>12. CASE tx[t].count # 0 /\ y.count # 0
  <2>1. tx' = [tx EXCEPT ![t] = y] /\ s2t' = s2t
    BY <1>1, <1>12 DEF CountDown, NoProgress
  <2>2. Fine(t, y)
    <3>1. Shape(y)
      BY <1>3, <1>7, <1>9, <1>12 DEF Shape
    <3> QED  BY <1>5, <1>6, <1>9, <1>12, <3>1 DEF Fine
  <2>3. ASSUME Continues'
        PROVE  /\ Wait(t)
               /\ y.count >= Left(t, y.sends, s2t', t2s')
               /\ GgaFaults = {} => y.count = Left(t, y.sends, s2t', t2s')
               /\ y.tasks # {} => y.count = 0
               /\ y.pending = {} => y.count = 0
    <3>1. Left(t, y.sends, s2t', t2s') = ToCome(t) - 1
      BY <1>3, <2>1, <2>3
    <3>2. tx[t].count >= ToCome(t) /\ (GgaFaults = {} => tx[t].count = ToCome(t))
      BY Zenon, <1>2 DEF Wait
    <3>3. /\ y.count >= ToCome(t) - 1
          /\ GgaFaults = {} => y.count = ToCome(t) - 1
      BY <1>7, <1>9, <1>11, <1>12, <3>2
    <3>4. y.tasks = {} /\ y.pending # {}
      BY <1>3, <1>5, <1>9, <1>12
    <3> QED  BY Zenon, <1>2, <3>1, <3>3, <3>4
  <2>4. Step(t, y)
    BY Zenon, <2>1, <2>2, <2>3, QuietStep
  <2> QED  BY <1>5, <2>4
<1>13. CASE tx[t].count # 0 /\ y.count = 0
  <2>1. PICK z : z = [y EXCEPT !.pending = Toggle(@, "wait_for_storage_completion")]
    BY Zenon
  <2>2. progress_transaction(t, z, stop, error)
    BY <1>1, <1>13, <2>1 DEF CountDown
  <2>3. /\ DOMAIN z = Fields /\ z.count = 0 /\ z.tasks = {} /\ z.initial = tx[t].initial
        /\ z.idx = tx[t].idx /\ z.n = tx[t].n /\ z.sends = x.sends /\ z.result = x.result
        /\ z.pending = Toggle(x.pending, "wait_for_storage_completion")
    BY <1>3, <1>9, <1>13, <2>1 DEF Fields
  <2>4. \A a : a # "wait_for_storage_completion" => (a \in z.pending <=> a \in x.pending)
    BY <2>3 DEF Toggle
  <2>5. Ready(z)
    <3>1. Shape(z)
      BY <1>3, <1>7, <2>3 DEF Shape
    <3>2. "reply_to_initiator" \in z.pending
      BY <1>4, <1>9, <1>13, <2>4
    <3>3. z.initial \in {ReadActions, WriteActions}
      BY <1>2, <1>9, <1>13, <2>3 DEF Work
    <3> QED  BY <2>3, <3>1, <3>2, <3>3 DEF Ready
  <2>6. ASSUME BlockLimit = 1 PROVE ReadySingle(t, z)
    <3>1. z.pending \cap {"fetch_from_initiator", "produce_ec_blocks"} = {}
      BY <1>2, <1>4, <1>9, <1>13, <2>4, <2>6 DEF Single
    <3>2. z.n = 1 /\ "fetch_from_storage" \notin z.pending
      BY Zenon, <1>2, <1>4, <1>9, <1>13, <2>3, <2>4, <2>6 DEF Single
    <3>3. "advance_block" \in z.pending => z.idx = 0
      BY Zenon, <1>2, <1>4, <1>9, <1>13, <2>3, <2>4, <2>6 DEF Single
    <3>4. tx[t].result = "IO_FAILED" => z.result = "IO_FAILED"
      BY Zenon, <2>3 DEF Copy
    <3> QED  BY <3>1, <3>2, <3>3, <3>4 DEF ReadySingle
  <2>7. Outcome(t, x.sends)
    BY Zenon, <2>2, <2>3, <2>5, <2>6, Progress
  <2>8. ASSUME Continues' PROVE x.sends = {} /\ Mail(t, s2t, t2s') = {}
    <3>1. Left(t, x.sends, s2t, t2s') <= 0
      <4>1. tx[t].count >= ToCome(t)
        BY Zenon, <1>2 DEF Wait
      <4>2. tx[t].count - 1 = 0
        BY Zenon, <1>9, <1>13
      <4>3. Left(t, x.sends, s2t, t2s') = ToCome(t) - 1
        BY Zenon, <2>8
      <4> QED  BY <1>7, <1>11, <4>1, <4>2, <4>3
    <3>2. x.sends \subseteq Roles
      BY <1>3, <1>7
    <3> QED  BY Zenon, <1>10, <3>1, <3>2, LeftFacts
  <2>9. PICK w : Step(t, w) /\ w.pending # {}
    BY <2>7, <2>8, OutcomeStep
  <2> QED  BY <1>9, <1>13, <2>9
<1> QED  BY <1>8, <1>12, <1>13

-----------------------------------------------------------------------------
(* The callbacks *)

(* What every callback knows. *)
LEMMA PollingFacts ==
    ASSUME Polling
    PROVE  Continues /\ phase # "start"
BY DEF Polling, Continues

(* A context with a task has nothing else to come. *)
LEMMA TaskFacts ==
    ASSUME GInv, Continues, NEW t \in Txns, NEW a, a \in tx[t].tasks
    PROVE  /\ DOMAIN tx[t] = Fields
           /\ tx[t].tasks = {a} /\ tx[t].count = 0 /\ tx[t].sends = {}
           /\ Mail(t, s2t, t2s) = {}
           /\ a = "receive" => tx[t].pending = {}
           /\ a # "receive" => /\ "reply_to_initiator" \in tx[t].pending
                               /\ tx[t].initial \in {ReadActions, WriteActions}
<1>1. Shape(tx[t]) /\ Work(tx[t]) /\ Wait(t)
  BY DEF GInv, ContextInv, WaitInv
<1>2. DOMAIN tx[t] = Fields /\ tx[t].sends \subseteq Roles
  BY <1>1 DEF Shape
<1>3. tx[t].tasks = {a}
  BY <1>1 DEF Work
<1>4. tx[t].count = 0 /\ tx[t].count >= ToCome(t)
  BY <1>1 DEF Wait
<1>5. Left(t, tx[t].sends, s2t, t2s) <= 0
  <2>1. IsFiniteSet(s2t) /\ IsFiniteSet(t2s)
    BY DEF GInv, MailInv
  <2>2. Left(t, tx[t].sends, s2t, t2s) \in Nat
    BY <1>2, <2>1, LeftFacts
  <2>3. ToCome(t) = Left(t, tx[t].sends, s2t, t2s)
    BY DEF ToCome, Outstanding, Left, Mail
  <2> QED  BY <1>4, <2>2, <2>3
<1>6. tx[t].sends = {} /\ Mail(t, s2t, t2s) = {}
  BY Zenon, <1>2, <1>5, LeftFacts DEF GInv, MailInv
<1>7. a = "receive" => tx[t].pending = {}
  BY <1>1 DEF Work
<1>8. a # "receive" => /\ "reply_to_initiator" \in tx[t].pending
                       /\ tx[t].initial \in {ReadActions, WriteActions}
  BY <1>1, <1>3 DEF Work
<1> QED  BY <1>2, <1>3, <1>4, <1>6, <1>7, <1>8

(* A callback of a task other than the receive task goes on. *)
LEMMA ProgressKeeps ==
    ASSUME GInv, Polling, NEW t \in Txns, NEW a, a \in tx[t].tasks, a # "receive",
           NEW S, S = {}, Outcome(t, S),
           phase' = phase, c2s' = c2s, t2s' = t2s, in_flight' = in_flight
    PROVE  GInv' /\ (BlockLimit = 1 => Keeps)
<1>1. Continues /\ phase # "start"
  BY PollingFacts
<1>2. Mail(t, s2t, t2s) = {} /\ tx[t].pending # {}
  BY <1>1, TaskFacts
<1>3. Links(t)
  BY DEF Links
<1>4. PICK y : Step(t, y) /\ y.pending # {}
  BY <1>2, <1>3, OutcomeStep
<1>5. Counts(t, y)
  BY <1>2, <1>4 DEF Counts
<1> QED  BY <1>1, <1>4, <1>5, StepKeeps

(* A context that a task a has left: what the callback does before         *)
(* progress_transaction changes the pending actions and the result.        *)
After(t, a, x) ==
    /\ DOMAIN x = Fields
    /\ x.tasks = tx[t].tasks \ {a} /\ x.count = tx[t].count /\ x.sends = tx[t].sends
    /\ x.initial = tx[t].initial /\ x.n = tx[t].n /\ x.idx = tx[t].idx
    /\ x.result \in {tx[t].result, "IO_FAILED"}

(* Progress after such a task. *)
LEMMA TaskKeeps ==
    ASSUME GInv, Polling, NEW t \in Txns, NEW a, a \in tx[t].tasks, a # "receive",
           NEW x, After(t, a, x), "reply_to_initiator" \in x.pending,
           BlockLimit = 1 =>
             /\ x.pending \subseteq tx[t].pending \cup {"decompress"}
             /\ x.pending \cap {"fetch_from_initiator", "produce_ec_blocks"} # {} =>
                  x.result # "IO_FAILED",
           NEW stop, NEW error, progress_transaction(t, x, stop, error),
           phase' = phase, c2s' = c2s, t2s' = t2s, in_flight' = in_flight
    PROVE  GInv' /\ (BlockLimit = 1 => Keeps)
<1>1. Continues
  BY PollingFacts
<1>2. /\ tx[t].tasks = {a} /\ tx[t].count = 0 /\ tx[t].sends = {} /\ tx[t].pending # {}
      /\ tx[t].initial \in {ReadActions, WriteActions}
  BY Zenon, <1>1, TaskFacts
<1>3. Ready(x)
  BY <1>2 DEF After, Ready, Shape
<1>4. ASSUME BlockLimit = 1 PROVE ReadySingle(t, x)
  <2>1. Single(tx[t])
    BY <1>1, <1>4 DEF GInv, SingleInv
  <2>2. tx[t].n = 1 /\ "fetch_from_storage" \notin tx[t].pending
        /\ ("advance_block" \in tx[t].pending => tx[t].idx = 0)
    BY <1>2, <2>1 DEF Single
  <2>3. "fetch_from_storage" \notin x.pending /\ ("advance_block" \in x.pending => x.idx = 0)
    BY <1>4, <2>2 DEF After
  <2>4. tx[t].result = "IO_FAILED" => x.result = "IO_FAILED"
    BY DEF After
  <2> QED  BY <1>4, <2>2, <2>3, <2>4 DEF After, ReadySingle
<1>5. Outcome(t, x.sends) /\ x.sends = {}
  BY <1>2, <1>3, <1>4, Progress DEF After
<1> QED  BY <1>5, ProgressKeeps

(* A recovered, decompressed or fetched block. *)
LEMMA TaskDoneKeeps ==
    ASSUME GInv, NEW t \in Txns,
           \/ doca_ec_task_recover_cb(t)
           \/ doca_compress_task_decompress_lz4_stream_cb(t)
           \/ doca_dma_task_memcpy_cb(t)
    PROVE  GInv' /\ (BlockLimit = 1 => Keeps)
<1>1. Polling
  BY Zenon DEF doca_ec_task_recover_cb, doca_compress_task_decompress_lz4_stream_cb,
         doca_dma_task_memcpy_cb
<1>2. Continues
  BY <1>1, PollingFacts
<1>3. DOMAIN tx[t] = Fields
  BY DEF GInv, ContextInv, Shape
<1>4. CASE doca_ec_task_recover_cb(t)
  <2>1. PICK x : x = [Completes(t, "recover") EXCEPT !.pending = @ \ {"recover_a", "recover_b"}]
    BY Zenon
  <2>2. /\ "recover" \in tx[t].tasks /\ progress_transaction(t, x, FALSE, FALSE)
        /\ phase' = phase /\ c2s' = c2s /\ t2s' = t2s /\ in_flight' = in_flight
    BY <1>4, <2>1, Zenon DEF doca_ec_task_recover_cb
  <2>3. /\ After(t, "recover", x) /\ x.result = tx[t].result
        /\ x.pending = tx[t].pending \ {"recover_a", "recover_b"}
    BY <1>3, <2>1 DEF After, Completes, Fields
  <2>4. "reply_to_initiator" \in x.pending /\ tx[t].pending # {}
    BY <1>2, <2>2, <2>3, TaskFacts
  <2>5. BlockLimit = 1 =>
          /\ x.pending \subseteq tx[t].pending \cup {"decompress"}
          /\ x.pending \cap {"fetch_from_initiator", "produce_ec_blocks"} # {} =>
               x.result # "IO_FAILED"
    BY <1>2, <2>3, <2>4 DEF GInv, SingleInv, Single
  <2> QED  BY Zenon, <1>1, <2>2, <2>3, <2>4, <2>5, TaskKeeps
<1>5. CASE doca_compress_task_decompress_lz4_stream_cb(t)
  <2>1. PICK x : x = [Completes(t, "decompress") EXCEPT !.pending = Toggle(@, "decompress")]
    BY Zenon
  <2>2. /\ "decompress" \in tx[t].tasks /\ progress_transaction(t, x, FALSE, FALSE)
        /\ phase' = phase /\ c2s' = c2s /\ t2s' = t2s /\ in_flight' = in_flight
    BY <1>5, <2>1, Zenon DEF doca_compress_task_decompress_lz4_stream_cb
  <2>3. /\ After(t, "decompress", x) /\ x.result = tx[t].result
        /\ x.pending = Toggle(tx[t].pending, "decompress")
    BY <1>3, <2>1 DEF After, Completes, Fields
  <2>4. \A b : b # "decompress" => (b \in x.pending <=> b \in tx[t].pending)
    BY <2>3 DEF Toggle
  <2>5. "reply_to_initiator" \in x.pending /\ tx[t].pending # {}
    BY Zenon, <1>2, <2>2, <2>4, TaskFacts
  <2>6. BlockLimit = 1 =>
          /\ x.pending \subseteq tx[t].pending \cup {"decompress"}
          /\ x.pending \cap {"fetch_from_initiator", "produce_ec_blocks"} # {} =>
               x.result # "IO_FAILED"
    BY <1>2, <2>3, <2>4, <2>5 DEF GInv, SingleInv, Single
  <2> QED  BY Zenon, <1>1, <2>2, <2>3, <2>5, <2>6, TaskKeeps
<1>6. CASE doca_dma_task_memcpy_cb(t)
  <2>1. PICK x : x = [Completes(t, "memcpy") EXCEPT !.pending = Toggle(@, "fetch_from_initiator")]
    BY Zenon
  <2>2. /\ "memcpy" \in tx[t].tasks
        /\ \/ progress_transaction(t, x, FALSE, FALSE)
           \/ progress_transaction(t, set_error(x), TRUE, TRUE)
        /\ phase' = phase /\ c2s' = c2s /\ t2s' = t2s /\ in_flight' = in_flight
    BY <1>6, <2>1, Zenon DEF doca_dma_task_memcpy_cb
  <2>3. /\ After(t, "memcpy", x) /\ x.result = tx[t].result
        /\ x.pending = Toggle(tx[t].pending, "fetch_from_initiator")
    BY <1>3, <2>1 DEF After, Completes, Fields
  <2>4. \A b : b # "fetch_from_initiator" => (b \in x.pending <=> b \in tx[t].pending)
    BY <2>3 DEF Toggle
  <2>5. "reply_to_initiator" \in x.pending /\ tx[t].pending # {}
    BY <1>2, <2>2, <2>4, TaskFacts
  <2>6. ASSUME BlockLimit = 1
        PROVE  x.pending \subseteq tx[t].pending /\ tx[t].result # "IO_FAILED"
    <3>1. "fetch_from_initiator" \in tx[t].pending /\ tx[t].result # "IO_FAILED"
      BY <1>2, <2>2, <2>5, <2>6 DEF GInv, SingleInv, Single
    <3> QED  BY <2>3, <3>1 DEF Toggle
  <2>7. CASE progress_transaction(t, x, FALSE, FALSE)
    BY Zenon, <1>1, <2>2, <2>3, <2>5, <2>6, <2>7, TaskKeeps
  <2>8. CASE progress_transaction(t, set_error(x), TRUE, TRUE)
    <3>1. PICK y : y = set_error(x)
      OBVIOUS
    <3>2. /\ After(t, "memcpy", y) /\ y.result = "IO_FAILED"
          /\ y.pending = x.pending \ ProcessingActions
      BY <2>3, <3>1 DEF After, set_error, Fields
    <3>3. "reply_to_initiator" \in y.pending
      BY <2>5, <3>2 DEF ProcessingActions
    <3>4. BlockLimit = 1 =>
            /\ y.pending \subseteq tx[t].pending \cup {"decompress"}
            /\ y.pending \cap {"fetch_from_initiator", "produce_ec_blocks"} = {}
      BY <2>6, <3>2 DEF ProcessingActions
    <3> QED  BY Zenon, <1>1, <2>2, <2>8, <3>1, <3>2, <3>3, <3>4, TaskKeeps
  <2> QED  BY Zenon, <2>2, <2>7, <2>8
<1> QED  BY <1>4, <1>5, <1>6

(* A task of an accelerator that failed. *)
LEMMA AcceleratorErrorKeeps ==
    ASSUME GInv, NEW t \in Txns, NEW a \in Tasks \ {"receive"}, AcceleratorError(t, a)
    PROVE  GInv' /\ (BlockLimit = 1 => Keeps)
<1>1. PICK x : x = set_error(Completes(t, a))
  OBVIOUS
<1>2. /\ Polling /\ a \in tx[t].tasks /\ progress_transaction(t, x, TRUE, TRUE)
      /\ phase' = phase /\ c2s' = c2s /\ t2s' = t2s /\ in_flight' = in_flight
  BY <1>1, Zenon DEF AcceleratorError
<1>3. DOMAIN tx[t] = Fields /\ "reply_to_initiator" \in tx[t].pending
  BY Zenon, <1>2, PollingFacts, TaskFacts
<1>4. /\ After(t, a, x) /\ x.result = "IO_FAILED"
      /\ x.pending = tx[t].pending \ ProcessingActions
  BY <1>1, <1>3 DEF After, Completes, set_error, Fields
<1>5. "reply_to_initiator" \in x.pending
  BY <1>3, <1>4 DEF ProcessingActions
<1>6. BlockLimit = 1 =>
        /\ x.pending \subseteq tx[t].pending \cup {"decompress"}
        /\ x.pending \cap {"fetch_from_initiator", "produce_ec_blocks"} = {}
  BY <1>4 DEF ProcessingActions
<1> QED  BY Zenon, <1>2, <1>4, <1>5, <1>6, TaskKeeps

(* The parity is there: the block is written to the targets. *)
LEMMA CreateKeeps ==
    ASSUME GInv, NEW t \in Txns, doca_ec_task_create_cb(t)
    PROVE  GInv' /\ (BlockLimit = 1 => Keeps)
<1>1. PICK x : x = [Completes(t, "create") EXCEPT !.pending = Toggle(@, "produce_ec_blocks")]
  BY Zenon
<1>2. /\ Polling /\ "create" \in tx[t].tasks /\ start_commit_to_storage(t, x)
      /\ phase' = phase /\ c2s' = c2s /\ t2s' = t2s /\ in_flight' = in_flight
  BY <1>1, Zenon DEF doca_ec_task_create_cb
<1>3. Continues
  BY <1>2, PollingFacts
<1>4. /\ DOMAIN tx[t] = Fields /\ tx[t].tasks = {"create"} /\ tx[t].count = 0
      /\ tx[t].sends = {} /\ "reply_to_initiator" \in tx[t].pending
      /\ tx[t].initial \in {ReadActions, WriteActions}
  BY <1>2, <1>3, TaskFacts
<1>5. /\ After(t, "create", x) /\ x.result = tx[t].result
      /\ x.pending = Toggle(tx[t].pending, "produce_ec_blocks")
  BY <1>1, <1>4 DEF After, Completes, Fields
<1>6. \A b : b # "produce_ec_blocks" => (b \in x.pending <=> b \in tx[t].pending)
  BY <1>5 DEF Toggle
<1>7. Ready(x) /\ x.sends = {}
  BY <1>4, <1>5, <1>6 DEF After, Ready, Shape
<1>8. ASSUME BlockLimit = 1
      PROVE  /\ ReadySingle(t, x)
             /\ x.pending \cap {"fetch_from_storage", "fetch_from_initiator",
                                "produce_ec_blocks"} = {}
             /\ ~(tx[t].pending # {} /\ tx[t].result = "IO_FAILED")
  <2>1. /\ tx[t].n = 1 /\ "fetch_from_storage" \notin tx[t].pending
        /\ "advance_block" \in tx[t].pending => tx[t].idx = 0
        /\ "produce_ec_blocks" \in tx[t].pending
        /\ "fetch_from_initiator" \notin tx[t].pending
        /\ tx[t].result # "IO_FAILED"
    BY <1>2, <1>3, <1>4, <1>8 DEF GInv, SingleInv, Single
  <2>2. "produce_ec_blocks" \notin x.pending
    BY <1>5, <2>1 DEF Toggle
  <2>3. x.n = 1 /\ x.idx = tx[t].idx
    BY <1>5, <2>1 DEF After
  <2> QED  BY <1>6, <2>1, <2>2, <2>3 DEF ReadySingle
<1>9. Outcome(t, x.sends)
  BY <1>2, <1>7, <1>8, CommitOutcome
<1> QED  BY <1>2, <1>7, <1>9, ProgressKeeps

(* A callback that ends a task and has nothing to send to the targets. *)
LEMMA EndKeeps ==
    ASSUME GInv, Polling, NEW t \in Txns, NEW a, a \in tx[t].tasks,
           NEW y, tx' = [tx EXCEPT ![t] = y], Fine(t, y), y.count = 0, y.sends = {}, Counts(t, y),
           s2t' = s2t, t2s' = t2s, phase' = phase, c2s' \subseteq c2s
    PROVE  GInv' /\ (BlockLimit = 1 => Keeps)
<1>1. Continues /\ phase # "start"
  BY PollingFacts
<1>2. Mail(t, s2t, t2s) = {}
  BY <1>1, TaskFacts
<1>3. Left(t, {}, s2t, t2s) = 0
  <2>1. Cardinality({}) = 0
    BY FS_EmptySet
  <2>2. Left(t, {}, s2t, t2s) = Cardinality({}) + Cardinality({})
    BY <1>2 DEF Left
  <2> QED  BY <2>1, <2>2
<1>4. Wait(t)
  BY <1>1 DEF GInv, WaitInv
<1>5. Links(t)
  BY DEF Links
<1>6. Step(t, y)
  <2>1. y.count = Left(t, y.sends, s2t', t2s') /\ y.count >= Left(t, y.sends, s2t', t2s')
    BY <1>3
  <2>2. s2t' \subseteq s2t /\ \A m \in s2t : m.txn # t => m \in s2t'
    OBVIOUS
  <2> QED  BY Zenon, <1>4, <1>5, <2>1, <2>2, QuietStep
<1> QED  BY <1>1, <1>6, StepKeeps

(* The reply has left. *)
LEMMA ReplySentKeeps ==
    ASSUME GInv, NEW t \in Txns, doca_comch_producer_task_send_cb(t)
    PROVE  GInv' /\ (BlockLimit = 1 => Keeps)
<1>1. PICK x : x = [Completes(t, "reply") EXCEPT !.pending = {}]
  BY Zenon
<1>2. /\ Polling /\ "reply" \in tx[t].tasks
      /\ SubmitTask(t, x, "receive", TRUE, FALSE, FALSE)
      /\ in_flight' = in_flight - 1
      /\ phase' = phase /\ c2s' = c2s /\ t2s' = t2s
  BY <1>1, Zenon DEF doca_comch_producer_task_send_cb
<1>3. PICK y : /\ y \in {[x EXCEPT !.tasks = @ \cup {"receive"}], x}
               /\ tx' = [tx EXCEPT ![t] = y] /\ s2t' = s2t
  BY <1>2, Zenon DEF SubmitTask
<1>4. /\ DOMAIN tx[t] = Fields /\ tx[t].tasks = {"reply"} /\ tx[t].count = 0
      /\ tx[t].sends = {} /\ tx[t].pending # {}
  BY <1>2, PollingFacts, TaskFacts
<1>5. /\ DOMAIN x = Fields /\ x.tasks = {} /\ x.pending = {} /\ x.count = 0 /\ x.sends = {}
  BY <1>1, <1>4 DEF Completes, Fields
<1>6. /\ DOMAIN y = Fields /\ y.tasks \in {{}, {"receive"}} /\ y.pending = {} /\ y.count = 0
      /\ y.sends = {}
  BY <1>3, <1>5 DEF Fields
<1>7. Fine(t, y)
  <2>1. Shape(y)
    BY <1>6 DEF Shape
  <2>2. Work(y)
    BY <1>6 DEF Work, Tasks
  <2> QED  BY <1>6, <2>1, <2>2 DEF Fine, Kept, Single
<1>8. Counts(t, y)
  BY <1>2, <1>4, <1>6 DEF Counts
<1> QED  BY Zenon, <1>2, <1>3, <1>6, <1>7, <1>8, EndKeeps

(* A request: it is refused, or its transaction starts. *)
LEMMA ReceiveKeeps ==
    ASSUME GInv, NEW t \in Txns, NEW m, doca_comch_consumer_task_post_recv_cb(t, m)
    PROVE  GInv' /\ (BlockLimit = 1 => Keeps)
<1> DEFINE actions == IF m.type = "read" THEN ReadActions ELSE WriteActions
<1>1. PICK x : x = [Completes(t, "receive") EXCEPT !.io = m, !.result = "UNSET"]
  OBVIOUS
<1>2. PICK y : y = IF Refused(t, m) THEN x ELSE [x EXCEPT !.idx = 0, !.n = m.blocks]
  OBVIOUS
<1>3. PICK z : z = [y EXCEPT !.initial = actions, !.pending = actions]
  OBVIOUS
<1>4. /\ Polling /\ m \in c2s /\ "receive" \in tx[t].tasks /\ c2s' = c2s \ {m}
      /\ \/ NoProgress(t, y, FALSE, Refused(t, m)) /\ in_flight' = in_flight
         \/ /\ ~Refused(t, m)
            /\ in_flight' = in_flight + 1
            /\ progress_transaction(t, z, FALSE, FALSE)
      /\ phase' = phase /\ t2s' = t2s
  BY <1>1, <1>2, <1>3, Zenon DEF doca_comch_consumer_task_post_recv_cb
<1>5. Continues
  BY <1>4, PollingFacts
<1>6. /\ DOMAIN tx[t] = Fields /\ tx[t].tasks = {"receive"} /\ tx[t].count = 0
      /\ tx[t].sends = {} /\ tx[t].pending = {} /\ Mail(t, s2t, t2s) = {}
  BY <1>4, <1>5, TaskFacts
<1>7. /\ DOMAIN x = Fields /\ x.tasks = {} /\ x.count = 0 /\ x.sends = {} /\ x.pending = {}
      /\ x.result = "UNSET"
  BY <1>1, <1>6 DEF Completes, Fields
<1>8. /\ DOMAIN y = Fields /\ y.tasks = {} /\ y.count = 0 /\ y.sends = {} /\ y.pending = {}
      /\ y.result = "UNSET" /\ (~Refused(t, m) => y.idx = 0 /\ y.n = m.blocks)
  BY <1>2, <1>7 DEF Fields
<1>9. CASE NoProgress(t, y, FALSE, Refused(t, m)) /\ in_flight' = in_flight
  <2>1. tx' = [tx EXCEPT ![t] = y] /\ s2t' = s2t
    BY <1>9 DEF NoProgress
  <2>2. Shape(y) /\ Work(y)
    BY <1>8 DEF Shape, Work
  <2>3. Fine(t, y)
    BY <1>8, <2>2 DEF Fine, Kept, Single
  <2>4. Counts(t, y)
    BY <1>6, <1>8, <1>9 DEF Counts
  <2> QED  BY Zenon, <1>4, <1>8, <2>1, <2>3, <2>4, EndKeeps
<1>10. CASE /\ ~Refused(t, m)
            /\ in_flight' = in_flight + 1
            /\ progress_transaction(t, z, FALSE, FALSE)
  <2>1. /\ DOMAIN z = Fields /\ z.tasks = {} /\ z.count = 0 /\ z.sends = {}
        /\ z.initial = actions /\ z.pending = actions /\ z.result = "UNSET"
        /\ z.idx = 0 /\ z.n = m.blocks
    BY <1>3, <1>8, <1>10 DEF Fields
  <2>2. actions \in {ReadActions, WriteActions} /\ "reply_to_initiator" \in actions
    BY DEF ReadActions, WriteActions
  <2>3. "fetch_from_storage" \in actions =>
          actions \cap {"fetch_from_initiator", "produce_ec_blocks"} = {}
    BY DEF ReadActions, WriteActions
  <2> HIDE DEF actions
  <2>4. Ready(z)
    BY <2>1, <2>2 DEF Ready, Shape
  <2>5. ASSUME BlockLimit = 1 PROVE ReadySingle(t, z)
    <3>1. m.blocks \in Nat \ {0} /\ ~(m.blocks > BlockLimit)
      BY <1>4, <1>10 DEF GInv, MailInv, Refused
    <3>2. z.n = 1
      BY <2>1, <2>5, <3>1
    <3> QED  BY <1>6, <2>1, <2>3, <3>2 DEF ReadySingle
  <2>6. Outcome(t, z.sends)
    BY Zenon, <1>10, <2>4, <2>5, Progress
  <2>7. Links(t)
    BY <1>4 DEF Links
  <2>8. PICK w : Step(t, w) /\ w.pending # {}
    BY Zenon, <1>4, <1>6, <2>1, <2>6, <2>7, OutcomeStep
  <2>9. Counts(t, w)
    BY Zenon, <1>6, <1>10, <2>8 DEF Counts
  <2> QED  BY <1>4, <2>8, <2>9, PollingFacts, StepKeeps
<1> QED  BY Zenon, <1>4, <1>9, <1>10

(* A storage completion of t that is counted keeps the invariant. *)
LEMMA CountDownKeeps ==
    ASSUME GInv, Polling, NEW t \in Txns, NEW x, Copy(t, x), NEW stop, NEW error,
           CountDown(t, x, stop, error), Links(t), in_flight' = in_flight,
           Continues' => x.count # 0 /\ Left(t, x.sends, s2t, t2s') = ToCome(t) - 1
    PROVE  GInv' /\ (BlockLimit = 1 => Keeps)
<1>1. Continues /\ phase # "start"
  BY PollingFacts
<1>2. PICK y : Step(t, y) /\ (y.pending = {} <=> tx[t].pending = {})
  BY <1>1, CountDownStep
<1>3. Counts(t, y)
  BY Zenon, <1>2 DEF Counts
<1> QED  BY <1>1, <1>2, <1>3, StepKeeps

(* What there is to come is counted. *)
LEMMA WaitFacts ==
    ASSUME GInv, Continues, NEW t \in Txns
    PROVE  /\ DOMAIN tx[t] = Fields /\ tx[t].sends \subseteq Roles
           /\ IsFiniteSet(s2t) /\ IsFiniteSet(t2s)
           /\ ToCome(t) = Left(t, tx[t].sends, s2t, t2s) /\ ToCome(t) \in Nat
           /\ tx[t].count \in Nat /\ tx[t].count < 256 /\ tx[t].count >= ToCome(t)
           /\ Wait(t)
<1>1. Shape(tx[t]) /\ Wait(t) /\ IsFiniteSet(s2t) /\ IsFiniteSet(t2s)
  BY DEF GInv, ContextInv, WaitInv, MailInv
<1>2. ToCome(t) = Left(t, tx[t].sends, s2t, t2s)
  BY DEF ToCome, Outstanding, Left, Mail
<1>3. ToCome(t) \in Nat
  BY Zenon, <1>1, <1>2, LeftFacts DEF Shape
<1> QED  BY <1>1, <1>2, <1>3 DEF Shape, Wait

(* A storage request has left. *)
LEMMA RequestSentKeeps ==
    ASSUME GInv, NEW t \in Txns, NEW role, doca_rdma_task_send_cb(t, role)
    PROVE  GInv' /\ (BlockLimit = 1 => Keeps)
<1>1. PICK x : x = Sent(t, role)
  OBVIOUS
<1>2. /\ Polling /\ role \in tx[t].sends /\ CountDown(t, x, FALSE, FALSE)
      /\ phase' = phase /\ c2s' = c2s /\ t2s' = t2s /\ in_flight' = in_flight
  BY <1>1, Zenon DEF doca_rdma_task_send_cb
<1>3. Continues
  BY <1>2, PollingFacts
<1>4. x.sends = tx[t].sends \ {role} /\ Copy(t, x)
  BY <1>1, <1>3, WaitFacts DEF Sent, Copy, Fields
<1>5. Left(t, x.sends, s2t, t2s) = ToCome(t) - 1 /\ Left(t, x.sends, s2t, t2s) \in Nat
  <2>1. /\ tx[t].sends \subseteq Roles /\ IsFiniteSet(s2t) /\ IsFiniteSet(t2s)
        /\ ToCome(t) = Left(t, tx[t].sends, s2t, t2s) /\ ToCome(t) \in Nat
    BY Zenon, <1>3, WaitFacts
  <2>2. Left(t, tx[t].sends \ {role}, s2t, t2s) = Left(t, tx[t].sends, s2t, t2s) - 1
    <3>1. role \in tx[t].sends
      BY Zenon, <1>2
    <3> QED  BY <2>1, <3>1, LeftSend
  <2>3. Left(t, x.sends, s2t, t2s) = ToCome(t) - 1
    BY Zenon, <1>4, <2>1, <2>2
  <2>4. x.sends \subseteq Roles
    BY Zenon, <1>4, <2>1
  <2> QED  BY Zenon, <2>1, <2>3, <2>4, LeftFacts
<1>6. x.count # 0
  <2>1. tx[t].count \in Nat /\ tx[t].count >= ToCome(t) /\ ToCome(t) \in Nat
    BY Zenon, <1>3, WaitFacts
  <2>2. x.count = tx[t].count
    BY Zenon, <1>4 DEF Copy
  <2> QED  BY <1>5, <2>1, <2>2
<1>7. Links(t)
  BY <1>2 DEF Links
<1> QED  BY Zenon, <1>2, <1>4, <1>5, <1>6, <1>7, CountDownKeeps

(* A response. *)
LEMMA ResponseKeeps ==
    ASSUME GInv, NEW m, doca_rdma_task_receive_cb(m)
    PROVE  GInv' /\ (BlockLimit = 1 => Keeps)
<1>1. PICK t : t = m.txn
  OBVIOUS
<1>2. PICK x : x = [tx[t] EXCEPT !.result = ResponseResult(tx[t], m)]
  BY Zenon
<1>3. /\ Polling /\ m \in t2s /\ t2s' = t2s \ {m}
      /\ \E refused \in BOOLEAN : CountDown(t, x, refused, refused)
      /\ phase' = phase /\ c2s' = c2s /\ in_flight' = in_flight
  BY <1>1, <1>2, Zenon DEF doca_rdma_task_receive_cb
<1>4. Continues
  BY <1>3, PollingFacts
<1>5. t \in Txns /\ m.result \in Results
  BY <1>1, <1>3 DEF GInv, MailInv
<1>6. x.sends = tx[t].sends /\ Copy(t, x)
  <2>1. ResponseResult(tx[t], m) \in {tx[t].result, "IO_FAILED"}
    BY <1>5 DEF ResponseResult, Results
  <2>2. DOMAIN tx[t] = Fields
    BY <1>4, <1>5, WaitFacts
  <2> QED  BY <1>2, <2>1, <2>2 DEF Copy, Fields
<1>7. m \notin s2t
  BY Zenon, <1>1, <1>3, <1>4, <1>5, WaitFacts DEF Wait, Outstanding
<1>8. Left(t, x.sends, s2t, t2s') = ToCome(t) - 1 /\ Left(t, x.sends, s2t, t2s') \in Nat
  <2>1. /\ tx[t].sends \subseteq Roles /\ IsFiniteSet(s2t) /\ IsFiniteSet(t2s)
        /\ ToCome(t) = Left(t, tx[t].sends, s2t, t2s) /\ ToCome(t) \in Nat
    BY Zenon, <1>4, <1>5, WaitFacts
  <2>2. /\ Left(t, tx[t].sends, s2t, t2s \ {m}) = Left(t, tx[t].sends, s2t, t2s) - 1
        /\ IsFiniteSet(t2s \ {m})
    <3>1. m \in t2s /\ m.txn = t
      BY Zenon, <1>1, <1>3
    <3>2. Left(t, tx[t].sends, s2t, t2s \ {m}) = Left(t, tx[t].sends, s2t, t2s) - 1
      BY <1>7, <2>1, <3>1, LeftResponse
    <3> QED  BY <2>1, <3>2, FS_RemoveElement
  <2>3. Left(t, tx[t].sends, s2t, t2s \ {m}) \in Nat
    BY Zenon, <2>1, <2>2, LeftFacts
  <2> QED  BY Zenon, <1>3, <1>6, <2>1, <2>2, <2>3
<1>9. x.count # 0
  <2>1. tx[t].count \in Nat /\ tx[t].count >= ToCome(t) /\ ToCome(t) \in Nat
    BY Zenon, <1>4, <1>5, WaitFacts
  <2>2. x.count = tx[t].count
    BY Zenon, <1>6 DEF Copy
  <2> QED  BY <1>8, <2>1, <2>2
<1>10. Links(t)
  BY <1>1, <1>3 DEF Links
<1> QED  BY Zenon, <1>3, <1>5, <1>6, <1>8, <1>9, <1>10, CountDownKeeps

(* The receive task or the reply fails. *)
LEMMA ComchErrorKeeps ==
    ASSUME GInv, NEW t \in Txns,
           \/ doca_comch_consumer_task_post_recv_error_cb(t)
           \/ doca_comch_producer_task_send_error_cb(t)
    PROVE  GInv' /\ (BlockLimit = 1 => Keeps)
<1>1. PICK a \in {"receive", "reply"} :
        /\ Polling /\ a \in tx[t].tasks
        /\ tx' = [tx EXCEPT ![t] = Completes(t, a)]
        /\ s2t' = s2t /\ t2s' = t2s /\ phase' = phase /\ c2s' = c2s /\ in_flight' = in_flight
  <2>1. CASE doca_comch_consumer_task_post_recv_error_cb(t)
    BY <2>1 DEF doca_comch_consumer_task_post_recv_error_cb, NoProgress
  <2>2. CASE doca_comch_producer_task_send_error_cb(t)
    BY <2>2 DEF doca_comch_producer_task_send_error_cb
  <2> QED  BY Zenon, <2>1, <2>2
<1>2. PICK y : y = Completes(t, a)
  OBVIOUS
<1>3. Continues
  BY <1>1, PollingFacts
<1>4. /\ DOMAIN tx[t] = Fields /\ tx[t].tasks = {a} /\ tx[t].count = 0 /\ tx[t].sends = {}
  BY <1>1, <1>3, TaskFacts
<1>5. /\ DOMAIN y = Fields /\ y.tasks = {} /\ y.count = 0 /\ y.sends = {}
      /\ y.pending = tx[t].pending /\ y.initial = tx[t].initial /\ y.n = tx[t].n
      /\ y.idx = tx[t].idx /\ y.result = tx[t].result
  BY <1>2, <1>4 DEF Completes, Fields
<1>6. Shape(y)
  BY <1>5 DEF Shape
<1>7. Work(y)
  <2>1. Work(tx[t])
    BY DEF GInv, ContextInv
  <2> QED  BY <1>5, <2>1 DEF Work
<1>8. BlockLimit = 1 => Single(y)
  BY <1>3, <1>4, <1>5 DEF GInv, SingleInv, Single
<1>9. Fine(t, y)
  BY Zenon, <1>5, <1>6, <1>7, <1>8 DEF Fine, Kept
<1>10. Counts(t, y)
  BY Zenon, <1>1, <1>5 DEF Counts
<1>11. tx' = [tx EXCEPT ![t] = y] /\ c2s' \subseteq c2s
  BY <1>1, <1>2
<1> QED  BY Zenon, <1>1, <1>5, <1>9, <1>10, <1>11, EndKeeps

(* The send of a storage request fails, and the request may be lost. *)
LEMMA SendErrorKeeps ==
    ASSUME GInv, NEW t \in Txns, NEW role, doca_rdma_task_send_error_cb(t, role)
    PROVE  GInv' /\ (BlockLimit = 1 => Keeps)
<1>1. PICK x : x = set_error(Sent(t, role))
  OBVIOUS
<1>2. PICK unsent : unsent = {m \in s2t : m.txn = t /\ m.role = role}
  BY Zenon
<1>3. PICK y : y = [x EXCEPT !.count = (@ - 1) % 256]
  BY Zenon
<1>4. /\ "send_error" \in GgaFaults /\ Polling /\ role \in tx[t].sends
      /\ \/ CountDown(t, x, FALSE, FALSE)
         \/ /\ s2t' = s2t \ unsent
            /\ tx' = [tx EXCEPT ![t] = y]
            /\ run_flag' = run_flag /\ error_flag' = error_flag
      /\ phase' = phase /\ c2s' = c2s /\ t2s' = t2s /\ in_flight' = in_flight
  BY <1>1, <1>2, <1>3, Zenon DEF doca_rdma_task_send_error_cb, flags
<1>5. Continues /\ phase # "start"
  BY <1>4, PollingFacts
<1>6. /\ x.sends = tx[t].sends \ {role} /\ Copy(t, x) /\ x.result = "IO_FAILED"
      /\ x.pending = tx[t].pending \ ProcessingActions
  BY <1>1, <1>5, WaitFacts DEF Sent, set_error, Copy, Fields
<1>7. x.sends \subseteq Roles
  BY Zenon, <1>5, <1>6, WaitFacts
<1>8. Left(t, x.sends, s2t, t2s) = ToCome(t) - 1 /\ Left(t, x.sends, s2t, t2s) \in Nat
  <2>1. /\ tx[t].sends \subseteq Roles /\ IsFiniteSet(s2t) /\ IsFiniteSet(t2s)
        /\ ToCome(t) = Left(t, tx[t].sends, s2t, t2s) /\ ToCome(t) \in Nat
    BY Zenon, <1>5, WaitFacts
  <2>2. Left(t, tx[t].sends \ {role}, s2t, t2s) = Left(t, tx[t].sends, s2t, t2s) - 1
    <3>1. role \in tx[t].sends
      BY Zenon, <1>4
    <3> QED  BY <2>1, <3>1, LeftSend
  <2>3. Left(t, x.sends, s2t, t2s) = ToCome(t) - 1
    BY Zenon, <1>6, <2>1, <2>2
  <2> QED  BY Zenon, <1>7, <2>1, <2>3, LeftFacts
<1>9. /\ x.count = tx[t].count /\ x.count # 0
      /\ tx[t].count \in Nat /\ tx[t].count < 256
  <2>1. /\ tx[t].count \in Nat /\ tx[t].count < 256
        /\ tx[t].count >= ToCome(t) /\ ToCome(t) \in Nat
    BY Zenon, <1>5, WaitFacts
  <2>2. x.count = tx[t].count
    BY Zenon, <1>6 DEF Copy
  <2> QED  BY <1>8, <2>1, <2>2
<1>10. Links(t)
  BY Zenon, <1>4 DEF Links
<1>11. CASE CountDown(t, x, FALSE, FALSE)
  BY Zenon, <1>4, <1>6, <1>8, <1>9, <1>10, <1>11, CountDownKeeps
<1>12. CASE /\ s2t' = s2t \ unsent
            /\ tx' = [tx EXCEPT ![t] = y]
            /\ run_flag' = run_flag /\ error_flag' = error_flag
  <2>1. /\ DOMAIN y = Fields /\ y.count = (tx[t].count - 1) % 256 /\ y.tasks = tx[t].tasks
        /\ y.sends = x.sends /\ y.pending = x.pending /\ y.initial = tx[t].initial
        /\ y.n = tx[t].n /\ y.idx = tx[t].idx /\ y.result = "IO_FAILED"
    BY <1>3, <1>6 DEF Copy, Fields
  <2>2. y.count = tx[t].count - 1 /\ y.count \in Nat /\ y.count < 256
    <3>1. y.count = tx[t].count - 1
      <4>1. (tx[t].count - 1) % 256 = IF tx[t].count = 0 THEN 255 ELSE tx[t].count - 1
        BY Zenon, <1>9, CountFacts
      <4> QED  BY Zenon, <1>9, <2>1, <4>1
    <3> QED  BY <1>9, <3>1
  <2>3. tx[t].tasks = {} /\ tx[t].pending # {}
    BY Zenon, <1>5, <1>9, WaitFacts DEF Wait
  <2>4. /\ "reply_to_initiator" \in y.pending /\ y.pending \subseteq tx[t].pending
        /\ y.pending \cap {"fetch_from_initiator", "produce_ec_blocks"} = {}
        /\ tx[t].initial \in {ReadActions, WriteActions}
    <3>1. Work(tx[t])
      BY DEF GInv, ContextInv
    <3> QED  BY <1>6, <2>1, <2>3, <3>1 DEF Work, ProcessingActions
  <2>5. Fine(t, y)
    <3>1. Shape(y)
      BY <1>7, <2>1, <2>2 DEF Shape
    <3>2. Work(y)
      BY <2>1, <2>3, <2>4 DEF Work
    <3>3. Kept(t, y)
      BY <2>1 DEF Kept
    <3>4. BlockLimit = 1 => Single(y)
      BY <1>5, <2>1, <2>3, <2>4 DEF GInv, SingleInv, Single
    <3> QED  BY <3>1, <3>2, <3>3, <3>4 DEF Fine
  <2>6. y.count >= Left(t, y.sends, s2t', t2s')
    <3>1. PICK C : C = s2t \ unsent
      BY Zenon
    <3>2. Left(t, x.sends, C, t2s) <= Left(t, x.sends, s2t, t2s) /\ IsFiniteSet(C)
      BY Zenon, <1>5, <1>7, <3>1, WaitFacts, LeftLost
    <3>3. Left(t, x.sends, C, t2s) \in Nat
      BY Zenon, <1>5, <1>7, <3>2, WaitFacts, LeftFacts
    <3>4. Left(t, y.sends, s2t', t2s') = Left(t, x.sends, C, t2s)
      BY Zenon, <1>4, <1>12, <2>1, <3>1
    <3>5. tx[t].count >= ToCome(t) /\ ToCome(t) \in Nat /\ tx[t].count \in Nat
      BY <1>5, WaitFacts
    <3> QED  BY <1>8, <2>2, <3>2, <3>3, <3>4, <3>5
  <2>7. Step(t, y)
    <3>1. s2t' \subseteq s2t /\ \A m \in s2t : m.txn # t => m \in s2t'
      BY <1>2, <1>12
    <3>2. Wait(t) /\ y.tasks = {} /\ y.pending # {} /\ GgaFaults # {}
      BY Zenon, <1>4, <1>5, <2>1, <2>3, <2>4, WaitFacts
    <3> QED  BY Zenon, <1>10, <1>12, <2>5, <2>6, <3>1, <3>2, QuietStep
  <2>8. Counts(t, y)
    BY Zenon, <1>4, <2>3, <2>4 DEF Counts
  <2> QED  BY <1>5, <2>7, <2>8, StepKeeps
<1> QED  BY Zenon, <1>4, <1>11, <1>12

(* What leaves the contexts and the storage links alone. *)
LEMMA SameKeeps ==
    ASSUME GInv, tx' = tx, s2t' = s2t, t2s' = t2s, in_flight' = in_flight,
           \A m \in c2s' : m.blocks \in Nat \ {0},
           phase' = "start" => phase = "start", Continues' => Continues
    PROVE  GInv' /\ Keeps
<1>1. MailInv' /\ ContextInv' /\ FlightInv'
  BY DEF GInv, MailInv, ContextInv, Shape, Work, FlightInv, Busy
<1>2. WaitInv'
  BY Zenon DEF GInv, WaitInv, Wait, Outstanding, ToCome
<1>3. SingleInv'
  BY DEF GInv, SingleInv, Single
<1>4. Keeps
  BY DEF Keeps
<1> QED  BY <1>1, <1>2, <1>3, <1>4 DEF GInv

(* After the failure of an RDMA receive task the worker does not go on. *)
LEMMA FailureStops ==
    ASSUME NEW t, NEW x, CountDown(t, x, TRUE, TRUE)
    PROVE  ~Continues'
<1>1. ASSUME NEW stop, NEW error, stop, error, Flags(stop, error) PROVE ~Continues'
  BY Zenon, <1>1 DEF Flags, Continues
<1>2. ASSUME NEW y, NoProgress(t, y, TRUE, TRUE) PROVE ~Continues'
  BY <1>1, <1>2, Zenon DEF NoProgress
<1>3. ASSUME NEW y, NEW task, NEW stops, SubmitTask(t, y, task, stops, TRUE, TRUE)
      PROVE  ~Continues'
  BY <1>1, <1>3, Zenon DEF SubmitTask
<1>4. ASSUME NEW y, start_read(t, y, TRUE, TRUE) PROVE ~Continues'
  BY <1>1, <1>4, Zenon DEF start_read
<1>5. ASSUME NEW y, send_transaction_complete(t, y, TRUE, TRUE) PROVE ~Continues'
  BY <1>1, <1>5, Zenon DEF send_transaction_complete
<1>6. ASSUME NEW y, progress_transaction(t, y, TRUE, TRUE) PROVE ~Continues'
  BY <1>2, <1>3, <1>4, <1>5, <1>6, Zenon
     DEF progress_transaction, start_write, start_recover, start_decompress,
         start_create_ec_blocks
<1> QED  BY <1>2, <1>6, Zenon DEF CountDown

(* An RDMA receive task fails. *)
LEMMA ReceiveErrorKeeps ==
    ASSUME GInv, NEW role, doca_rdma_task_receive_error_cb(role)
    PROVE  GInv' /\ (BlockLimit = 1 => Keeps)
<1>1. PICK t : t = Transaction0
  OBVIOUS
<1>2. PICK x : x = set_error(tx[t])
  OBVIOUS
<1>3. /\ Polling
      /\ \/ tx' = tx /\ run_flag' = run_flag /\ error_flag' = error_flag /\ s2t' = s2t
         \/ CountDown(t, x, TRUE, TRUE)
      /\ phase' = phase /\ c2s' = c2s /\ t2s' = t2s /\ in_flight' = in_flight
  BY <1>1, <1>2, Zenon DEF doca_rdma_task_receive_error_cb, flags
<1>4. Continues /\ phase # "start"
  BY <1>3, PollingFacts
<1>5. CASE tx' = tx /\ run_flag' = run_flag /\ error_flag' = error_flag /\ s2t' = s2t
  <2>1. \A m \in c2s' : m.blocks \in Nat \ {0}
    BY <1>3 DEF GInv, MailInv
  <2> QED  BY <1>3, <1>4, <1>5, <2>1, SameKeeps
<1>6. CASE CountDown(t, x, TRUE, TRUE)
  <2>1. t \in Txns
    BY <1>1, TxnsAssumption
  <2>2. Copy(t, x)
    BY <1>2, <1>4, <2>1, WaitFacts DEF set_error, Copy, Fields
  <2>3. ~Continues'
    BY Zenon, <1>6, FailureStops
  <2>4. Links(t)
    BY <1>3 DEF Links
  <2> QED  BY Zenon, <1>3, <1>6, <2>1, <2>2, <2>3, <2>4, CountDownKeeps
<1> QED  BY Zenon, <1>3, <1>5, <1>6

-----------------------------------------------------------------------------
(* The start of the worker, and its peers *)

(* The receive tasks are submitted. *)
LEMMA StartKeeps ==
    ASSUME GInv, SubmitInitialTasks
    PROVE  GInv' /\ Keeps
<1>1. PICK T : tx' = [t \in Txns |-> [tx[t] EXCEPT !.tasks = IF t \in T THEN {"receive"} ELSE {}]]
  <2>1. CASE tx' = [t \in Txns |-> [tx[t] EXCEPT !.tasks = {"receive"}]]
    <3>1. tx' = [t \in Txns |-> [tx[t] EXCEPT !.tasks = IF t \in Txns THEN {"receive"} ELSE {}]]
      BY <2>1
    <3> QED  BY Zenon, <3>1
  <2>2. CASE \E T \in SUBSET Txns :
               tx' = [t \in Txns |-> [tx[t] EXCEPT !.tasks = IF t \in T THEN {"receive"} ELSE {}]]
    BY Zenon, <2>2
  <2> QED  BY <2>1, <2>2, Zenon DEF SubmitInitialTasks
<1>2. /\ phase = "start" /\ phase' # "start" /\ in_flight' = in_flight
      /\ s2t' = s2t /\ t2s' = t2s /\ c2s' = c2s
  BY Zenon DEF SubmitInitialTasks, links
<1>3. Continues' => Continues
  BY Zenon DEF SubmitInitialTasks, Flags, Continues, flags
<1>4. \A t \in Txns : Shape(tx[t]) /\ Work(tx[t]) /\ tx[t].pending = {}
  BY <1>2 DEF GInv, ContextInv
<1>5. \A t \in Txns :
        /\ DOMAIN tx'[t] = Fields /\ tx'[t].tasks \in {{}, {"receive"}}
        /\ tx'[t].pending = {} /\ tx'[t].count = tx[t].count /\ tx'[t].sends = tx[t].sends
  BY <1>1, <1>4 DEF Shape, Fields
<1>6. ContextInv'
  <2>1. tx' = [t \in Txns |-> tx'[t]]
    BY <1>1
  <2>2. \A t \in Txns : Shape(tx[t])'
    BY <1>4, <1>5 DEF Shape
  <2>3. \A t \in Txns : Work(tx[t])'
    BY <1>5 DEF Work, Tasks
  <2> QED  BY <1>2, <2>1, <2>2, <2>3 DEF ContextInv
<1>7. MailInv'
  BY <1>2 DEF GInv, MailInv
<1>8. FlightInv'
  <2>1. Busy = {} /\ Busy' = {}
    BY <1>4, <1>5 DEF Busy
  <2> QED  BY <1>2, <2>1 DEF GInv, FlightInv
<1>9. WaitInv'
  <2> SUFFICES ASSUME Continues', NEW t \in Txns PROVE Wait(t)'
    BY DEF WaitInv
  <2>1. Wait(t) /\ tx[t].count = 0
    BY Zenon, <1>3, <1>4 DEF GInv, WaitInv, Wait
  <2>2. Outstanding(t)' = Outstanding(t) /\ ToCome(t)' = ToCome(t)
    BY <1>2, <1>5 DEF Outstanding, ToCome
  <2> QED  BY Zenon, <1>2, <1>5, <2>1, <2>2 DEF Wait
<1>10. SingleInv' /\ Keeps
  BY <1>5 DEF SingleInv, Single, Keeps
<1> QED  BY <1>6, <1>7, <1>8, <1>9, <1>10 DEF GInv

(* A target serves a request: the response takes its place. *)
LEMMA TargetKeeps ==
    ASSUME GInv, NEW m \in s2t, TargetServes(m)
    PROVE  GInv' /\ Keeps
<1>1. PICK a : /\ a.txn = m.txn /\ a.role = m.role /\ a.result \in Results
               /\ t2s' = t2s \cup {a}
  BY Zenon DEF TargetServes, Results
<1>2. /\ s2t' = s2t \ {m} /\ tx' = tx /\ phase' = phase /\ in_flight' = in_flight
      /\ c2s' = c2s /\ run_flag' = run_flag /\ error_flag' = error_flag
  BY DEF TargetServes, flags
<1>3. ContextInv' /\ FlightInv' /\ SingleInv' /\ Keeps
  <2>1. ContextInv'
    BY <1>2 DEF GInv, ContextInv, Shape, Work
  <2>2. FlightInv'
    BY <1>2 DEF GInv, FlightInv, Busy
  <2>3. SingleInv'
    BY <1>2 DEF GInv, SingleInv, Single, Continues
  <2>4. Keeps
    BY <1>2 DEF Keeps
  <2> QED  BY <2>1, <2>2, <2>3, <2>4
<1>4. MailInv'
  <2>1. IsFiniteSet(s2t') /\ IsFiniteSet(t2s')
    BY <1>1, <1>2, FS_RemoveElement, FS_AddElement DEF GInv, MailInv
  <2>2. m.txn \in Txns /\ m.role \in Roles
    BY DEF GInv, MailInv
  <2> QED  BY <1>1, <1>2, <2>1, <2>2 DEF GInv, MailInv
<1>5. WaitInv'
  <2> SUFFICES ASSUME Continues', NEW t \in Txns PROVE Wait(t)'
    BY DEF WaitInv
  <2>1. Continues
    BY <1>2 DEF Continues
  <2>2. Wait(t)
    BY <2>1 DEF GInv, WaitInv
  <2>3. CASE t # m.txn
    <3>1. Outstanding(t)' = Outstanding(t)
      BY <1>1, <1>2, <2>3 DEF Outstanding
    <3>2. ToCome(t)' = ToCome(t)
      BY <1>2, <3>1 DEF ToCome
    <3>3. \A k \in Outstanding(t) : k.txn = t
      BY DEF Outstanding
    <3>4. \A k \in Outstanding(t)' : ~(k \in s2t' /\ k \in t2s')
      BY <1>1, <1>2, <2>2, <2>3, <3>1, <3>3 DEF Wait
    <3> QED  BY <1>2, <2>2, <3>1, <3>2, <3>4 DEF Wait
  <2>4. CASE t = m.txn
    <3>1. m \in Outstanding(t) /\ m \notin t2s
      BY <2>2, <2>4 DEF Outstanding, Wait
    <3>2. Outstanding(t)' = (Outstanding(t) \ {m}) \cup {a}
      BY <1>1, <1>2, <2>4, <3>1 DEF Outstanding
    <3>3. a \notin Outstanding(t) \ {m}
      BY <1>1, <2>2, <3>1 DEF Wait
    <3>4. a \notin s2t \ {m}
      BY <1>1, <2>4, <3>3 DEF Outstanding
    <3>5. Cardinality(Outstanding(t)') = Cardinality(Outstanding(t))
      <4>1. IsFiniteSet(Outstanding(t)) /\ Cardinality(Outstanding(t)) \in Nat
        <5>1. Outstanding(t) = Mail(t, s2t, t2s)
          BY DEF Outstanding, Mail
        <5> QED  BY Zenon, <2>1, <5>1, WaitFacts, LeftFacts
      <4>2. /\ IsFiniteSet(Outstanding(t) \ {m})
            /\ Cardinality(Outstanding(t) \ {m}) = Cardinality(Outstanding(t)) - 1
        BY <3>1, <4>1, FS_RemoveElement
      <4>3. Cardinality((Outstanding(t) \ {m}) \cup {a}) =
              Cardinality(Outstanding(t) \ {m}) + 1
        BY Zenon, <3>3, <4>2, FS_AddElement
      <4> QED  BY <3>2, <4>1, <4>2, <4>3
    <3>6. ToCome(t)' = ToCome(t)
      BY <1>2, <3>5 DEF ToCome
    <3>7. \A k \in Outstanding(t)' : ~(k \in s2t' /\ k \in t2s')
      BY Zenon, <1>1, <1>2, <2>2, <3>2, <3>4 DEF Wait
    <3>8. \A m1, m2 \in Outstanding(t)' : m1.role = m2.role => m1 = m2
      BY <1>1, <2>2, <3>1, <3>2 DEF Wait
    <3> QED  BY Zenon, <1>2, <2>2, <3>6, <3>7, <3>8 DEF Wait
  <2> QED  BY <2>3, <2>4
<1> QED  BY <1>3, <1>4, <1>5 DEF GInv

(* A client asks for one block or more. *)
LEMMA ClientKeeps ==
    ASSUME GInv, NEW c \in Clients, ClientSends(c) \/ ClientTakes(c)
    PROVE  GInv' /\ Keeps
<1>1. /\ tx' = tx /\ s2t' = s2t /\ t2s' = t2s /\ in_flight' = in_flight /\ phase' = phase
      /\ run_flag' = run_flag /\ error_flag' = error_flag
  BY DEF ClientSends, ClientTakes, gvars, flags
<1>2. \A m \in c2s' : m.blocks \in Nat \ {0}
  <2>1. CASE ClientSends(c)
    <3>1. PICK r \in Requests :
            c2s' = c2s \cup {[id |-> c, type |-> r.type, region |-> c, blocks |-> r.blocks]}
      BY Zenon, <2>1 DEF ClientSends
    <3>2. r.blocks \in Nat \ {0}
      BY PeersAssumption
    <3> QED  BY <3>1, <3>2 DEF GInv, MailInv
  <2>2. CASE ClientTakes(c)
    BY <2>2 DEF ClientTakes, GInv, MailInv
  <2> QED  BY <2>1, <2>2
<1>3. Continues' => Continues
  BY <1>1 DEF Continues
<1> QED  BY <1>1, <1>2, <1>3, SameKeeps

-----------------------------------------------------------------------------
(* The results *)

(* The invariant holds at the beginning. *)
LEMMA GgaInit == GInit => GInv
<1> SUFFICES ASSUME GInit PROVE GInv
  OBVIOUS
<1>1. /\ tx = [t \in Txns |-> Idle] /\ in_flight = 0
      /\ c2s = {} /\ s2t = {} /\ t2s = {}
  BY DEF GInit, Init
<1>2. \A t \in Txns : tx[t] = Idle
  BY <1>1
<1>3. /\ DOMAIN Idle = Fields /\ Idle.pending = {} /\ Idle.tasks = {} /\ Idle.count = 0
      /\ Idle.sends = {}
  BY Zenon DEF Idle, Fields
<1>4. IsFiniteSet({}) /\ Cardinality({}) = 0
  BY FS_EmptySet
<1>5. MailInv
  BY <1>1, <1>4 DEF MailInv
<1>6. ContextInv
  <2>1. Shape(Idle) /\ Work(Idle)
    BY <1>3 DEF Shape, Work
  <2>2. tx = [t \in Txns |-> tx[t]]
    BY <1>1
  <2> QED  BY <1>2, <1>3, <2>1, <2>2 DEF ContextInv
<1>7. FlightInv
  <2>1. Busy = {}
    BY <1>2, <1>3 DEF Busy
  <2> QED  BY <1>1, <1>4, <2>1 DEF FlightInv
<1>8. WaitInv
  <2> SUFFICES ASSUME NEW t \in Txns PROVE Wait(t)
    BY DEF WaitInv
  <2>1. Outstanding(t) = {}
    BY <1>1 DEF Outstanding
  <2>2. ToCome(t) = Cardinality({}) + Cardinality({})
    BY <1>2, <1>3, <2>1 DEF ToCome
  <2>3. ToCome(t) = 0
    BY <1>4, <2>2
  <2> QED  BY <1>2, <1>3, <2>1, <2>3 DEF Wait
<1>9. SingleInv
  BY <1>2, <1>3 DEF SingleInv, Single
<1> QED  BY <1>5, <1>6, <1>7, <1>8, <1>9 DEF GInv

(* Every step keeps it, and keeps the error of a request of one block. *)
LEMMA GgaNext == GInv /\ [GNext]_vars => GInv' /\ (BlockLimit = 1 => Keeps)
<1> SUFFICES ASSUME GInv, [GNext]_vars PROVE GInv' /\ (BlockLimit = 1 => Keeps)
  OBVIOUS
<1>1. ASSUME NEW t \in Txns, TaskDone(t) PROVE GInv' /\ (BlockLimit = 1 => Keeps)
  BY <1>1, TaskDoneKeeps, CreateKeeps DEF TaskDone
<1>2. ASSUME TaskError PROVE GInv' /\ (BlockLimit = 1 => Keeps)
  <2>1. ASSUME NEW t \in Txns, NEW a \in {"recover", "decompress", "create", "memcpy"},
               AcceleratorError(t, a)
        PROVE  GInv' /\ (BlockLimit = 1 => Keeps)
    BY <2>1, AcceleratorErrorKeeps DEF Tasks
  <2> QED  BY <1>2, <2>1, ComchErrorKeeps, SendErrorKeeps, ReceiveErrorKeeps, Zenon
              DEF TaskError, doca_ec_task_recover_error_cb,
                  doca_compress_task_decompress_lz4_stream_error_cb,
                  doca_ec_task_create_error_cb, doca_dma_task_memcpy_error_cb
<1>3. ASSUME run_data_path_ops \/ Stop \/ UNCHANGED vars PROVE GInv' /\ Keeps
  <2>1. /\ tx' = tx /\ s2t' = s2t /\ t2s' = t2s /\ in_flight' = in_flight /\ c2s' = c2s
        /\ phase' = "start" => phase = "start"
    BY <1>3 DEF run_data_path_ops, Stop, vars, gvars, links
  <2>2. Continues' => Continues
    BY <1>3 DEF run_data_path_ops, Stop, vars, gvars, flags, Continues
  <2>3. \A m \in c2s' : m.blocks \in Nat \ {0}
    BY <2>1 DEF GInv, MailInv
  <2> QED  BY <2>1, <2>2, <2>3, SameKeeps
<1>4. ASSUME Next PROVE GInv' /\ (BlockLimit = 1 => Keeps)
  <2>1. CASE SubmitInitialTasks
    BY <2>1, StartKeeps
  <2>2. CASE ReceiveRequest
    BY <2>2, ReceiveKeeps DEF ReceiveRequest
  <2>3. CASE ReplySent
    BY <2>3, ReplySentKeeps DEF ReplySent
  <2>4. CASE ReceiveResponse
    BY <2>4, ResponseKeeps DEF ReceiveResponse
  <2>5. CASE \E t \in Txns : RequestSent(t)
    BY <2>5, RequestSentKeeps DEF RequestSent
  <2> QED  BY <1>1, <1>2, <1>3, <1>4, <2>1, <2>2, <2>3, <2>4, <2>5, Zenon DEF Next
<1>5. CASE WorkerStep
  BY <1>4, <1>5 DEF WorkerStep
<1>6. CASE \E c \in Clients : ClientSends(c) \/ ClientTakes(c)
  BY <1>6, ClientKeeps
<1>7. CASE \E m \in s2t : TargetServes(m)
  BY <1>7, TargetKeeps
<1>8. CASE UNCHANGED vars
  BY <1>3, <1>8
<1>9. Done => UNCHANGED vars
  BY DEF Done
<1> QED  BY <1>5, <1>6, <1>7, <1>8, <1>9 DEF GNext

(* GInv is an invariant of the worker and its peers. *)
LEMMA GgaInvariant == Spec => []GInv
<1>1. GInv /\ [GNext]_vars => GInv'
  BY GgaNext
<1> QED  BY <1>1, GgaInit, PTL DEF Spec

(* pending_storage_response_count is never less than the completions and   *)
(* responses still to come while the thread polls, whatever fails, and is  *)
(* exact when nothing does; in_flight_transaction_count is the number of   *)
(* contexts in use. For any contexts, clients, requests and failures.      *)
THEOREM CountersExactHolds == Spec => []CountersExact
<1>1. GInv => CountersExact
  BY DEF GInv, WaitInv, Wait, FlightInv, Busy, CountersExact
<1> QED  BY <1>1, GgaInvariant, PTL

(* The message, the chunk and the reply of a context have one user at a    *)
(* time: one task at most, and none while storage requests are out.        *)
THEOREM OneUserPerContextHolds == Spec => []OneUserPerContext
<1>1. GInv => OneUserPerContext
  <2> SUFFICES ASSUME GInv, NEW t \in Txns
               PROVE  /\ Cardinality(tx[t].tasks) <= 1
                      /\ Continues /\ tx[t].tasks # {} => ToCome(t) = 0
    BY Zenon DEF OneUserPerContext
  <2>1. IsFiniteSet({}) /\ Cardinality({}) = 0
    BY FS_EmptySet
  <2>2. ASSUME NEW a PROVE Cardinality({a}) = 1
    <3>1. Cardinality({} \cup {a}) = Cardinality({}) + 1
      BY Zenon, <2>1, FS_AddElement
    <3>2. {} \cup {a} = {a}
      OBVIOUS
    <3> QED  BY <2>1, <3>1, <3>2
  <2>3. tx[t].tasks = {} \/ \E a \in Tasks : tx[t].tasks = {a}
    BY DEF GInv, ContextInv, Work
  <2>4. Cardinality(tx[t].tasks) <= 1
    <3>1. CASE tx[t].tasks = {}
      BY <2>1, <3>1
    <3>2. CASE \E a \in Tasks : tx[t].tasks = {a}
      <4>1. PICK a \in Tasks : tx[t].tasks = {a}
        BY <3>2
      <4>2. Cardinality(tx[t].tasks) = 1
        BY <2>2, <4>1
      <4> QED  BY <4>2
    <3> QED  BY <2>3, <3>1, <3>2
  <2>5. ASSUME Continues, tx[t].tasks # {} PROVE ToCome(t) = 0
    <3>1. tx[t].count = 0
      BY <2>5 DEF GInv, WaitInv, Wait
    <3>2. tx[t].count >= ToCome(t) /\ ToCome(t) \in Nat
      BY Zenon, <2>5, WaitFacts
    <3> QED  BY <3>1, <3>2
  <2> QED  BY <2>4, <2>5
<1> QED  BY <1>1, GgaInvariant, PTL

(* When a request is one block, an error it has met is its result until    *)
(* the reply is sent, whatever completes or fails in between. (With more   *)
(* blocks it is not: the next block starts with the result SUCCESS.)       *)
THEOREM ErrorKeptHolds == BlockLimit = 1 /\ Spec => ErrorKept
<1> SUFFICES ASSUME BlockLimit = 1 PROVE Spec => ErrorKept
  OBVIOUS
<1>1. GInv /\ [GNext]_vars => Keeps
  BY GgaNext
<1>2. GInv /\ [GNext]_vars =>
        [\A t \in Txns :
           tx[t].pending # {} /\ tx[t].result = "IO_FAILED" /\ tx[t]'.pending # {} =>
             tx[t]'.result = "IO_FAILED"]_vars
  BY <1>1 DEF Keeps
<1> QED  BY <1>2, GgaInvariant, PTL DEF Spec, ErrorKept
=============================================================================
