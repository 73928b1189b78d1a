--------------------------- MODULE ZeroCopyProofs ---------------------------
(***************************************************************************)
(* Proofs about ZeroCopySystem: for any number of slots and requests and   *)
(* any failures, a buffer of the relay never has two tasks, and a request  *)
(* is in one place on its way to the target and back.                      *)
(***************************************************************************)
EXTENDS ZeroCopySystem, FiniteSetTheorems, TLAPS

(* A buffer has at most one task, and the one whose response is being      *)
(* submitted has none.                                                     *)
TaskInv ==
    /\ \A s \in Slots : /\ request_tasks[s] \in {{}, {"receive"}, {"send"}}
                        /\ response_tasks[s] \in {{}, {"receive"}, {"send"}}
    /\ spin # 0 => response_tasks[spin] = {} /\ response[spin] \in Answer
    /\ phase = "start" => spin = 0

Stages == 1 .. 7

(* No id is in two of the places P, all are ids of the first n requests,   *)
(* and each of those has a place.                                          *)
Once(P) == \A i : \A p, q \in Stages : i \in P[p] /\ i \in P[q] => p = q
Within(P, n) == \A p \in Stages : P[p] \subseteq 1 .. n
Complete(P, n) == \A i \in 1 .. n : \E p \in Stages : i \in P[p]

(* The messages of a link are told apart by their ids. *)
Unique(S) == \A m, n \in S : m.id = n.id => m = n

PlaceInv ==
    /\ Unique(t2s) /\ Unique(s2c)
    /\ Once(Places) /\ Within(Places, sent)
    /\ ~error_flag => Complete(Places, sent)

IInv == TypeOK /\ TaskInv /\ PlaceInv

-----------------------------------------------------------------------------
(* Places *)

(* The numbers of the places. *)
LEMMA StagesAre == Stages = {1, 2, 3, 4, 5, 6, 7}
BY DEF Stages

(* The seven places, by number, in a state and in the next one.            *)
LEMMA PlacesAre ==
    /\ DOMAIN Places = Stages
    /\ Places[1] = IdsOf(c2s) /\ Places[2] = IdsOf(s2t) /\ Places[3] = serving
    /\ Places[4] = IdsOf(t2s) /\ Places[5] = Forwarding /\ Places[6] = IdsOf(s2c)
    /\ Places[7] = answered
BY DEF Places, Stages

LEMMA PlacesAreThen ==
    /\ Places'[1] = IdsOf(c2s') /\ Places'[2] = IdsOf(s2t') /\ Places'[3] = serving'
    /\ Places'[4] = IdsOf(t2s') /\ Places'[5] = Forwarding' /\ Places'[6] = IdsOf(s2c')
    /\ Places'[7] = answered'
BY DEF Places, IdsOf

(* A message that is taken off a link, or put on it. *)
LEMMA IdsRemove ==
    ASSUME NEW S, NEW m \in S, Unique(S)
    PROVE  IdsOf(S \ {m}) = IdsOf(S) \ {m.id}
BY DEF Unique, IdsOf

LEMMA IdsAdd ==
    ASSUME NEW S, NEW m
    PROVE  IdsOf(S \cup {m}) = IdsOf(S) \cup {m.id}
BY DEF IdsOf

(* A new id keeps the messages of a link apart.                            *)
LEMMA UniqueAdd ==
    ASSUME NEW S, NEW m, Unique(S), m.id \notin IdsOf(S)
    PROVE  Unique(S \cup {m})
BY DEF Unique, IdsOf

(* Requests carry nothing but their id.                                    *)
LEMMA RequestsUnique ==
    ASSUME NEW S \in SUBSET Request
    PROVE  Unique(S)
<1> SUFFICES ASSUME NEW m \in S, NEW n \in S, m.id = n.id PROVE m = n
  BY DEF Unique
<1> QED BY DEF Request

(* One id moves from place a to place b. *)
Shift(P, Q, a, b, i) ==
    /\ a \in Stages /\ b \in Stages /\ a # b
    /\ i \in P[a] /\ Q[a] = P[a] \ {i} /\ Q[b] = P[b] \cup {i}
    /\ \A r \in Stages \ {a, b} : Q[r] = P[r]

(* The id was not in b. *)
LEMMA Apart ==
    ASSUME NEW P, NEW Q, NEW a, NEW b, NEW i, Shift(P, Q, a, b, i), Once(P)
    PROVE  i \notin P[b]
BY DEF Shift, Once

(* A move keeps every id in one place, and loses none. *)
LEMMA Moved ==
    ASSUME NEW P, NEW Q, NEW a, NEW b, NEW i, Shift(P, Q, a, b, i), Once(P)
    PROVE  /\ Once(Q)
           /\ \A n : Within(P, n) => Within(Q, n)
           /\ \A n : Complete(P, n) => Complete(Q, n)
<1> USE DEF Shift
<1>1. \A r \in Stages : Q[r] \subseteq P[r] \cup {i}
  OBVIOUS
<1>2. \A r \in Stages : i \in Q[r] => r = b
  BY DEF Once
<1>3. Once(Q)
  BY <1>1, <1>2 DEF Once
<1>4. ASSUME NEW n, Within(P, n) PROVE Within(Q, n)
  BY <1>1, <1>4 DEF Within
<1>5. ASSUME NEW n, Complete(P, n) PROVE Complete(Q, n)
  <2> SUFFICES ASSUME NEW j \in 1 .. n PROVE \E p \in Stages : j \in Q[p]
    BY DEF Complete
  <2>1. PICK p \in Stages : j \in P[p]
    BY <1>5 DEF Complete
  <2>2. CASE j = i
    BY <2>2
  <2>3. CASE j # i
    BY <2>1, <2>3
  <2> QED BY <2>2, <2>3
<1> QED BY <1>3, <1>4, <1>5

(* Ids are only lost. *)
LEMMA Lost ==
    ASSUME NEW P, NEW Q, \A r \in Stages : Q[r] \subseteq P[r], Once(P), NEW n, Within(P, n)
    PROVE  Once(Q) /\ Within(Q, n)
BY DEF Once, Within

(* A relay that has not started satisfies the invariant.                   *)
LEMMA InitInv == ZInit => IInv
<1> SUFFICES ASSUME ZInit PROVE IInv
  OBVIOUS
<1>1. run_flag \in BOOLEAN /\ error_flag \in BOOLEAN
  BY Zenon DEF ZInit, Init
<1>2. TypeOK
  BY <1>1, PeersAssumption DEF ZInit, Init, TypeOK
<1>3. TaskInv
  BY DEF ZInit, Init, TaskInv
<1>4. \A p \in Stages : Places[p] = {}
  BY DEF Places, Stages, ZInit, Init, IdsOf, Forwarding
<1>5. PlaceInv
  BY <1>4 DEF PlaceInv, Unique, Once, Within, Complete, ZInit
<1> QED BY <1>2, <1>3, <1>5 DEF IInv

-----------------------------------------------------------------------------
(* The callbacks of the relay *)

(* doca_comch_consumer_task_post_recv_cb: the request moves on, or is lost *)
(* with an error.                                                          *)
LEMMA ReceiveRequestStep ==
    ASSUME IInv, NEW s \in Slots, NEW m \in c2s, doca_comch_consumer_task_post_recv_cb(s, m),
           UNCHANGED peers
    PROVE  IInv'
<1>1. m \in Request /\ m.id \in Ids /\ request_tasks[s] = {"receive"} /\ phase = "run"
  BY DEF doca_comch_consumer_task_post_recv_cb, Polling, IInv, TypeOK, TaskInv, Request
<1>2. PICK X \in {{}, {"send"}} : request_tasks' = [request_tasks EXCEPT ![s] = X]
  BY <1>1 DEF doca_comch_consumer_task_post_recv_cb, Swap, Drop
<1>3. /\ UNCHANGED <<response_tasks, spin, response, completed, phase, t2s, s2c, sent, serving, answered>>
      /\ request' = [request EXCEPT ![s] = m]
      /\ c2s' = c2s \ {m}
  BY DEF doca_comch_consumer_task_post_recv_cb, peers
<1>4. \/ UNCHANGED <<run_flag, error_flag>> /\ s2t' = s2t \cup {m}
      \/ run_flag' = FALSE /\ error_flag' = TRUE /\ UNCHANGED s2t
  BY DEF doca_comch_consumer_task_post_recv_cb, Fail, flags
<1>5. run_flag' \in BOOLEAN /\ error_flag' \in BOOLEAN
  BY Zenon, <1>4 DEF IInv, TypeOK
<1>6. s2t' \subseteq Request /\ c2s' \subseteq Request
  BY <1>1, <1>3, <1>4 DEF IInv, TypeOK
<1>7. TypeOK'
  BY <1>1, <1>2, <1>3, <1>5, <1>6 DEF IInv, TypeOK
<1>8. TaskInv'
  BY <1>2, <1>3 DEF IInv, TypeOK, TaskInv
<1>9. Forwarding' = Forwarding
  BY <1>3 DEF Forwarding
<1>10. IdsOf(c2s') = IdsOf(c2s) \ {m.id} /\ m.id \in IdsOf(c2s)
  BY Zenon, <1>3, IdsRemove, RequestsUnique DEF IInv, TypeOK, IdsOf
<1>11. PlaceInv'
  <2>1. CASE UNCHANGED <<run_flag, error_flag>> /\ s2t' = s2t \cup {m}
    <3>1. IdsOf(s2t') = IdsOf(s2t) \cup {m.id}
      BY <2>1, IdsAdd
    <3>2. /\ m.id \in Places[1] /\ Places'[1] = Places[1] \ {m.id}
          /\ Places'[2] = Places[2] \cup {m.id}
          /\ \A r \in Stages \ {1, 2} : Places'[r] = Places[r]
      BY <1>3, <1>9, <1>10, <3>1, PlacesAre, PlacesAreThen, StagesAre
    <3>3. /\ Once(Places') /\ Within(Places', sent)
          /\ Complete(Places, sent) => Complete(Places', sent)
      <4>1. Shift(Places, Places', 1, 2, m.id)
        BY <3>2, StagesAre DEF Shift
      <4>2. Once(Places) /\ Within(Places, sent)
        BY DEF IInv, PlaceInv
      <4> QED BY <4>1, <4>2, Moved
    <3> QED BY <1>3, <2>1, <3>3 DEF IInv, PlaceInv, Unique
  <2>2. CASE run_flag' = FALSE /\ error_flag' = TRUE /\ UNCHANGED s2t
    <3>1. \A r \in Stages : Places'[r] \subseteq Places[r]
      BY <1>3, <1>9, <1>10, <2>2, PlacesAre, PlacesAreThen, StagesAre
    <3>2. Once(Places') /\ Within(Places', sent)
      BY <3>1, Lost DEF IInv, PlaceInv
    <3> QED BY <1>3, <2>2, <3>2 DEF IInv, PlaceInv, Unique
  <2> QED BY Zenon, <1>4, <2>1, <2>2
<1> QED BY <1>7, <1>8, <1>11 DEF IInv

(* A step that leaves the places as they are, and one that only loses      *)
(* messages together with an error.                                        *)
LEMMA SamePlaces ==
    ASSUME PlaceInv, UNCHANGED <<links, peers>>, Forwarding' = Forwarding, error_flag => error_flag',
           error_flag' \in BOOLEAN
    PROVE  PlaceInv'
<1>1. UNCHANGED <<c2s, s2t, t2s, s2c, sent, serving, answered>>
  BY DEF links, peers
<1>2. Places' = Places
  BY <1>1 DEF Places, IdsOf
<1> QED BY <1>1, <1>2 DEF PlaceInv, Unique

LEMMA FewerPlaces ==
    ASSUME PlaceInv, UNCHANGED <<c2s, t2s, peers>>, s2t' \subseteq s2t, s2c' \subseteq s2c,
           Forwarding' \subseteq Forwarding, error_flag' = TRUE
    PROVE  PlaceInv'
<1>1. \A r \in Stages : Places'[r] \subseteq Places[r]
  BY PlacesAre, PlacesAreThen, StagesAre DEF IdsOf, peers
<1>2. Once(Places') /\ Within(Places', sent)
  BY <1>1, Lost DEF PlaceInv
<1> QED BY <1>2 DEF PlaceInv, Unique, peers

(* A callback replaces the task of one buffer by X.                        *)
LEMMA RequestTaskStep ==
    ASSUME IInv, NEW s \in Slots, NEW X \in {{}, {"receive"}, {"send"}},
           request_tasks' = [request_tasks EXCEPT ![s] = X],
           request' \in {request, [request EXCEPT ![s] = NoMessage]},
           UNCHANGED <<response_tasks, spin, response, completed, phase, c2s, t2s, s2c, peers>>,
           s2t' \subseteq s2t, s2t' = s2t \/ error_flag',
           \/ UNCHANGED flags
           \/ Fail
    PROVE  IInv'
<1>1. run_flag' \in BOOLEAN /\ error_flag' \in BOOLEAN /\ (error_flag => error_flag')
  BY Zenon DEF IInv, TypeOK, flags, Fail
<1>2. TypeOK'
  BY <1>1 DEF IInv, TypeOK, peers
<1>3. TaskInv'
  BY DEF IInv, TypeOK, TaskInv
<1>4. Forwarding' = Forwarding
  BY DEF Forwarding
<1>5. PlaceInv'
  <2>1. CASE s2t' = s2t
    BY <1>1, <1>4, <2>1, SamePlaces DEF IInv, links
  <2>2. CASE error_flag'
    BY <1>1, <1>4, <2>2, FewerPlaces DEF IInv
  <2> QED BY <2>1, <2>2
<1> QED BY <1>2, <1>3, <1>5 DEF IInv

LEMMA ResponseTaskStep ==
    ASSUME IInv, NEW s \in Slots, NEW X \in {{}, {"receive"}, {"send"}}, spin = 0,
           response_tasks' = [response_tasks EXCEPT ![s] = X],
           response' \in {response, [response EXCEPT ![s] = NoMessage]},
           completed' \in {completed, completed + 1},
           UNCHANGED <<request_tasks, spin, request, phase, c2s, s2t, t2s, peers>>,
           s2c' \subseteq s2c, s2c' = s2c \/ error_flag',
           \/ UNCHANGED flags
           \/ Fail
    PROVE  IInv'
<1>1. run_flag' \in BOOLEAN /\ error_flag' \in BOOLEAN /\ (error_flag => error_flag')
  BY Zenon DEF IInv, TypeOK, flags, Fail
<1>2. TypeOK'
  <2>1. completed' \in Nat
    BY DEF IInv, TypeOK
  <2> QED BY <1>1, <2>1 DEF IInv, TypeOK, peers
<1>3. TaskInv'
  BY DEF IInv, TypeOK, TaskInv
<1>4. Forwarding' = Forwarding
  BY DEF Forwarding
<1>5. PlaceInv'
  <2>1. CASE s2c' = s2c
    BY <1>1, <1>4, <2>1, SamePlaces DEF IInv, links
  <2>2. CASE error_flag'
    BY <1>1, <1>4, <2>2, FewerPlaces DEF IInv
  <2> QED BY <2>1, <2>2
<1> QED BY <1>2, <1>3, <1>5 DEF IInv

(* doca_rdma_task_receive_cb: the response is taken off the link.          *)
LEMMA ReceiveResponseStep ==
    ASSUME IInv, NEW s \in Slots, NEW m \in t2s, doca_rdma_task_receive_cb(s, m), UNCHANGED peers
    PROVE  IInv'
<1> DEFINE answer == [id |-> m.id, result |-> "SUCCESS"]
<1>1. m \in Answer /\ answer \in Answer /\ answer.id = m.id
  BY DEF IInv, TypeOK, Answer
<1>2. response_tasks[s] = {"receive"} /\ spin = 0 /\ phase = "run"
  BY DEF doca_rdma_task_receive_cb, Polling, IInv, TaskInv
<1>3. /\ response_tasks' = [response_tasks EXCEPT ![s] = {}]
      /\ response' = [response EXCEPT ![s] = answer]
      /\ spin' = s /\ t2s' = t2s \ {m}
      /\ UNCHANGED <<request_tasks, request, completed, run_flag, error_flag, phase, c2s, s2t, s2c,
                     sent, serving, answered>>
  BY Zenon, <1>2 DEF doca_rdma_task_receive_cb, Drop, flags, peers
<1>4. TypeOK'
  BY <1>1, <1>3 DEF IInv, TypeOK
<1>5. response'[s] = answer /\ response_tasks'[s] = {} /\ s # 0
  BY <1>3, SlotsAssumption DEF IInv, TypeOK
<1>6. TaskInv'
  BY <1>1, <1>2, <1>3, <1>5 DEF IInv, TypeOK, TaskInv
<1>7. Forwarding = {} /\ Forwarding' = {m.id}
  BY <1>1, <1>2, <1>3, <1>5 DEF Forwarding
<1>8. IdsOf(t2s') = IdsOf(t2s) \ {m.id} /\ m.id \in IdsOf(t2s)
  BY <1>3, IdsRemove DEF IInv, PlaceInv, IdsOf
<1>9. /\ m.id \in Places[4] /\ Places'[4] = Places[4] \ {m.id}
      /\ Places'[5] = Places[5] \cup {m.id}
      /\ \A r \in Stages \ {4, 5} : Places'[r] = Places[r]
  BY <1>3, <1>7, <1>8, PlacesAre, PlacesAreThen, StagesAre
<1>10. /\ Once(Places') /\ Within(Places', sent)
       /\ Complete(Places, sent) => Complete(Places', sent)
  <2>1. Shift(Places, Places', 4, 5, m.id)
    BY <1>9, StagesAre DEF Shift
  <2>2. Once(Places) /\ Within(Places, sent)
    BY DEF IInv, PlaceInv
  <2> QED BY <2>1, <2>2, Moved
<1>11. PlaceInv'
  BY <1>3, <1>10 DEF IInv, PlaceInv, Unique
<1> QED BY <1>4, <1>6, <1>11 DEF IInv

(* The end of that callback: the response is on its way to the initiator,  *)
(* or lost with an error.                                                  *)
LEMMA SubmitResponseStep ==
    ASSUME IInv, SubmitResponse, UNCHANGED peers
    PROVE  IInv'
<1>1. /\ spin \in Slots /\ spin # 0 /\ response_tasks[spin] = {} /\ response[spin] \in Answer
      /\ phase # "start"
  BY DEF SubmitResponse, IInv, TypeOK, TaskInv
<1>2. /\ UNCHANGED <<request_tasks, request, response, completed, phase, c2s, s2t, t2s,
                     sent, serving, answered>>
      /\ spin' = 0
  BY DEF SubmitResponse, buffers, peers
<1>3. PICK X \in {{}, {"send"}} : response_tasks' = [response_tasks EXCEPT ![spin] = X]
  BY <1>1 DEF SubmitResponse, IInv, TypeOK
<1>4. \/ UNCHANGED <<run_flag, error_flag>> /\ s2c' = s2c \cup {response[spin]}
      \/ run_flag' = FALSE /\ error_flag' = TRUE /\ UNCHANGED s2c
  BY DEF SubmitResponse, Fail, flags
<1>5. run_flag' \in BOOLEAN /\ error_flag' \in BOOLEAN
  BY Zenon, <1>4 DEF IInv, TypeOK
<1>6. TypeOK'
  BY <1>1, <1>2, <1>3, <1>4, <1>5 DEF IInv, TypeOK
<1>7. TaskInv'
  BY <1>1, <1>2, <1>3 DEF IInv, TypeOK, TaskInv
<1>8. Forwarding = {response[spin].id} /\ Forwarding' = {}
  BY <1>1, <1>2 DEF Forwarding
<1>9. PlaceInv'
  <2>1. CASE UNCHANGED <<run_flag, error_flag>> /\ s2c' = s2c \cup {response[spin]}
    <3> DEFINE i == response[spin].id
    <3>1. IdsOf(s2c') = IdsOf(s2c) \cup {i}
      BY <2>1, IdsAdd
    <3>2. /\ i \in Places[5] /\ Places'[5] = Places[5] \ {i}
          /\ Places'[6] = Places[6] \cup {i}
          /\ \A r \in Stages \ {5, 6} : Places'[r] = Places[r]
      BY <1>2, <1>8, <3>1, PlacesAre, PlacesAreThen, StagesAre
    <3>3. /\ Once(Places') /\ Within(Places', sent)
          /\ Complete(Places, sent) => Complete(Places', sent)
      <4>1. Shift(Places, Places', 5, 6, i)
        BY <3>2, StagesAre DEF Shift
      <4>2. Once(Places) /\ Within(Places, sent)
        BY DEF IInv, PlaceInv
      <4> QED BY <4>1, <4>2, Moved
    <3>4. i \notin IdsOf(s2c)
      <4>1. Shift(Places, Places', 5, 6, i)
        BY <3>2, StagesAre DEF Shift
      <4>2. Once(Places) /\ Within(Places, sent)
        BY DEF IInv, PlaceInv
      <4> QED BY <4>1, <4>2, Apart, PlacesAre
    <3>5. Unique(s2c')
      BY <2>1, <3>4, UniqueAdd DEF IInv, PlaceInv
    <3> QED BY <1>2, <2>1, <3>3, <3>5 DEF IInv, PlaceInv, Unique
  <2>2. CASE run_flag' = FALSE /\ error_flag' = TRUE /\ UNCHANGED s2c
    BY <1>2, <1>8, <2>2, FewerPlaces DEF IInv, peers
  <2> QED BY Zenon, <1>4, <2>1, <2>2
<1> QED BY <1>6, <1>7, <1>9 DEF IInv

-----------------------------------------------------------------------------
(* The peers *)

(* The initiator sends a request with a new id.                            *)
LEMMA ClientSendsStep ==
    ASSUME IInv, ClientSends
    PROVE  IInv'
<1> DEFINE m == [id |-> sent + 1]
<1>1. /\ UNCHANGED <<request_tasks, response_tasks, spin, request, response, completed, run_flag,
                     error_flag, phase, s2t, t2s, s2c, serving, answered>>
      /\ sent' = sent + 1 /\ c2s' = c2s \cup {m}
  BY DEF ClientSends, zvars, tasks, buffers, flags
<1>2. sent \in Nat /\ sent + 1 \in Ids /\ m \in Request /\ m.id = sent + 1
  BY PeersAssumption DEF ClientSends, IInv, TypeOK, Ids, Request
<1>3. TypeOK'
  BY <1>1, <1>2, PeersAssumption DEF IInv, TypeOK, Ids
<1>4. TaskInv'
  BY <1>1 DEF IInv, TaskInv
<1>5. IdsOf(c2s') = IdsOf(c2s) \cup {sent + 1} /\ Forwarding' = Forwarding
  BY <1>1, <1>2, IdsAdd DEF Forwarding
<1>6. /\ Places'[1] = Places[1] \cup {sent + 1}
      /\ \A r \in Stages \ {1} : Places'[r] = Places[r]
  BY <1>1, <1>5, PlacesAre, PlacesAreThen, StagesAre
<1>7. \A p \in Stages : sent + 1 \notin Places[p]
  <2>1. sent + 1 \notin 1 .. sent
    BY <1>2
  <2>2. Within(Places, sent)
    BY DEF IInv, PlaceInv
  <2> QED BY <2>1, <2>2 DEF Within
<1>8. Once(Places')
  BY <1>6, <1>7 DEF IInv, PlaceInv, Once
<1>9. Within(Places', sent + 1)
  BY <1>2, <1>6 DEF IInv, PlaceInv, Within
<1>10. Complete(Places, sent) => Complete(Places', sent + 1)
  <2> SUFFICES ASSUME Complete(Places, sent), NEW i \in 1 .. sent + 1
               PROVE  \E p \in Stages : i \in Places'[p]
    BY DEF Complete
  <2>1. CASE i = sent + 1
    BY <1>6, <2>1 DEF Stages
  <2>2. CASE i \in 1 .. sent
    BY <1>6, <2>2 DEF Complete, Stages
  <2> QED BY <1>2, <2>1, <2>2
<1>11. PlaceInv'
  BY <1>1, <1>8, <1>9, <1>10 DEF IInv, PlaceInv, Unique
<1> QED BY <1>3, <1>4, <1>11 DEF IInv

(* The target takes a request.                                             *)
LEMMA TargetTakesStep ==
    ASSUME IInv, TargetTakes
    PROVE  IInv'
<1>1. PICK m \in s2t : s2t' = s2t \ {m} /\ serving' = serving \cup {m.id}
  BY DEF TargetTakes
<1>2. UNCHANGED <<request_tasks, response_tasks, spin, request, response, completed, run_flag,
                  error_flag, phase, c2s, t2s, s2c, sent, answered>>
  BY DEF TargetTakes, zvars, tasks, buffers, flags
<1>3. m.id \in Ids
  BY DEF IInv, TypeOK, Request
<1>4. TypeOK'
  BY <1>1, <1>2, <1>3 DEF IInv, TypeOK
<1>5. TaskInv'
  BY <1>2 DEF IInv, TaskInv
<1>6. /\ IdsOf(s2t') = IdsOf(s2t) \ {m.id} /\ m.id \in IdsOf(s2t)
      /\ Forwarding' = Forwarding
  BY Zenon, <1>1, <1>2, IdsRemove, RequestsUnique DEF IInv, TypeOK, IdsOf, Forwarding
<1>7. /\ m.id \in Places[2] /\ Places'[2] = Places[2] \ {m.id}
      /\ Places'[3] = Places[3] \cup {m.id}
      /\ \A r \in Stages \ {2, 3} : Places'[r] = Places[r]
  BY <1>1, <1>2, <1>6, PlacesAre, PlacesAreThen, StagesAre
<1>8. /\ Once(Places') /\ Within(Places', sent)
      /\ Complete(Places, sent) => Complete(Places', sent)
  <2>1. Shift(Places, Places', 2, 3, m.id)
    BY <1>7, StagesAre DEF Shift
  <2>2. Once(Places) /\ Within(Places, sent)
    BY DEF IInv, PlaceInv
  <2> QED BY <2>1, <2>2, Moved
<1>9. PlaceInv'
  BY <1>2, <1>8 DEF IInv, PlaceInv, Unique
<1> QED BY <1>4, <1>5, <1>9 DEF IInv

(* The target answers a request it is serving.                             *)
LEMMA TargetAnswersStep ==
    ASSUME IInv, TargetAnswers
    PROVE  IInv'
<1>1. PICK i \in serving, r \in {"SUCCESS", "IO_FAILED"} :
        serving' = serving \ {i} /\ t2s' = t2s \cup {[id |-> i, result |-> r]}
  BY DEF TargetAnswers
<1> DEFINE m == [id |-> i, result |-> r]
<1>2. UNCHANGED <<request_tasks, response_tasks, spin, request, response, completed, run_flag,
                  error_flag, phase, c2s, s2t, s2c, sent, answered>>
  BY DEF TargetAnswers, zvars, tasks, buffers, flags
<1>3. m \in Answer /\ m.id = i
  BY DEF IInv, TypeOK, Answer
<1>4. TypeOK'
  BY <1>1, <1>2, <1>3 DEF IInv, TypeOK
<1>5. TaskInv'
  BY <1>2 DEF IInv, TaskInv
<1>6. IdsOf(t2s') = IdsOf(t2s) \cup {i} /\ Forwarding' = Forwarding
  BY <1>1, <1>2, <1>3, IdsAdd DEF Forwarding
<1>7. /\ i \in Places[3] /\ Places'[3] = Places[3] \ {i}
      /\ Places'[4] = Places[4] \cup {i}
      /\ \A p \in Stages \ {3, 4} : Places'[p] = Places[p]
  BY <1>1, <1>2, <1>6, PlacesAre, PlacesAreThen, StagesAre
<1>8. /\ Once(Places') /\ Within(Places', sent)
      /\ Complete(Places, sent) => Complete(Places', sent)
  <2>1. Shift(Places, Places', 3, 4, i)
    BY <1>7, StagesAre DEF Shift
  <2>2. Once(Places) /\ Within(Places, sent)
    BY DEF IInv, PlaceInv
  <2> QED BY <2>1, <2>2, Moved
<1>9. i \notin IdsOf(t2s)
  <2>1. Shift(Places, Places', 3, 4, i)
    BY <1>7, StagesAre DEF Shift
  <2>2. Once(Places) /\ Within(Places, sent)
    BY DEF IInv, PlaceInv
  <2> QED BY <2>1, <2>2, Apart, PlacesAre
<1>10. Unique(t2s')
  BY <1>1, <1>3, <1>9, UniqueAdd DEF IInv, PlaceInv
<1>11. PlaceInv'
  BY <1>2, <1>8, <1>10 DEF IInv, PlaceInv, Unique
<1> QED BY <1>4, <1>5, <1>11 DEF IInv

(* The initiator takes a response.                                         *)
LEMMA ClientTakesStep ==
    ASSUME IInv, ClientTakes
    PROVE  IInv'
<1>1. PICK m \in s2c : s2c' = s2c \ {m} /\ answered' = answered \cup {m.id}
  BY DEF ClientTakes
<1>2. UNCHANGED <<request_tasks, response_tasks, spin, request, response, completed, run_flag,
                  error_flag, phase, c2s, s2t, t2s, sent, serving>>
  BY DEF ClientTakes, zvars, tasks, buffers, flags
<1>3. m.id \in Ids
  BY DEF IInv, TypeOK, Answer
<1>4. TypeOK'
  BY <1>1, <1>2, <1>3 DEF IInv, TypeOK
<1>5. TaskInv'
  BY <1>2 DEF IInv, TaskInv
<1>6. /\ IdsOf(s2c') = IdsOf(s2c) \ {m.id} /\ m.id \in IdsOf(s2c)
      /\ Forwarding' = Forwarding
  BY <1>1, <1>2, IdsRemove DEF IInv, PlaceInv, IdsOf, Forwarding
<1>7. /\ m.id \in Places[6] /\ Places'[6] = Places[6] \ {m.id}
      /\ Places'[7] = Places[7] \cup {m.id}
      /\ \A r \in Stages \ {6, 7} : Places'[r] = Places[r]
  BY <1>1, <1>2, <1>6, PlacesAre, PlacesAreThen, StagesAre
<1>8. /\ Once(Places') /\ Within(Places', sent)
      /\ Complete(Places, sent) => Complete(Places', sent)
  <2>1. Shift(Places, Places', 6, 7, m.id)
    BY <1>7, StagesAre DEF Shift
  <2>2. Once(Places) /\ Within(Places, sent)
    BY DEF IInv, PlaceInv
  <2> QED BY <2>1, <2>2, Moved
<1>9. PlaceInv'
  BY <1>1, <1>2, <1>8 DEF IInv, PlaceInv, Unique
<1> QED BY <1>4, <1>5, <1>9 DEF IInv

-----------------------------------------------------------------------------
(* The start, the end and the remaining callbacks of the relay *)

(* thread_proc submits the first tasks or leaves its loop, or the main     *)
(* thread clears run_flag: no message moves.                               *)
LEMMA ControlStep ==
    ASSUME IInv, SubmitInitialTasks \/ run_data_path_ops \/ Stop, UNCHANGED peers
    PROVE  IInv'
<1>1. UNCHANGED <<spin, request, response, completed, c2s, s2t, t2s, s2c, sent, serving, answered>>
  BY DEF SubmitInitialTasks, run_data_path_ops, Stop, buffers, links, peers
<1>2. run_flag' \in BOOLEAN /\ error_flag' \in BOOLEAN /\ (error_flag => error_flag')
  BY Zenon DEF SubmitInitialTasks, run_data_path_ops, Stop, flags, Fail, IInv, TypeOK
<1>3. phase' \in {"run", "exited"}
  BY DEF SubmitInitialTasks, run_data_path_ops, Stop
<1>4. /\ request_tasks' \in [Slots -> {{}, {"receive"}, {"send"}}]
      /\ response_tasks' \in [Slots -> {{}, {"receive"}, {"send"}}]
      /\ spin # 0 => response_tasks' = response_tasks
  <2>1. CASE SubmitInitialTasks
    BY <2>1 DEF SubmitInitialTasks, IInv, TaskInv
  <2>2. CASE run_data_path_ops \/ Stop
    BY <2>2 DEF run_data_path_ops, Stop, tasks, IInv, TypeOK, TaskInv
  <2> QED BY <2>1, <2>2
<1>5. TypeOK'
  <2>1. /\ request_tasks' \in [Slots -> SUBSET {"receive", "send"}]
        /\ response_tasks' \in [Slots -> SUBSET {"receive", "send"}]
    BY <1>4
  <2> QED BY <1>1, <1>2, <1>3, <2>1 DEF IInv, TypeOK
<1>6. TaskInv'
  BY <1>1, <1>3, <1>4 DEF IInv, TaskInv
<1>7. PlaceInv'
  BY <1>1, <1>2, SamePlaces DEF IInv, Forwarding, links, peers
<1> QED BY <1>5, <1>6, <1>7 DEF IInv

(* doca_rdma_task_send_cb: the receive is posted again on the buffer.      *)
LEMMA RequestSentStep ==
    ASSUME IInv, NEW s \in Slots, doca_rdma_task_send_cb(s), UNCHANGED peers
    PROVE  IInv'
<1>1. request_tasks[s] = {"send"}
  BY DEF doca_rdma_task_send_cb, IInv, TaskInv
<1>2. PICK X \in {{}, {"receive"}} : request_tasks' = [request_tasks EXCEPT ![s] = X]
  BY <1>1 DEF doca_rdma_task_send_cb, Swap, Drop
<1>3. /\ UNCHANGED <<response_tasks, spin, response, completed, phase, c2s, t2s, s2c, s2t, peers>>
      /\ request' = [request EXCEPT ![s] = NoMessage]
      /\ UNCHANGED flags \/ Fail
  BY DEF doca_rdma_task_send_cb, links
<1> QED BY Zenon, <1>2, <1>3, RequestTaskStep

(* doca_comch_producer_task_send_cb: likewise for a response.              *)
LEMMA ResponseSentStep ==
    ASSUME IInv, NEW s \in Slots, doca_comch_producer_task_send_cb(s), UNCHANGED peers
    PROVE  IInv'
<1>1. response_tasks[s] = {"send"} /\ spin = 0
  BY DEF doca_comch_producer_task_send_cb, Polling, IInv, TaskInv
<1>2. PICK X \in {{}, {"receive"}} : response_tasks' = [response_tasks EXCEPT ![s] = X]
  BY <1>1 DEF doca_comch_producer_task_send_cb, Swap, Drop
<1>3. /\ UNCHANGED <<request_tasks, spin, request, phase, c2s, s2t, t2s, s2c, peers>>
      /\ response' = [response EXCEPT ![s] = NoMessage]
      /\ completed' = completed + 1
      /\ UNCHANGED flags \/ Fail
  BY DEF doca_comch_producer_task_send_cb, links
<1> QED BY Zenon, <1>1, <1>2, <1>3, ResponseTaskStep

(* The four error callbacks: a buffer loses its task, and a failed send    *)
(* may lose its message together with an error.                            *)
LEMMA TaskErrorStep ==
    ASSUME IInv, AnyTaskError, UNCHANGED peers
    PROVE  IInv'
<1>1. PICK s \in Slots : \/ doca_comch_consumer_task_post_recv_error_cb(s)
                         \/ doca_rdma_task_receive_error_cb(s)
                         \/ doca_rdma_task_send_error_cb(s)
                         \/ doca_comch_producer_task_send_error_cb(s)
  BY DEF AnyTaskError
<1>2. CASE doca_comch_consumer_task_post_recv_error_cb(s)
  <2>1. request_tasks' = [request_tasks EXCEPT ![s] = {}]
    BY Zenon, <1>2 DEF doca_comch_consumer_task_post_recv_error_cb, Drop, IInv, TaskInv
  <2>2. /\ UNCHANGED <<request, response_tasks, spin, response, completed, phase, c2s, t2s, s2c, s2t, peers>>
        /\ UNCHANGED flags \/ Fail
    BY <1>2 DEF doca_comch_consumer_task_post_recv_error_cb, ReceiveError, buffers, links
  <2> QED BY Zenon, <2>1, <2>2, RequestTaskStep
<1>3. CASE doca_rdma_task_receive_error_cb(s)
  <2>1. response_tasks' = [response_tasks EXCEPT ![s] = {}] /\ spin = 0
    BY Zenon, <1>3 DEF doca_rdma_task_receive_error_cb, Drop, IInv, TaskInv
  <2>2. /\ UNCHANGED <<request_tasks, spin, request, response, completed, phase, c2s, s2t, t2s, s2c, peers>>
        /\ UNCHANGED flags \/ Fail
    BY <1>3 DEF doca_rdma_task_receive_error_cb, ReceiveError, buffers, links
  <2> QED BY Zenon, <2>1, <2>2, ResponseTaskStep
<1>4. CASE doca_rdma_task_send_error_cb(s)
  <2>1. request_tasks' = [request_tasks EXCEPT ![s] = {}]
    BY Zenon, <1>4 DEF doca_rdma_task_send_error_cb, Drop, IInv, TaskInv
  <2>2. /\ UNCHANGED <<request, response_tasks, spin, response, completed, phase, c2s, t2s, s2c, peers>>
        /\ s2t' \subseteq s2t /\ Fail
    BY <1>4 DEF doca_rdma_task_send_error_cb, buffers
  <2>3. error_flag'
    BY <2>2 DEF Fail
  <2> QED BY Zenon, <2>1, <2>2, <2>3, RequestTaskStep
<1>5. CASE doca_comch_producer_task_send_error_cb(s)
  <2>1. response_tasks' = [response_tasks EXCEPT ![s] = {}] /\ spin = 0
    BY Zenon, <1>5 DEF doca_comch_producer_task_send_error_cb, Polling, Drop, IInv, TaskInv
  <2>2. /\ UNCHANGED <<request_tasks, spin, request, response, completed, phase, c2s, s2t, t2s, peers>>
        /\ s2c' \subseteq s2c /\ Fail
    BY <1>5 DEF doca_comch_producer_task_send_error_cb, buffers
  <2>3. error_flag'
    BY <2>2 DEF Fail
  <2> QED BY Zenon, <2>1, <2>2, <2>3, ResponseTaskStep
<1> QED BY <1>1, <1>2, <1>3, <1>4, <1>5

(* A step that changes nothing.                                            *)
LEMMA StutterStep ==
    ASSUME IInv, UNCHANGED vars
    PROVE  IInv'
<1>1. UNCHANGED <<request_tasks, response_tasks, spin, request, response, completed, run_flag,
                  error_flag, phase, c2s, s2t, t2s, s2c, sent, serving, answered>>
  BY DEF vars, zvars, tasks, buffers, flags, links, peers
<1>2. TypeOK'
  BY <1>1 DEF IInv, TypeOK
<1>3. TaskInv'
  BY <1>1 DEF IInv, TaskInv
<1>4. Places' = Places
  BY <1>1 DEF Places, IdsOf, Forwarding
<1>5. PlaceInv'
  BY <1>1, <1>4 DEF IInv, PlaceInv, Unique
<1> QED BY <1>2, <1>3, <1>5 DEF IInv

(* Every step of the relay and of its peers keeps the invariant.           *)
LEMMA NextInv == IInv /\ [ZNext]_vars => IInv'
<1> SUFFICES ASSUME IInv, [ZNext]_vars PROVE IInv'
  OBVIOUS
<1>1. CASE RelayStep
  <2>1. UNCHANGED peers
    BY <1>1 DEF RelayStep
  <2>2. CASE SubmitInitialTasks \/ run_data_path_ops \/ Stop
    BY <2>1, <2>2, ControlStep
  <2>3. CASE ReceiveRequest
    BY <2>1, <2>3, ReceiveRequestStep DEF ReceiveRequest
  <2>4. CASE RequestSent
    BY <2>1, <2>4, RequestSentStep DEF RequestSent
  <2>5. CASE ReceiveResponse
    BY <2>1, <2>5, ReceiveResponseStep DEF ReceiveResponse
  <2>6. CASE SubmitResponse
    BY <2>1, <2>6, SubmitResponseStep
  <2>7. CASE ResponseSent
    BY <2>1, <2>7, ResponseSentStep DEF ResponseSent
  <2>8. CASE AnyTaskError
    BY <2>1, <2>8, TaskErrorStep
  <2> QED BY <1>1, <2>2, <2>3, <2>4, <2>5, <2>6, <2>7, <2>8 DEF RelayStep, Next
<1>2. CASE ClientSends
  BY <1>2, ClientSendsStep
<1>3. CASE ClientTakes
  BY <1>3, ClientTakesStep
<1>4. CASE TargetTakes
  BY <1>4, TargetTakesStep
<1>5. CASE TargetAnswers
  BY <1>5, TargetAnswersStep
<1>6. CASE Done \/ UNCHANGED vars
  BY <1>6, StutterStep DEF Done
<1> QED BY <1>1, <1>2, <1>3, <1>4, <1>5, <1>6 DEF ZNext

(* The inductive invariant holds in every behaviour of the relay.          *)
LEMMA Invariance == Spec => []IInv
BY InitInv, NextInv, PTL DEF Spec

-----------------------------------------------------------------------------
(* Theorems *)

(* The state of the relay is well typed; in particular what it submits to  *)
(* the initiator is a response.                                            *)
THEOREM TypeCorrect == Spec => []TypeOK
<1>1. IInv => TypeOK
  BY DEF IInv
<1> QED BY <1>1, Invariance, PTL

(* The receive and the send task that share a buffer are never both        *)
(* submitted, whichever submissions and tasks fail.                        *)
THEOREM TasksExclusive == Spec => []OneTaskPerBuffer
<1>1. IInv => OneTaskPerBuffer
  <2> SUFFICES ASSUME IInv, NEW s \in Slots
               PROVE  Cardinality(request_tasks[s]) <= 1 /\ Cardinality(response_tasks[s]) <= 1
    BY DEF OneTaskPerBuffer
  <2>1. Cardinality({}) = 0 /\ Cardinality({"receive"}) = 1 /\ Cardinality({"send"}) = 1
    BY Zenon, FS_EmptySet, FS_Singleton
  <2>2. \A X \in {{}, {"receive"}, {"send"}} : Cardinality(X) \in {0, 1}
    BY <2>1, Zenon
  <2>3. Cardinality(request_tasks[s]) \in {0, 1} /\ Cardinality(response_tasks[s]) \in {0, 1}
    BY <2>2, Zenon DEF IInv, TaskInv
  <2>4. \A n \in {0, 1} : n <= 1
    OBVIOUS
  <2> QED BY <2>3, <2>4, Zenon
<1> QED BY <1>1, Invariance, PTL

(* The relay neither duplicates a request or its answer, nor loses one     *)
(* without recording an error, for any number of slots and requests.       *)
THEOREM RequestsConserved == Spec => []Conserved
<1>1. IInv => Conserved
  BY PlacesAre DEF IInv, PlaceInv, Once, Complete, Conserved
<1> QED BY <1>1, Invariance, PTL
=============================================================================
