--------------------------- MODULE StorageControl ---------------------------
(***************************************************************************)
(* The control sessions of the storage applications.  The initiator        *)
(* (initiator_comch) asks the relay to query, initialise, start, stop and  *)
(* shut down the storage; the relay forwards every request to one target   *)
(* (comch_to_rdma_zero_copy) or to three (comch_to_rdma_gga_offload) and   *)
(* connects its workers to theirs during the initialisation; each target   *)
(* is a target_rdma process.  No process checks what another has reached:  *)
(* relay and target go through their phases by the number of messages they *)
(* have handled, and answers are found by message id only, whichever       *)
(* channel they came from.                                                 *)
(*                                                                         *)
(* The comch channel between initiator and relay carries messages and the  *)
(* events of remote consumers in one order; the TCP channels to the targets*)
(* carry messages.  Correlation ids are copied and never read: left out.   *)
(***************************************************************************)
EXTENDS Integers, Sequences, SequencesExt

CONSTANTS
    Fanouts,        \* the numbers of storages of the relay programs: {1, 3}
    Cores,          \* workers of the initiator, hence of relay and target
    MaxFaults       \* refusals, failing calls, slow answers and aborts

ASSUME StorageControlAssumption ==
    /\ Fanouts \subseteq Nat \ {0} /\ Fanouts # {}
    /\ Cores \in Nat \ {0} /\ MaxFaults \in Nat

AllStorages == 1 .. (CHOOSE n \in Fanouts : \A m \in Fanouts : m <= n)

VARIABLES
    ini,            \* initiator_comch_app
    rel,            \* zero_copy_app or gga_offload_app
    tgt,            \* a target_rdma_app for each storage
    c2r, r2c,       \* the comch connection: initiator to relay and back
    r2s, s2r,       \* the TCP connection of each storage
    faults

vars == <<ini, rel, tgt, c2r, r2c, r2s, s2r, faults>>

Storages == 1 .. rel.fanout

Req(k, id) == [kind |-> k, is |-> "request", id |-> id]
Ok(k, id) == [kind |-> k, is |-> "response", id |-> id]
Err(id) == [kind |-> "error", is |-> "response", id |-> id]
NewConsumer == [kind |-> "new", is |-> "event", id |-> 0]
Expired == [kind |-> "expired", is |-> "event", id |-> 0]

Copies(e, n) == [i \in 1 .. n |-> e]

After(phase) ==
    CASE phase = "query" -> "init"
      [] phase = "init" -> "start"
      [] phase = "start" -> "stop"
      [] phase = "stop" -> "shutdown"
      [] phase = "shutdown" -> "end"

Init ==
    /\ ini = [pc |-> "connect", sent |-> FALSE, id |-> 0, box |-> <<>>,
              cap |-> FALSE, ids |-> 0, unseen |-> 0]
    /\ \E n \in Fanouts :
         rel = [fanout |-> n, pc |-> "storage", at |-> "query", conn |-> FALSE,
                box |-> <<>>, req |-> 0, first |-> 0, id |-> 0, rdma |-> 0,
                cap |-> FALSE, ids |-> 0, unseen |-> 0, workers |-> "none",
                abort |-> FALSE, ok |-> {}]
    /\ tgt = [s \in AllStorages |->
                [pc |-> "wait", at |-> "query", rdma |-> 0, workers |-> "none",
                 abort |-> FALSE, ok |-> {}]]
    /\ c2r = <<>> /\ r2c = <<>>
    /\ r2s = [s \in AllStorages |-> <<>>]
    /\ s2r = [s \in AllStorages |-> <<>>]
    /\ faults = 0

Fault == faults < MaxFaults /\ faults' = faults + 1
NoFault == UNCHANGED faults
MayFault(cond) == IF cond THEN Fault ELSE NoFault

Ended(p) == p.pc \in {"done", "failed", "crashed"}

(* new_comch_consumer_callback and expired_comch_consumer_callback: a      *)
(* consumer announced before the ids were reserved is dropped.             *)
Noted(p, e) ==
    CASE e.kind = "new" -> IF p.cap THEN [p EXCEPT !.ids = @ + 1] ELSE p
      [] e.kind = "expired" -> IF p.ids > 0 THEN [p EXCEPT !.ids = @ - 1] ELSE p

-----------------------------------------------------------------------------
(* The initiator: main runs connect, query, init, prepare_threads, start,  *)
(* run, join_threads, stop and shutdown; any exception ends it.            *)

IniConnect ==
    /\ ini.pc = "connect" /\ rel.pc \notin {"storage"} /\ ~Ended(rel)
    /\ ini' = [ini EXCEPT !.pc = "query"]
    /\ UNCHANGED <<rel, tgt, c2r, r2c, r2s, s2r, faults>>

(* A request is sent under a fresh id.  Before it asks for the shutdown    *)
(* the initiator destroys its own consumers, whose expiry the relay may    *)
(* see later than the request.                                             *)
IniSend ==
    /\ ini.pc \in {"query", "init", "start", "stop", "shutdown"} /\ ~ini.sent
    /\ LET gone == IF ini.pc = "shutdown" THEN Copies(Expired, Cores - ini.unseen)
                   ELSE <<>>
           req == <<Req(ini.pc, ini.id)>>
       IN \E late \in BOOLEAN :
            /\ late => gone # <<>>
            /\ MayFault(late)
            /\ c2r' = c2r \o (IF late THEN req \o gone ELSE gone \o req)
    /\ ini' = [ini EXCEPT !.sent = TRUE, !.cap = @ \/ ini.pc = "init",
                          !.unseen = IF ini.pc = "shutdown" THEN 0 ELSE @]
    /\ UNCHANGED <<rel, tgt, r2c, r2s, s2r>>

(* What follows a good answer.  The objects of the workers are created     *)
(* after the answer to init, and their consumers announce themselves.      *)
IniAnswered(i) ==
    LET n == [i EXCEPT !.sent = FALSE, !.id = @ + 1] IN
    CASE i.pc = "query" -> [n EXCEPT !.pc = "init"]
      [] i.pc = "init" -> [n EXCEPT !.pc = "ready", !.unseen = Cores]
      [] i.pc = "start" -> [n EXCEPT !.pc = "run"]
      [] i.pc = "stop" -> [n EXCEPT !.pc = "shutdown"]
      [] i.pc = "shutdown" -> [n EXCEPT !.pc = "expire"]

(* wait_for_control_response: the first message under the request's id is  *)
(* the answer; an error or an answer of another type is thrown.            *)
IniReceive ==
    /\ ini.sent /\ r2c # <<>>
    /\ r2c' = Tail(r2c)
    /\ LET m == Head(r2c)
           box == Append(ini.box, m)
           mine == {k \in DOMAIN box : box[k].id = ini.id}
       IN ini' = IF m.is = "event" THEN Noted(ini, m)
                 ELSE IF mine = {} THEN [ini EXCEPT !.box = box]
                 ELSE LET k == CHOOSE j \in mine : \A l \in mine : j <= l
                          i == [ini EXCEPT !.box = RemoveAt(box, k)]
                      IN IF box[k] = Ok(ini.pc, ini.id) THEN IniAnswered(i)
                         ELSE [i EXCEPT !.pc = "failed", !.sent = FALSE]
    /\ UNCHANGED <<rel, tgt, c2r, r2s, s2r, faults>>

(* init_storage waits for its own contexts and for one remote consumer per *)
(* worker; any message is an error.  prepare_threads follows.              *)
IniReady ==
    /\ ini.pc = "ready" /\ ini.ids = Cores
    /\ ini' = [ini EXCEPT !.pc = "start"]
    /\ UNCHANGED <<rel, tgt, c2r, r2c, r2s, s2r, faults>>

IniPollReady ==
    /\ ini.pc = "ready" /\ r2c # <<>>
    /\ r2c' = Tail(r2c)
    /\ ini' = IF Head(r2c).is = "event" THEN Noted(ini, Head(r2c))
              ELSE [ini EXCEPT !.pc = "failed"]
    /\ UNCHANGED <<rel, tgt, c2r, r2s, s2r, faults>>

(* run and join_threads: the workers end when all their transactions have  *)
(* been answered, which takes the whole data path.                         *)
IniRun ==
    /\ ini.pc = "run"
    /\ rel.workers = "hot" /\ ~Ended(rel)
    /\ \A s \in Storages : tgt[s].workers = "hot" /\ ~Ended(tgt[s])
    /\ ini' = [ini EXCEPT !.pc = "stop"]
    /\ UNCHANGED <<rel, tgt, c2r, r2c, r2s, s2r, faults>>

(* The end of shutdown: poll until the last remote consumer has expired;   *)
(* messages are ignored.                                                   *)
IniExpire ==
    /\ ini.pc = "expire"
    /\ \/ /\ ini.ids = 0
          /\ ini' = [ini EXCEPT !.pc = "done"]
          /\ UNCHANGED r2c
       \/ /\ ini.ids > 0 /\ r2c # <<>>
          /\ r2c' = Tail(r2c)
          /\ ini' = IF Head(r2c).is = "event" THEN Noted(ini, Head(r2c)) ELSE ini
    /\ UNCHANGED <<rel, tgt, c2r, r2s, s2r, faults>>

(* The wait for the connection, for an answer or for the remote consumers  *)
(* expires: because the other side is slow, or because it is gone.         *)
RelGone == Ended(rel) /\ r2c = <<>>

IniTimeout ==
    /\ ini.pc = "connect" \/ ini.sent \/ ini.pc = "ready"
    /\ MayFault(~RelGone)
    /\ ini' = [ini EXCEPT !.pc = "failed", !.sent = FALSE]
    /\ UNCHANGED <<rel, tgt, c2r, r2c, r2s, s2r>>

(* A consumer of the initiator or of the relay becomes known to the other  *)
(* side once the library has connected it.                                 *)
Announce ==
    \/ /\ ini.unseen > 0 /\ ~Ended(ini)
       /\ ini' = [ini EXCEPT !.unseen = @ - 1]
       /\ c2r' = Append(c2r, NewConsumer)
       /\ UNCHANGED <<rel, r2c>>
    \/ /\ rel.unseen > 0 /\ ~Ended(rel)
       /\ rel' = [rel EXCEPT !.unseen = @ - 1]
       /\ r2c' = Append(r2c, NewConsumer)
       /\ UNCHANGED <<ini, c2r>>
    /\ UNCHANGED <<tgt, r2s, s2r, faults>>

-----------------------------------------------------------------------------
(* The relay. *)

(* connect_to_storage, then wait_for_comch_client_connection. *)
RelConnect ==
    /\ \/ /\ rel.pc = "storage" /\ \A s \in Storages : ~Ended(tgt[s])
          /\ rel' = [rel EXCEPT !.pc = "client"]
       \/ /\ rel.pc = "client" /\ ini.pc # "connect"
          /\ rel' = [rel EXCEPT !.pc = "wait", !.conn = TRUE]
    /\ UNCHANGED <<ini, tgt, c2r, r2c, r2s, s2r, faults>>

(* send_message to the initiator ends the handler, and with it the phase,  *)
(* whatever the answer.  Once the initiator is known to be gone the send   *)
(* throws, and so does the error response sent from the catch block.       *)
RelReply(r, events, m) ==
    IF r.conn
    THEN /\ rel' = [r EXCEPT !.at = After(@), !.rdma = 0,
                             !.pc = IF r.at = "shutdown" THEN "done" ELSE "wait"]
         /\ r2c' = r2c \o events \o <<m>>
    ELSE /\ rel' = [r EXCEPT !.pc = "failed"]
         /\ UNCHANGED r2c

RelRefuse(r) == RelReply(r, <<>>, Err(r.req))
RelAgree(r, events) ==
    RelReply([r EXCEPT !.ok = @ \cup {r.at}], events, Ok(r.at, r.req))

(* The request is sent to every storage, each under an id of its own.  The *)
(* write to a target that is gone is lost or throws.                       *)
RelForward(r, kind) ==
    \/ /\ rel' = [r EXCEPT !.pc = "await", !.first = r.id, !.id = @ + r.fanout]
       /\ r2s' = [s \in AllStorages |->
                    IF s \in Storages THEN Append(r2s[s], Req(kind, r.id + s - 1))
                    ELSE r2s[s]]
       /\ UNCHANGED r2c
    \/ \E s \in Storages :
         /\ Ended(tgt[s])
         /\ r2s' = [t \in AllStorages |->
                      IF t < s THEN Append(r2s[t], Req(kind, r.id + t - 1))
                      ELSE r2s[t]]
         /\ RelRefuse([r EXCEPT !.id = @ + s])

(* One poll of the initiator's channel: the events in front of a message   *)
(* run their callbacks.                                                    *)
RelPollClient ==
    /\ \/ rel.pc = "wait" /\ rel.box = <<>>
       \/ rel.pc = "await"
    /\ c2r # <<>>
    /\ c2r' = Tail(c2r)
    /\ rel' = IF Head(c2r).is = "event" THEN Noted(rel, Head(c2r))
              ELSE [rel EXCEPT !.box = Append(@, Head(c2r))]
    /\ UNCHANGED <<ini, tgt, r2c, r2s, s2r, faults>>

RelPollStorage(s) ==
    /\ \/ rel.pc = "wait" /\ rel.box = <<>>
       \/ rel.pc = "await"
    /\ s2r[s] # <<>>
    /\ s2r' = [s2r EXCEPT ![s] = Tail(@)]
    /\ rel' = [rel EXCEPT !.box = Append(@, Head(s2r[s]))]
    /\ UNCHANGED <<ini, tgt, c2r, r2c, r2s, faults>>

(* event_connection_disconnected_cb, once what was sent has been read. *)
RelDisconnect ==
    /\ rel.conn /\ Ended(ini) /\ c2r = <<>>
    /\ rel.pc \in {"wait", "await", "ready"}
    /\ rel' = [rel EXCEPT !.conn = FALSE]
    /\ UNCHANGED <<ini, tgt, c2r, r2c, r2s, s2r, faults>>

(* process_init_storage refuses a request for too many cores, or when a    *)
(* memory map fails; the ids of remote consumers are reserved before       *)
(* anything is forwarded.                                                  *)
RelInit(r) ==
    \/ Fault /\ RelRefuse(r) /\ UNCHANGED r2s
    \/ NoFault /\ RelForward([r EXCEPT !.cap = TRUE], "init")

(* wait_for_and_process_*: the oldest message is the request. *)
RelHandle ==
    /\ rel.pc = "wait" /\ rel.box # <<>>
    /\ LET m == Head(rel.box)
           r == [rel EXCEPT !.box = Tail(@), !.req = m.id]
       IN IF m.kind # rel.at \/ m.is # "request"
          THEN RelRefuse(r) /\ UNCHANGED <<r2s, faults>>
          ELSE CASE rel.at = "shutdown" ->
                      /\ rel' = [r EXCEPT !.pc = "expire"]
                      /\ UNCHANGED <<r2c, r2s, faults>>
                 [] rel.at = "init" -> RelInit(r)
                 [] OTHER -> RelForward(r, rel.at) /\ NoFault
    /\ UNCHANGED <<ini, tgt, c2r, s2r>>

(* process_shutdown first waits for the initiator's consumers to expire.   *)
(* A poll that yields no message is dereferenced all the same.             *)
RelExpire ==
    /\ rel.pc = "expire"
    /\ \/ /\ rel.ids = 0
          /\ RelForward(rel, "shutdown")
          /\ UNCHANGED c2r
       \/ /\ rel.ids > 0
          /\ IF c2r # <<>> /\ Head(c2r).is = "request"
             THEN UNCHANGED rel ELSE rel' = [rel EXCEPT !.pc = "crashed"]
          /\ c2r' = IF c2r = <<>> THEN c2r ELSE Tail(c2r)
          /\ UNCHANGED <<r2c, r2s>>
    /\ UNCHANGED <<ini, tgt, s2r, faults>>

RelConnectRdma_data(r, left) == \* mutant: only the data connection is made
    IF left % 2 = 1 \/ left = 0 THEN RelAgree(r, <<>>) /\ UNCHANGED r2s
    ELSE RelForward([r EXCEPT !.rdma = left, !.workers = "idle", !.unseen = @ + 1],
                    "rdma")

(* prepare_thread_contexts and connect_rdma: each worker is created and    *)
(* connected twice, for data and for control, before the next one.         *)
RelConnectRdma(r, left) ==
    IF left = 0 THEN RelAgree(r, <<>>) /\ UNCHANGED r2s
    ELSE RelForward([r EXCEPT !.rdma = left, !.workers = "idle",
                              !.unseen = @ + (IF left % 2 = 0 THEN 1 ELSE 0)],
                    "rdma")

RelStop_keep(r) ==              \* mutant: the consumers are kept until the end
    /\ NoFault
    /\ RelReply([r EXCEPT !.workers = "joined", !.ok = @ \cup {"stop"}], <<>>,
                Ok("stop", r.req))

(* destroy_comch_objects follows the join, so the consumers expire before  *)
(* the answer is sent; the initiator may see it later.                     *)
RelStop(r) ==
    \E late \in BOOLEAN :
      LET gone == Copies(Expired, Cores - r.unseen)
          stopped == [r EXCEPT !.workers = "joined", !.unseen = 0,
                               !.ok = @ \cup {"stop"}]
      IN /\ MayFault(late)
         /\ IF late /\ r.conn
            THEN /\ rel' = [stopped EXCEPT !.at = "shutdown", !.pc = "wait"]
                 /\ r2c' = r2c \o <<Ok("stop", r.req)>> \o gone
            ELSE RelReply(stopped, gone, Ok("stop", r.req))

Awaited_first == {rel.first}    \* mutant: one answer is waited for

Awaited == rel.first .. rel.first + rel.fanout - 1
Expected == IF rel.rdma > 0 THEN "rdma" ELSE rel.at
Found_any(id) == Ok(Expected, id)   \* mutant: an answer is taken for a good one
Found(id) == CHOOSE m \in ToSet(rel.box) : m.id = id
Without(box, ids) == SelectSeq(box, LAMBDA m : m.id \notin ids)

(* process_query_storage compares the capacities and block sizes of the    *)
(* storages, and returns at the first that disagrees without discarding    *)
(* the answers behind it.                                                  *)
RelQueried(r) ==
    \/ NoFault /\ RelAgree(r, <<>>)
    \/ /\ Fault
       /\ \E k \in 2 .. rel.fanout :
            RelRefuse([r EXCEPT
                !.box = Without(rel.box, rel.first .. rel.first + k - 1)])

(* wait_for_responses (gga_offload) or wait_for_control_message with an id *)
(* (zero_copy) has a message for every id; then process_* goes on.  After  *)
(* a bad answer the others are discarded.                                  *)
RelAnswered ==
    /\ rel.pc = "await"
    /\ \A id \in Awaited : \E m \in ToSet(rel.box) : m.id = id
    /\ LET r == [rel EXCEPT !.box = Without(@, Awaited)]
       IN IF \E id \in Awaited : Found(id) # Ok(Expected, id)
          THEN RelRefuse(r) /\ UNCHANGED <<r2s, faults>>
          ELSE \/ /\ Expected = "query"
                  /\ RelQueried(r) /\ UNCHANGED r2s
               \/ /\ Expected = "init" /\ NoFault
                  /\ RelConnectRdma(r, 2 * Cores)
               \/ /\ Expected = "rdma" /\ NoFault
                  /\ RelConnectRdma(r, rel.rdma - 1)
               \/ /\ Expected \in {"init", "rdma"} /\ Fault
                  /\ RelRefuse(r) /\ UNCHANGED r2s
               \/ /\ Expected = "start" /\ NoFault
                  /\ rel' = [r EXCEPT !.pc = "ready"]
                  /\ UNCHANGED <<r2c, r2s>>
               \/ /\ Expected = "stop"
                  /\ RelStop(r) /\ UNCHANGED r2s
               \/ /\ Expected = "shutdown" /\ NoFault
                  /\ RelAgree([r EXCEPT !.workers = "none"], <<>>)
                  /\ UNCHANGED r2s
    /\ UNCHANGED <<ini, tgt, c2r, s2r>>

RelReady_early ==               \* mutant: the data path is left to start later
    /\ rel.pc = "ready"
    /\ RelAgree(rel, <<>>)
    /\ UNCHANGED <<ini, tgt, c2r, r2s, s2r, faults>>

(* verify_connections_are_ready, then the tasks are prepared and the data  *)
(* path is started.  The initiator's channel is polled only while one of   *)
(* its consumers is missing, and then a message is an error.               *)
RelReady ==
    /\ rel.pc = "ready"
    /\ \/ /\ rel.ids # Cores /\ c2r # <<>> /\ NoFault
          /\ c2r' = Tail(c2r)
          /\ IF Head(c2r).is = "event"
             THEN rel' = Noted(rel, Head(c2r)) /\ UNCHANGED r2c
             ELSE RelRefuse(rel)
       \/ /\ rel.ids = Cores /\ NoFault
          /\ RelAgree([rel EXCEPT !.workers = "hot"], <<>>)
          /\ UNCHANGED c2r
       \/ /\ Fault
          /\ RelRefuse(rel)
          /\ UNCHANGED c2r
    /\ UNCHANGED <<ini, tgt, r2s, s2r>>

(* The wait for the storages expires; an answer that comes later stays.    *)
NoAnswer == \E s \in Storages :
    /\ Ended(tgt[s]) /\ s2r[s] = <<>>
    /\ \A m \in ToSet(rel.box) : m.id # rel.first + s - 1

RelTimeout ==
    /\ rel.pc = "await"
    /\ MayFault(~NoAnswer)
    /\ RelRefuse(rel)
    /\ UNCHANGED <<ini, tgt, c2r, r2s, s2r>>

(* Ctrl-C sets the flag; every wait but process_shutdown's looks at it.    *)
RelAbort ==
    /\ ~Ended(rel) /\ ~rel.abort /\ Fault
    /\ rel' = [rel EXCEPT !.abort = TRUE]
    /\ UNCHANGED <<ini, tgt, c2r, r2c, r2s, s2r>>

(* The abort, or a read from the connection of a target that is gone,      *)
(* throws: out of main between two requests, out of the handler within one.*)
RelThrow ==
    /\ \/ rel.abort
       \/ rel.pc \in {"wait", "await"} /\ \E s \in Storages : tgt[s].pc = "failed"
    /\ \/ /\ rel.pc \in {"storage", "client"} \/ (rel.pc = "wait" /\ rel.box = <<>>)
          /\ rel' = [rel EXCEPT !.pc = "failed"]
          /\ UNCHANGED r2c
       \/ /\ rel.pc \in {"await", "ready"}
          /\ RelRefuse(rel)
    /\ UNCHANGED <<ini, tgt, c2r, r2s, s2r, faults>>

-----------------------------------------------------------------------------
(* A target. *)

(* The answer ends the phase.  There are as many rounds of rdma as the     *)
(* accepted core count asks for, good or bad; none without one.            *)
TgtNext(t) ==
    CASE t.at = "init" -> IF t.rdma = 0 THEN "start" ELSE "rdma"
      [] t.at = "rdma" -> IF t.rdma = 0 THEN "start" ELSE "rdma"
      [] OTHER -> After(t.at)

TgtReply(s, t, m) ==
    \/ /\ tgt' = [tgt EXCEPT ![s] = [t EXCEPT !.at = TgtNext(t),
                     !.pc = IF t.at = "shutdown" THEN "done" ELSE "wait"]]
       /\ s2r' = [s2r EXCEPT ![s] = Append(@, m)]
    \/ /\ Ended(rel)
       /\ tgt' = [tgt EXCEPT ![s].pc = "failed"]
       /\ UNCHANGED s2r

(* What handling the expected request leaves behind when it succeeds. *)
TgtDone(t) ==
    CASE t.at = "query" -> t
      [] t.at = "init" -> [t EXCEPT !.rdma = 2 * Cores, !.workers = "idle"]
      [] t.at = "rdma" -> [t EXCEPT !.rdma = @ - 1]
      [] t.at = "start" -> [t EXCEPT !.workers = "hot"]
      [] t.at = "stop" -> [t EXCEPT !.workers = "joined"]
      [] t.at = "shutdown" -> [t EXCEPT !.workers = "none"]

(* ... and when it throws: a core count beyond the target's own is refused *)
(* before it is stored, a failing memory map or worker after that.         *)
TgtFailed(t) ==
    CASE t.at = "init" -> {t, [t EXCEPT !.rdma = 2 * Cores], TgtDone(t)}
      [] t.at = "rdma" -> {[t EXCEPT !.rdma = @ - 1]}
      [] t.at = "start" -> {t, [t EXCEPT !.workers = "hot"]}
      [] OTHER -> {}

(* wait_for_and_process_*, the wait for RDMA connections included. *)
TgtHandle(s) ==
    LET t == tgt[s] m == Head(r2s[s]) IN
    /\ t.pc = "wait" /\ ~t.abort /\ r2s[s] # <<>>
    /\ r2s' = [r2s EXCEPT ![s] = Tail(@)]
    /\ IF m.kind = t.at
       THEN \/ /\ TgtReply(s, [TgtDone(t) EXCEPT !.ok = @ \cup {t.at}],
                           Ok(m.kind, m.id))
               /\ NoFault
            \/ /\ \E u \in TgtFailed(t) : TgtReply(s, u, Err(m.id))
               /\ Fault
       ELSE /\ TgtReply(s, [t EXCEPT !.rdma = IF t.at = "rdma" THEN @ - 1 ELSE @],
                        Err(m.id))
            /\ NoFault
    /\ UNCHANGED <<ini, rel, c2r, r2c>>

TgtAbort(s) ==
    /\ tgt[s].pc = "wait" /\ ~tgt[s].abort /\ Fault
    /\ tgt' = [tgt EXCEPT ![s].abort = TRUE]
    /\ UNCHANGED <<ini, rel, c2r, r2c, r2s, s2r>>

(* The wait for a message throws: aborted, or the relay's end is reset.    *)
TgtThrow(s) ==
    /\ tgt[s].pc = "wait"
    /\ \/ tgt[s].abort /\ rel.pc # "storage"
       \/ rel.pc \in {"failed", "crashed"}
    /\ tgt' = [tgt EXCEPT ![s].pc = "failed"]
    /\ UNCHANGED <<ini, rel, c2r, r2c, r2s, s2r, faults>>

-----------------------------------------------------------------------------
Initiator == \/ IniConnect \/ IniSend \/ IniReceive \/ IniReady \/ IniPollReady
             \/ IniRun \/ IniExpire
Relay == \/ RelConnect \/ RelPollClient \/ RelHandle \/ RelExpire
         \/ RelAnswered \/ RelReady
         \/ \E s \in Storages : RelPollStorage(s)

Next ==
    \/ Initiator \/ IniTimeout \/ Announce
    \/ Relay \/ RelDisconnect \/ RelTimeout \/ RelAbort \/ RelThrow
    \/ \E s \in Storages : TgtHandle(s) \/ TgtAbort(s) \/ TgtThrow(s)

(* Every process keeps polling and the library keeps connecting; time      *)
(* passes, so the wait for a process that is gone expires.                 *)
Fairness ==
    /\ WF_vars(Initiator /\ faults' = faults) /\ WF_vars(Announce)
    /\ WF_vars(IniTimeout /\ RelGone)
    /\ WF_vars(Relay /\ faults' = faults)
    /\ WF_vars(RelTimeout /\ NoAnswer)
    /\ \A s \in AllStorages : WF_vars(s \in Storages /\ TgtHandle(s) /\ faults' = faults)

Spec == Init /\ [][Next]_vars /\ Fairness

-----------------------------------------------------------------------------
(* process_create_rdma_connection, process_start_storage and the handlers  *)
(* that follow index m_workers without a check.  Neither relay nor target  *)
(* remembers that an earlier request failed, yet none of them ever handles *)
(* such a request without workers, because the initiator gives up at the   *)
(* first error or timeout.                                                 *)
WorkersExist ==
    /\ \A s \in Storages :
         /\ tgt[s].pc = "wait" /\ r2s[s] # <<>> /\ Head(r2s[s]).kind = tgt[s].at
         /\ tgt[s].at \in {"rdma", "start", "stop", "shutdown"}
         => tgt[s].workers # "none"
    /\ /\ rel.pc = "wait" /\ rel.box # <<>> /\ Head(rel.box).is = "request"
       /\ Head(rel.box).kind = rel.at /\ rel.at \in {"start", "stop", "shutdown"}
       => rel.workers # "none"

(* The phases whose good answer the initiator has received. *)
Passed ==
    CASE ini.pc = "init" -> {"query"}
      [] ini.pc \in {"ready", "start"} -> {"query", "init"}
      [] ini.pc = "run" -> {"query", "init", "start"}
      [] ini.pc = "stop" -> {"query", "init", "start"}
      [] ini.pc = "shutdown" -> {"query", "init", "start", "stop"}
      [] ini.pc \in {"expire", "done"} -> {"query", "init", "start", "stop", "shutdown"}
      [] OTHER -> {}

(* A request the initiator saw succeed has succeeded in the relay and in   *)
(* every storage: no late, stale or foreign message under the same id is   *)
(* ever taken for the answer, although ids are matched across channels.    *)
Committed ==
    /\ Passed \subseteq rel.ok
    /\ \A s \in Storages : Passed \subseteq tgt[s].ok

Aborted == rel.abort \/ \E s \in Storages : tgt[s].abort

(* While the initiator's workers run, the data paths of the relay and of   *)
(* every target run too, unless one was aborted by its user: none is       *)
(* started late and none is joined early.                                  *)
DataPathUp ==
    ini.pc = "run" /\ ~Aborted =>
        rel.workers = "hot" /\ \A s \in Storages : tgt[s].workers = "hot"

(* If nothing fails, is late or is aborted, every process ends its session *)
(* in good order.                                                          *)
SessionCompletes ==
    <>(\/ faults > 0
       \/ /\ ini.pc = "done" /\ rel.pc = "done"
          /\ \A s \in Storages : tgt[s].pc = "done")

(* Whatever is refused, fails or is late, the initiator ends; only an      *)
(* abort of another process can leave it waiting, in run.                  *)
InitiatorEnds == <>(Ended(ini) \/ Aborted)

=============================================================================
