----------------------------- MODULE VblkQueues -----------------------------
(***************************************************************************)
(* The virtqueues of the virtio-blk emulator process and the threads that  *)
(* move them through their life (applications/vblk_pci_dev/                *)
(* vblk_ctrl_lu.c).  One IO context thread also runs the offload engine    *)
(* (OE): it creates and destroys queues and applies the host's state       *)
(* updates.  Every IO context thread binds and unbinds the queues assigned *)
(* to it.  In the destination of a live update the main thread starts the  *)
(* queues as well.                                                         *)
(*                                                                         *)
(* The threads take no lock.  A state change (vblk_vq_set_state) reads the *)
(* old state, updates the work counters, and then stores the new state, so *)
(* it is two steps here: SetState and Store.  A thread looks at the queues *)
(* only while its counter is not zero (vblk_poll_skip).                    *)
(***************************************************************************)
EXTENDS Integers, FiniteSets

CONSTANTS
    NumQueues,      \* ctrl->num_queues
    NumIoCtx,       \* ctrl->num_io_ctx
    PendingMod,     \* modulus of the unsigned counters (2^32 in the code)
    BindFails,      \* whether bind and enable of a queue may fail
    CreateFails     \* whether creating or starting a queue may fail

Queues == 0 .. NumQueues - 1
Ctxs == 0 .. NumIoCtx - 1
OE == 0
Main == NumIoCtx
Threads == Ctxs \cup {Main}

ASSUME VblkQueuesAssumption ==
    /\ NumQueues \in Nat \ {0}
    /\ NumIoCtx \in Nat \ {0}
    /\ PendingMod \in Nat \ {0}
    /\ BindFails \in BOOLEAN
    /\ CreateFails \in BOOLEAN

VqStates == {"DESTROYED", "STOPPING", "UNBINDING", "STARTING", "CONFIGURED",
             "BINDING", "RUNNING"}
NoState == "none"

VARIABLES
    state,          \* vqs[q].state
    vq,             \* vqs[q].vq is not NULL
    cfg,            \* vqs[q].cfg.queue_enable
    lib,            \* what the library says of the queue
    enginePending,  \* engine_poll.pending
    ioPending,      \* io_ctxs[c].poll.pending
    pendingStart,   \* pending_queue_start
    handoverDst,    \* handover_dst
    pc,             \* where each thread is
    cur,            \* the queue each thread is at
    todo            \* the state a thread is about to store in vqs[cur].state

ctrlVars == <<state, vq, cfg, lib, enginePending, ioPending, pendingStart,
              handoverDst>>
queueVars == <<ctrlVars, pc, cur, todo>>

QueueInit ==
    /\ state = [q \in Queues |-> "DESTROYED"]
    /\ vq = [q \in Queues |-> FALSE]
    /\ cfg = [q \in Queues |-> FALSE]
    /\ lib = [q \in Queues |-> "none"]
    /\ enginePending = 0
    /\ ioPending = [c \in Ctxs |-> 0]
    /\ pendingStart = FALSE
    /\ cur = [t \in Threads |-> 0]
    /\ todo = [t \in Threads |-> NoState]

(* Queues are assigned round robin between the IO contexts. *)
IoCtxOf(q) == q % NumIoCtx

HasIntermediate == \E q \in Queues : state[q] \notin {"DESTROYED", "RUNNING"}

Goto(t, l) == pc' = [pc EXCEPT ![t] = l]
At(t, l) == pc[t] = l /\ todo[t] = NoState

Wrap(n) == n % PendingMod

-----------------------------------------------------------------------------
(* The counters a state change touches. *)
EngineDelta(old, new) ==
    CASE new = "STARTING" -> 1
      [] new = "CONFIGURED" -> -1
      [] new = "BINDING" /\ old = "STARTING" -> -1
      [] new = "UNBINDING" -> 1
      [] new = "DESTROYED" -> -1
      [] OTHER -> 0

IoDelta_any(old, new) ==          \* mutant: the old state is not looked at
    CASE new \in {"BINDING", "UNBINDING"} -> 1
      [] new \in {"RUNNING", "STOPPING"} -> -1
      [] OTHER -> 0

IoDelta(old, new) ==
    CASE new = "BINDING" -> 1
      [] new = "UNBINDING" -> 1
      [] new = "RUNNING" /\ old = "BINDING" -> -1
      [] new = "STOPPING" /\ old = "UNBINDING" -> -1
      [] OTHER -> 0

(* vblk_vq_set_state up to the store of the new state, which Store makes.  *)
SetState(t, q, new) ==
    /\ enginePending' = Wrap(enginePending + EngineDelta(state[q], new))
    /\ ioPending' = [ioPending EXCEPT ![IoCtxOf(q)] =
                        Wrap(@ + IoDelta(state[q], new))]
    /\ cur' = [cur EXCEPT ![t] = q]
    /\ todo' = [todo EXCEPT ![t] = new]
    /\ state' = state

Store(t) ==
    /\ todo[t] # NoState
    /\ state' = [state EXCEPT ![cur[t]] = todo[t]]
    /\ cur' = [cur EXCEPT ![t] = @ + 1]
    /\ todo' = [todo EXCEPT ![t] = NoState]
    /\ UNCHANGED <<vq, cfg, lib, enginePending, ioPending, pendingStart,
                   handoverDst, pc>>

(* A thread runs over the queues in order, from cur on: it stops at the    *)
(* first queue of S, and goes on to label l when there is none.            *)
FirstOf(t, S) ==
    {q \in S : q >= cur[t] /\ \A r \in S : r >= cur[t] => q <= r}

LoopEnds(t, S, l) ==
    /\ FirstOf(t, S) = {}
    /\ Goto(t, l)
    /\ cur' = [cur EXCEPT ![t] = 0]
    /\ UNCHANGED <<ctrlVars, todo>>

-----------------------------------------------------------------------------
(* The host's state updates, applied by the OE thread in emu_ipc_poll.     *)

(* vblk_ctrl_apply_state with device_status 0: the deferred start is       *)
(* dropped and the configurations are cleared, then ResetVq queue by queue. *)
ApplyReset ==
    /\ At(OE, "ipc")
    /\ pendingStart' = FALSE
    /\ enginePending' = Wrap(enginePending - IF pendingStart THEN 1 ELSE 0)
    /\ cfg' = [q \in Queues |-> FALSE]
    /\ Goto(OE, "reset")
    /\ cur' = [cur EXCEPT ![OE] = 0]
    /\ UNCHANGED <<state, vq, lib, ioPending, handoverDst, todo>>

ResetTarget_stop(s) ==            \* mutant: a queue being bound is stopped at once
    IF s \in {"STARTING", "BINDING"} THEN "STOPPING" ELSE "UNBINDING"

ResetTarget(s) == IF s = "STARTING" THEN "STOPPING" ELSE "UNBINDING"

Resettable == {q \in Queues :
                 state[q] \in {"CONFIGURED", "RUNNING", "BINDING", "STARTING"}}

ResetVq ==
    /\ At(OE, "reset")
    /\ \/ \E q \in FirstOf(OE, Resettable) :
            /\ SetState(OE, q, ResetTarget(state[q]))
            /\ UNCHANGED <<vq, cfg, lib, pendingStart, handoverDst, pc>>
       \/ LoopEnds(OE, Resettable, "ipc")

(* vblk_ctrl_apply_state with DRIVER_OK: the enabled queues E are          *)
(* configured, and started at once or after the queues have settled.       *)
ApplyDriverOk(E) ==
    /\ At(OE, "ipc")
    /\ cfg' = [q \in Queues |-> cfg[q] \/ q \in E]
    /\ IF HasIntermediate
       THEN /\ pendingStart' = TRUE
            /\ enginePending' =
                  Wrap(enginePending + IF pendingStart THEN 0 ELSE 1)
            /\ UNCHANGED <<pc, cur>>
       ELSE /\ Goto(OE, "start")
            /\ cur' = [cur EXCEPT ![OE] = 0]
            /\ UNCHANGED <<pendingStart, enginePending>>
    /\ UNCHANGED <<state, vq, lib, ioPending, handoverDst, todo>>

Startable == {q \in Queues : cfg[q] /\ state[q] = "DESTROYED" /\ ~vq[q]}

(* vblk_ctrl_start_ready_vqs, from apply_state ("start") or from the       *)
(* deferred start of vblk_ctrl_offload_engine_progress ("defer").          *)
StartVq(from, back) ==
    /\ At(OE, from)
    /\ \/ \E q \in FirstOf(OE, Startable) :
            /\ SetState(OE, q, "STARTING")
            /\ UNCHANGED <<vq, cfg, lib, pendingStart, handoverDst, pc>>
       \/ LoopEnds(OE, Startable, back)

(* vblk_ctrl_resume_configured_vqs: the parked queues of a destination go  *)
(* on to BINDING once the source has been disabled.                        *)
Resume ==
    /\ At(OE, "ipc")
    /\ handoverDst
    /\ handoverDst' = FALSE
    /\ Goto(OE, "resume")
    /\ cur' = [cur EXCEPT ![OE] = 0]
    /\ UNCHANGED <<state, vq, cfg, lib, enginePending, ioPending, pendingStart,
                   todo>>

Parked == {q \in Queues : state[q] = "CONFIGURED"}

ResumeVq ==
    /\ At(OE, "resume")
    /\ \/ \E q \in FirstOf(OE, Parked) :
            /\ SetState(OE, q, "BINDING")
            /\ UNCHANGED <<vq, cfg, lib, pendingStart, handoverDst, pc>>
       \/ LoopEnds(OE, Parked, "ipc")

-----------------------------------------------------------------------------
(* vblk_ctrl_offload_engine_progress, on the OE thread.                    *)

EngineEnter ==
    /\ At(OE, "engine")
    /\ enginePending # 0
    /\ cur' = [cur EXCEPT ![OE] = 0]
    /\ IF pendingStart /\ ~HasIntermediate
       THEN /\ pendingStart' = FALSE
            /\ enginePending' = Wrap(enginePending - 1)
            /\ Goto(OE, "defer")
       ELSE /\ Goto(OE, "scan")
            /\ UNCHANGED <<pendingStart, enginePending>>
    /\ UNCHANGED <<state, vq, cfg, lib, ioPending, handoverDst, todo>>

EngineWork == {q \in Queues : state[q] \in {"STARTING", "STOPPING"}}

(* STARTING: create, configure and start the queue.  A failure leaves it   *)
(* DESTROYED and the scan goes on; success ends the pass.                  *)
EngineStart(q) ==
    /\ state[q] = "STARTING"
    /\ \/ /\ CreateFails
          /\ SetState(OE, q, "DESTROYED")
          /\ vq' = [vq EXCEPT ![q] = FALSE]
          /\ UNCHANGED <<lib, pc>>
       \/ /\ SetState(OE, q, IF handoverDst THEN "CONFIGURED" ELSE "BINDING")
          /\ vq' = [vq EXCEPT ![q] = TRUE]
          /\ lib' = [lib EXCEPT ![q] = "started"]
          /\ Goto(OE, "io")

(* STOPPING: stop and destroy the queue, which ends the pass. *)
EngineStop(q) ==
    /\ state[q] = "STOPPING"
    /\ SetState(OE, q, "DESTROYED")
    /\ vq' = [vq EXCEPT ![q] = FALSE]
    /\ lib' = [lib EXCEPT ![q] = "none"]
    /\ Goto(OE, "io")

EngineScan ==
    /\ At(OE, "scan")
    /\ \/ /\ \E q \in FirstOf(OE, EngineWork) : EngineStart(q) \/ EngineStop(q)
          /\ UNCHANGED <<cfg, pendingStart, handoverDst>>
       \/ LoopEnds(OE, EngineWork, "settle")

EngineSettle_deferred ==          \* mutant: a deferred start is overlooked
    /\ At(OE, "settle")
    /\ Goto(OE, IF enginePending > 0 /\ ~HasIntermediate THEN "clear" ELSE "io")
    /\ UNCHANGED <<ctrlVars, cur, todo>>

(* A pass that found nothing to do checks whether the count is a leftover, *)
(* and only then, in a second step, clears it.                             *)
EngineSettle ==
    /\ At(OE, "settle")
    /\ Goto(OE, IF enginePending > 0 /\ ~pendingStart /\ ~HasIntermediate
                THEN "clear" ELSE "io")
    /\ UNCHANGED <<ctrlVars, cur, todo>>

EngineClear ==
    /\ At(OE, "clear")
    /\ enginePending' = 0
    /\ Goto(OE, "io")
    /\ UNCHANGED <<state, vq, cfg, lib, ioPending, pendingStart, handoverDst,
                   cur, todo>>

-----------------------------------------------------------------------------
(* vblk_ctrl_io_context_progress, on the thread of IO context c.           *)

IoWork(c) == {q \in Queues : IoCtxOf(q) = c
                             /\ state[q] \in {"BINDING", "UNBINDING"}}

IoEnter(c) ==
    /\ At(c, "io")
    /\ ioPending[c] # 0
    /\ Goto(c, "ioscan")
    /\ cur' = [cur EXCEPT ![c] = 0]
    /\ UNCHANGED <<ctrlVars, todo>>

(* The state was read as BINDING: bind and enable the queue.  The state is *)
(* read again by the set_state that follows (IoBound).                     *)
IoBind(c, q) ==
    /\ state[q] = "BINDING"
    /\ cur' = [cur EXCEPT ![c] = q]
    /\ \/ /\ lib' = [lib EXCEPT ![q] = "enabled"]
          /\ Goto(c, "bound")
       \/ /\ BindFails
          /\ Goto(c, "unbound")
          /\ UNCHANGED lib
    /\ UNCHANGED <<state, vq, cfg, enginePending, ioPending, pendingStart,
                   handoverDst, todo>>

IoBound(c) ==
    /\ todo[c] = NoState
    /\ pc[c] \in {"bound", "unbound"}
    /\ SetState(c, cur[c], IF pc[c] = "bound" THEN "RUNNING" ELSE "STOPPING")
    /\ Goto(c, "ioscan")
    /\ UNCHANGED <<vq, cfg, lib, pendingStart, handoverDst>>

(* vblk_ctrl_queue_stop: disabling may take several passes.  Once the      *)
(* queue is disabled it is unbound and handed to the engine.               *)
IoUnbind(c, q) ==
    /\ state[q] = "UNBINDING"
    /\ \/ /\ lib[q] \in {"enabled", "started"}
          /\ lib' = [lib EXCEPT ![q] = "started"]
          /\ SetState(c, q, "STOPPING")
          /\ UNCHANGED <<vq, cfg, pendingStart, handoverDst, pc>>
       \/ /\ lib[q] \in {"enabled", "disabling"}
          /\ lib' = [lib EXCEPT ![q] = "disabling"]
          /\ cur' = [cur EXCEPT ![c] = q + 1]
          /\ UNCHANGED <<state, vq, cfg, enginePending, ioPending,
                         pendingStart, handoverDst, pc, todo>>

IoScan(c) ==
    /\ At(c, "ioscan")
    /\ \/ \E q \in FirstOf(c, IoWork(c)) : IoBind(c, q) \/ IoUnbind(c, q)
       \/ LoopEnds(c, IoWork(c), IF c = OE THEN "ipc" ELSE "io")

(* External: the library finishes disabling a queue. *)
LibDisabled(q) ==
    /\ lib[q] = "disabling"
    /\ lib' = [lib EXCEPT ![q] = "started"]
    /\ UNCHANGED <<state, vq, cfg, enginePending, ioPending, pendingStart,
                   handoverDst, pc, cur, todo>>

-----------------------------------------------------------------------------
(* vblk_ho_dst_begin_switchover, on the main thread of a destination: all  *)
(* queues the source had enabled are started, then awaited one by one.     *)
MainStartVq(E) ==
    /\ At(Main, "startall")
    /\ \/ \E q \in FirstOf(Main, E) :
            IF state[q] = "DESTROYED"
            THEN /\ SetState(Main, q, "STARTING")
                 /\ cfg' = [cfg EXCEPT ![q] = TRUE]
                 /\ UNCHANGED <<vq, lib, pendingStart, handoverDst, pc>>
            ELSE /\ cur' = [cur EXCEPT ![Main] = q + 1]
                 /\ UNCHANGED <<ctrlVars, pc, todo>>
       \/ LoopEnds(Main, E, "awaitall")

MainAwaitVq ==
    /\ At(Main, "awaitall")
    /\ \/ /\ cur[Main] \in Queues
          /\ IF state[cur[Main]] = "DESTROYED"
             THEN cur' = [cur EXCEPT ![Main] = @ + 1] /\ UNCHANGED pc
             ELSE Goto(Main, "awaitone") /\ UNCHANGED cur
       \/ /\ cur[Main] \notin Queues
          /\ Goto(Main, "parked")
          /\ UNCHANGED cur
    /\ UNCHANGED <<ctrlVars, todo>>

(* The wait has no other way out than CONFIGURED. *)
MainAwaited ==
    /\ At(Main, "awaitone")
    /\ state[cur[Main]] = "CONFIGURED"
    /\ cur' = [cur EXCEPT ![Main] = @ + 1]
    /\ Goto(Main, "awaitall")
    /\ UNCHANGED <<ctrlVars, todo>>
=============================================================================
