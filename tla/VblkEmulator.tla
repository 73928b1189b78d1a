---------------------------- MODULE VblkEmulator ----------------------------
(***************************************************************************)
(* One virtio-blk emulator process (doca_vblk_pci_dev_emu): the main       *)
(* thread (vblk_pci_dev_emu_run), the IO context threads it creates        *)
(* (vblk_io_ctx_thread), their start-up and shutdown handshake through the *)
(* atomics of vblk_pci_dev_core_lu.c, and, while they run, the queue work  *)
(* of VblkQueues.  The process is the source ("SRC") or, while it takes    *)
(* over from another one in a live update, the destination ("DST").        *)
(***************************************************************************)
EXTENDS VblkQueues

CONSTANTS
    Roles,          \* the roles the process may be started in
    MaxUpdates,     \* how many state updates the host side sends
    InitFails       \* whether a step of the start-up may fail

ASSUME VblkEmulatorAssumption ==
    /\ Roles \subseteq {"SRC", "DST"}
    /\ MaxUpdates \in Nat
    /\ InitFails \in BOOLEAN

VARIABLES
    role,           \* the role of the process
    run,            \* vblk_app_run_state, an index of enum vblk_app_run_state_e
    ready,          \* vblk_app_io_ready
    exited,         \* vblk_app_io_exited
    err,            \* vblk_app_err is not DOCA_SUCCESS
    preEnable,      \* vblk_app_pre_enable_done
    quit,           \* force_quit
    ioInited,       \* io_inited of each IO context thread
    cleaned,        \* vblk_ctrl_cleanup has run
    updates,        \* state updates applied
    want,           \* the last update the host side sent
    bindFailed      \* history: some queue could not be bound or enabled

appVars == <<role, run, ready, exited, err, preEnable, quit, ioInited, cleaned>>
hostVars == <<updates, want, bindFailed>>
vars == <<queueVars, appVars, hostVars>>

INIT == 0
CTRL_CREATED == 1
IO_READY == 2
CTRL_ENABLED == 3
ERROR == 4

Init ==
    /\ QueueInit
    /\ role \in Roles
    /\ handoverDst = (role = "DST")
    /\ pc = [t \in Threads |-> IF t = Main THEN "threads" ELSE "none"]
    /\ run = INIT /\ ready = 0 /\ exited = 0
    /\ err = FALSE /\ preEnable = FALSE /\ quit = FALSE
    /\ ioInited = [c \in Ctxs |-> FALSE]
    /\ cleaned = FALSE
    /\ updates = 0 /\ want = "none" /\ bindFailed = FALSE

(* The offload engine exists from vblk_ctrl_init to vblk_ctrl_cleanup. *)
EngineUp == ~cleaned /\ (ioInited[OE] \/ pc[OE] \in {"init", "abort"})

(* app_signal_ctrl_enabled, and app_signal_ctrl_created on failure. *)
Signal(failed) ==
    IF failed THEN err' = TRUE /\ run' = ERROR /\ quit' = TRUE
              ELSE run' = CTRL_ENABLED /\ UNCHANGED <<err, quit>>

-----------------------------------------------------------------------------
(* The main thread. *)

(* vblk_io_ctx_oe_threads_create: one thread per IO context, in order. *)
MainCreateThread ==
    /\ pc[Main] = "threads"
    /\ \/ /\ cur[Main] < NumIoCtx
          /\ pc' = [pc EXCEPT ![cur[Main]] = "create"]
          /\ cur' = [cur EXCEPT ![Main] = @ + 1]
       \/ /\ cur[Main] < NumIoCtx /\ InitFails
          /\ Goto(Main, "forcequit") /\ UNCHANGED cur
       \/ /\ cur[Main] = NumIoCtx
          /\ Goto(Main, "ioready")
          /\ cur' = [cur EXCEPT ![Main] = 0]
    /\ UNCHANGED <<ctrlVars, todo, appVars, hostVars>>

(* app_wait_io_ready; a quit without an error counts as success. *)
MainWaitReady ==
    /\ pc[Main] = "ioready"
    /\ quit \/ err \/ run >= IO_READY
    /\ Goto(Main, IF err THEN "forcequit"
                  ELSE IF role = "SRC" THEN "export" ELSE "preenable")
    /\ UNCHANGED <<ctrlVars, cur, todo, appVars, hostVars>>

(* The source exports the engine and sends the descriptor to the TLP,      *)
(* unless it was itself recovered from such a descriptor.                  *)
MainExport ==
    /\ pc[Main] = "export"
    /\ \E recovery \in BOOLEAN :
         \/ (recovery \/ EngineUp) /\ Goto(Main, "preenable")
         \/ ~recovery /\ (InitFails \/ ~EngineUp) /\ Goto(Main, "forcequit")
    /\ UNCHANGED <<ctrlVars, cur, todo, appVars, hostVars>>

MainPreEnable ==
    /\ pc[Main] = "preenable"
    /\ preEnable' = TRUE
    /\ Goto(Main, "enabled")
    /\ UNCHANGED <<ctrlVars, cur, todo, role, run, ready, exited, err, quit,
                   ioInited, cleaned, hostVars>>

(* app_wait_ctrl_enabled, then the state request of a source or the export *)
(* of a destination, either of which may fail.                             *)
MainWaitEnabled ==
    /\ pc[Main] = "enabled"
    /\ quit \/ err \/ run >= CTRL_ENABLED
    /\ \/ role = "SRC" /\ ~err /\ Goto(Main, "join")
       \/ role = "DST" /\ ~err /\ EngineUp /\ Goto(Main, "startall")
       \/ /\ err \/ InitFails \/ (role = "DST" /\ ~EngineUp)
          /\ Goto(Main, "forcequit")
    /\ cur' = [cur EXCEPT ![Main] = 0]
    /\ UNCHANGED <<ctrlVars, todo, appVars, hostVars>>

(* The queues are the controller's: after vblk_ctrl_cleanup they are gone. *)
MainSwitchover ==
    /\ pc[Main] \in {"startall", "awaitall", "awaitone"}
    /\ \/ /\ ~cleaned
          /\ MainStartVq(Queues) \/ Store(Main) \/ MainAwaitVq \/ MainAwaited
       \/ /\ cleaned
          /\ Goto(Main, "fault")
          /\ UNCHANGED <<ctrlVars, cur, todo>>
    /\ UNCHANGED <<appVars, hostVars>>

MainForceQuit ==
    /\ pc[Main] = "forcequit"
    /\ quit' = TRUE /\ err' = TRUE /\ run' = ERROR
    /\ Goto(Main, "join")
    /\ UNCHANGED <<ctrlVars, cur, todo, role, ready, exited, preEnable,
                   ioInited, cleaned, hostVars>>

(* The main thread has sent BEGIN ("parked"), or has nothing more to do    *)
(* ("join"): it joins the threads it created.                              *)
MainJoin ==
    /\ pc[Main] \in {"parked", "join"}
    /\ \A c \in Ctxs : pc[c] \in {"none", "exited"}
    /\ Goto(Main, "done")
    /\ UNCHANGED <<ctrlVars, cur, todo, appVars, hostVars>>

MainNext ==
    \/ MainCreateThread \/ MainWaitReady \/ MainExport \/ MainPreEnable
    \/ MainWaitEnabled \/ MainSwitchover \/ MainForceQuit \/ MainJoin

-----------------------------------------------------------------------------
(* Start-up of an IO context thread. *)

(* vblk_ctrl_init on the OE thread. *)
OeCreate ==
    /\ pc[OE] = "create"
    /\ \/ /\ run' = CTRL_CREATED
          /\ Goto(OE, "init")
          /\ UNCHANGED <<err, quit>>
       \/ /\ InitFails
          /\ Signal(TRUE)
          /\ Goto(OE, "out")
    /\ UNCHANGED <<ctrlVars, cur, todo, role, ready, exited, preEnable,
                   ioInited, cleaned, hostVars>>

(* app_wait_ctrl_created on the other threads. *)
IoWaitCreated(c) ==
    /\ c # OE /\ pc[c] = "create"
    /\ quit \/ err \/ run >= CTRL_CREATED
    /\ Goto(c, IF quit \/ err THEN "out" ELSE "init")
    /\ UNCHANGED <<ctrlVars, cur, todo, appVars, hostVars>>

(* vblk_ctrl_init_io_ctx_on_thread, under io_init_lock.  A failure on the  *)
(* OE thread stops the process and cleans up at once; a failure on another *)
(* thread only ends that thread.                                           *)
IoInit(c) ==
    /\ pc[c] = "init"
    /\ \/ /\ ioInited' = [ioInited EXCEPT ![c] = TRUE]
          /\ ready' = ready + 1
          /\ run' = IF ready + 1 = NumIoCtx THEN IO_READY ELSE run
          /\ Goto(c, IF c = OE THEN "waitready" ELSE "io")
          /\ UNCHANGED <<err, quit>>
       \/ /\ InitFails
          /\ IF c = OE THEN Signal(TRUE) /\ Goto(c, "abort")
                       ELSE UNCHANGED <<run, err, quit>> /\ Goto(c, "out")
          /\ UNCHANGED <<ioInited, ready>>
    /\ UNCHANGED <<ctrlVars, cur, todo, role, exited, preEnable, cleaned,
                   hostVars>>

OeAbort ==
    /\ pc[OE] = "abort"
    /\ cleaned' = TRUE
    /\ Goto(OE, "out")
    /\ UNCHANGED <<ctrlVars, cur, todo, role, run, ready, exited, err,
                   preEnable, quit, ioInited, hostVars>>

(* The OE thread waits until all IO contexts are ready and the main thread *)
(* has exported, and enables the engine unless it is a destination.        *)
OeWaitReady ==
    /\ pc[OE] = "waitready"
    /\ \/ /\ quit \/ err
          /\ Signal(err)
          /\ Goto(OE, "ipc")
       \/ /\ ~quit /\ ~err /\ run >= IO_READY
          /\ Goto(OE, "waitpre")
          /\ UNCHANGED <<run, err, quit>>
    /\ UNCHANGED <<ctrlVars, cur, todo, role, ready, exited, preEnable,
                   ioInited, cleaned, hostVars>>

OeEnable ==
    /\ pc[OE] = "waitpre"
    /\ quit \/ err \/ preEnable
    /\ \/ Signal(err)
       \/ InitFails /\ ~quit /\ role = "SRC" /\ Signal(TRUE)
    /\ Goto(OE, "ipc")
    /\ UNCHANGED <<ctrlVars, cur, todo, role, ready, exited, preEnable,
                   ioInited, cleaned, hostVars>>

StartUp(c) ==
    \/ IoWaitCreated(c) \/ IoInit(c)
    \/ c = OE /\ (OeCreate \/ OeAbort \/ OeWaitReady \/ OeEnable)

-----------------------------------------------------------------------------
(* The progress loop of an IO context thread. *)

(* TLP sends state updates to the source only: a destination gets them     *)
(* once its queues run and it has taken over the source's address.         *)
UpdatesReach == ~handoverDst /\ (role = "SRC" \/ want # "none" \/ ~HasIntermediate)

(* Bound: a destination is followed for one update after it took over. *)
UpdateBound == IF role = "SRC" THEN MaxUpdates ELSE 1

OeUpdate ==
    /\ At(OE, "ipc") /\ ~quit
    /\ updates < UpdateBound /\ UpdatesReach
    /\ updates' = updates + 1
    /\ \/ ApplyReset /\ want' = "reset"
       \/ ApplyDriverOk(Queues) /\ want' = "ok"
    /\ UNCHANGED <<appVars, bindFailed>>

(* BEGIN_ACK reaches a destination after the main thread sent BEGIN. *)
OeResume ==
    /\ ~quit /\ pc[Main] = "parked"
    /\ Resume
    /\ UNCHANGED <<appVars, hostVars>>

(* From one part of the loop body to the next; a part whose counter is     *)
(* zero is skipped.  The loop ends at its head once force_quit is set.     *)
LoopStep(c) ==
    /\ todo[c] = NoState
    /\ \/ /\ pc[c] = "ipc" /\ c = OE
          /\ Goto(c, IF quit THEN "shutdown" ELSE "engine")
       \/ /\ pc[c] = "engine" /\ enginePending = 0
          /\ Goto(c, "io")
       \/ /\ pc[c] = "io" /\ c = OE /\ ioPending[c] = 0
          /\ Goto(c, "ipc")
       \/ /\ pc[c] = "io" /\ c # OE /\ quit
          /\ Goto(c, "shutdown")
    /\ UNCHANGED <<ctrlVars, cur, todo, appVars, hostVars>>

QueueStep(c) ==
    /\ \/ pc[c] # "startall" /\ Store(c)
       \/ ~(c # OE /\ quit) /\ IoEnter(c)
       \/ IoScan(c) \/ IoBound(c)
       \/ /\ c = OE
          /\ \/ ResetVq \/ ResumeVq
             \/ StartVq("start", "ipc") \/ StartVq("defer", "scan")
             \/ EngineEnter \/ EngineScan \/ EngineSettle \/ EngineClear
    /\ bindFailed' = (bindFailed \/ pc'[c] = "unbound")
    /\ UNCHANGED <<appVars, updates, want>>

-----------------------------------------------------------------------------
(* Shutdown of an IO context thread. *)

(* vblk_ctrl_shutdown_io_ctx_on_thread: the RUNNING queues of the context  *)
(* are disabled and unbound; queues in other states are left as they are.  *)
Shutdown(c) ==
    /\ pc[c] = "shutdown" /\ ~cleaned
    /\ lib' = [q \in Queues |->
                 IF IoCtxOf(q) = c /\ state[q] = "RUNNING" THEN "started"
                 ELSE lib[q]]
    /\ Goto(c, IF c = OE THEN "waitexit" ELSE "out")
    /\ UNCHANGED <<state, vq, cfg, enginePending, ioPending, pendingStart,
                   handoverDst, cur, todo, appVars, hostVars>>

(* The queues of a cleaned-up controller are gone. *)
ShutdownFault(c) ==
    /\ pc[c] = "shutdown" /\ cleaned
    /\ Goto(c, "fault")
    /\ UNCHANGED <<ctrlVars, cur, todo, appVars, hostVars>>

OeCleanup_early ==                \* mutant: the other threads are not waited for
    /\ pc[OE] = "waitexit"
    /\ cleaned' = TRUE
    /\ vq' = [q \in Queues |-> FALSE]
    /\ lib' = [q \in Queues |-> "none"]
    /\ Goto(OE, "out")
    /\ UNCHANGED <<state, cfg, enginePending, ioPending, pendingStart,
                   handoverDst, cur, todo, role, run, ready, exited, err,
                   preEnable, quit, ioInited, hostVars>>

(* app_wait_all_io_exited, then vblk_ctrl_cleanup. *)
OeCleanup ==
    /\ pc[OE] = "waitexit"
    /\ exited >= NumIoCtx - 1
    /\ cleaned' = TRUE
    /\ vq' = [q \in Queues |-> FALSE]
    /\ lib' = [q \in Queues |-> "none"]
    /\ Goto(OE, "out")
    /\ UNCHANGED <<state, cfg, enginePending, ioPending, pendingStart,
                   handoverDst, cur, todo, role, run, ready, exited, err,
                   preEnable, quit, ioInited, hostVars>>

ThreadOut_inited(c) ==            \* mutant: a thread that failed to start is not counted
    /\ pc[c] = "out"
    /\ exited' = IF ioInited[c] THEN exited + 1 ELSE exited
    /\ Goto(c, "exited")
    /\ UNCHANGED <<ctrlVars, cur, todo, role, run, ready, err, preEnable, quit,
                   ioInited, cleaned, hostVars>>

ThreadOut(c) ==
    /\ pc[c] = "out"
    /\ exited' = exited + 1
    /\ Goto(c, "exited")
    /\ UNCHANGED <<ctrlVars, cur, todo, role, run, ready, err, preEnable, quit,
                   ioInited, cleaned, hostVars>>

ShutdownStep(c) ==
    Shutdown(c) \/ ShutdownFault(c) \/ (c = OE /\ OeCleanup) \/ ThreadOut(c)

(* SIGTERM, from the TLP process at its own end. *)
Sigterm ==
    /\ ~quit
    /\ quit' = TRUE
    /\ UNCHANGED <<queueVars, role, run, ready, exited, err, preEnable,
                   ioInited, cleaned, hostVars>>

Drained(q) == LibDisabled(q) /\ UNCHANGED <<appVars, hostVars>>

ThreadStep(c) == StartUp(c) \/ LoopStep(c) \/ QueueStep(c) \/ ShutdownStep(c)

Ended == pc[Main] = "done" \/ \E t \in Threads : pc[t] = "fault"

Terminated == Ended /\ UNCHANGED vars

Next ==
    \/ MainNext
    \/ \E c \in Ctxs : ThreadStep(c)
    \/ OeUpdate \/ OeResume
    \/ \E q \in Queues : Drained(q)
    \/ Sigterm
    \/ Terminated

(* Every thread keeps running, and the library finishes what it started.   *)
(* Nothing obliges the host, the source of a handover or an operator.      *)
Fairness ==
    /\ WF_vars(MainNext)
    /\ \A c \in Ctxs : WF_vars(ThreadStep(c))
    /\ \A q \in Queues : WF_vars(Drained(q))

Spec == Init /\ [][Next]_vars /\ Fairness

-----------------------------------------------------------------------------
(* The queues, counters and flags keep the types of their fields, and no   *)
(* more threads report ready or exited than there are IO contexts.         *)
TypeOK ==
    /\ state \in [Queues -> VqStates]
    /\ vq \in [Queues -> BOOLEAN] /\ cfg \in [Queues -> BOOLEAN]
    /\ lib \in [Queues -> {"none", "started", "enabled", "disabling"}]
    /\ enginePending \in 0 .. PendingMod - 1
    /\ ioPending \in [Ctxs -> 0 .. PendingMod - 1]
    /\ todo \in [Threads -> VqStates \cup {NoState}]
    /\ cur \in [Threads -> 0 .. NumQueues + NumIoCtx]
    /\ run \in INIT .. ERROR
    /\ ready \in 0 .. NumIoCtx /\ exited \in 0 .. NumIoCtx

(* The engine destroys a queue only when no IO thread can still use it: a  *)
(* queue that is parked, being bound, running or being unbound has its     *)
(* library object (vqs[q].vq), which the IO thread dereferences without    *)
(* a check.                                                                *)
IoOnLiveQueue ==
    \A q \in Queues :
        /\ state[q] \in {"CONFIGURED", "BINDING", "RUNNING", "UNBINDING"}
        /\ ~cleaned
        => vq[q] /\ lib[q] # "none"

(* Some thread is between the two steps of a state change of q. *)
Changing(q) == \E t \in Threads : todo[t] # NoState /\ cur[t] = q

(* No doorbell is lost: a queue that waits for the IO thread or for the    *)
(* engine is counted in the counter that makes that thread look at it, if  *)
(* no thread is in the middle of changing its state.                       *)
DoorbellsCounted ==
    \A q \in Queues : ~Changing(q) =>
        /\ q \in IoWork(IoCtxOf(q)) => ioPending[IoCtxOf(q)] # 0
        /\ q \in EngineWork => enginePending # 0

(* The same for a source in which every bind succeeded.  A queue whose     *)
(* bind failed goes to STOPPING uncounted, and in a destination the engine *)
(* clears the counter the main thread has just raised.                     *)
SourceDoorbellsCounted == role = "SRC" /\ ~bindFailed => DoorbellsCounted

(* The controller is cleaned up only when no other IO thread is inside it, *)
(* if the OE thread came as far as its progress loop.                      *)
CleanupAlone ==
    cleaned /\ ioInited[OE] =>
        \A c \in Ctxs \ {OE} : pc[c] \in {"none", "create", "out", "exited"}

Busy(q) == state[q] \in {"STARTING", "BINDING", "UNBINDING", "STOPPING"}

(* In a source in which binds succeed, a queue does not stay in a          *)
(* transient state, and a deferred start does not stay deferred, unless    *)
(* the process quits.                                                      *)
QueuesSettle ==
    /\ \A q \in Queues :
         Busy(q) ~> (~Busy(q) \/ quit \/ bindFailed \/ role = "DST")
    /\ pendingStart ~> (~pendingStart \/ quit \/ bindFailed \/ role = "DST")

(* Once force_quit is set a source whose threads were all created ends.    *)
ShutdownEnds ==
    (quit /\ role = "SRC" /\ \A c \in Ctxs : pc[c] # "none") ~> Ended
=============================================================================
