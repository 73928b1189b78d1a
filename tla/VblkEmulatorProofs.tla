------------------------- MODULE VblkEmulatorProofs -------------------------
(***************************************************************************)
(* Proofs about VblkEmulator: for any number of IO contexts and queues,    *)
(* whatever fails and whenever the process is told to quit, a controller   *)
(* that got as far as the progress loop of the OE thread is cleaned up     *)
(* only after all the other IO threads have ended (CleanupAlone), and      *)
(* until then a queue that is parked, being bound, running or being        *)
(* unbound has the library object that its handlers use (IoOnLiveQueue).   *)
(***************************************************************************)
EXTENDS VblkEmulator, FiniteSetTheorems, TLAPS

(* Where an IO thread is after its start-up and before it leaves: in the   *)
(* body of its progress loop, or waiting on its way into or out of it.     *)
Inside == {"ipc", "engine", "io", "ioscan", "bound", "unbound", "reset", "start", "defer",
           "scan", "settle", "clear", "resume", "waitready", "waitpre", "shutdown",
           "waitexit", "fault"}
Labels == Inside \cup
          {"none", "create", "init", "abort", "out", "exited",
           "threads", "ioready", "export", "preenable", "enabled", "startall", "awaitall",
           "awaitone", "parked", "forcequit", "join", "done"}

Out == {c \in Ctxs : pc[c] = "exited"}

(* The threads that main has not created yet do not exist. *)
ThreadsInv ==
    pc[Main] = "threads" => \A c \in Ctxs : c >= cur[Main] => pc[c] = "none"

(* vblk_app_io_exited counts the threads that have ended. *)
ExitedInv == exited = Cardinality(Out)

(* The OE thread counts as initialised once it has left its start-up, and  *)
(* has nothing more to do after the clean-up.                              *)
OeInv ==
    /\ pc[OE] \in {"none", "create", "init", "abort"} => ~ioInited[OE]
    /\ cleaned => pc[OE] \in {"out", "exited"}

(* Stronger than CleanupAlone: by then every other thread has ended. *)
AloneInv ==
    cleaned /\ ioInited[OE] => \A c \in Ctxs \ {OE} : pc[c] = "exited"

TypeInv ==
    /\ pc \in [Threads -> Labels]
    /\ cur \in [Threads -> Int]
    /\ ioInited \in [Ctxs -> BOOLEAN]
    /\ cleaned \in BOOLEAN

IInv == TypeInv /\ ThreadsInv /\ ExitedInv /\ OeInv /\ AloneInv

(* The threads are told apart by their number. *)
LEMMA ThreadFacts ==
    /\ OE \in Ctxs /\ OE \in Threads /\ Main \in Threads /\ Main \notin Ctxs /\ Main # OE
    /\ Main \in Int /\ Ctxs \subseteq Int /\ Ctxs \subseteq Threads /\ Queues \subseteq Int
    /\ \A t \in Threads : t \in Ctxs \/ t = Main
BY VblkQueuesAssumption DEF OE, Ctxs, Threads, Main, Queues

(* There are NumIoCtx IO threads. *)
LEMMA CtxsFinite == IsFiniteSet(Ctxs) /\ Cardinality(Ctxs) = NumIoCtx
<1>1. NumIoCtx - 1 \in Int /\ 0 \in Int
  BY VblkQueuesAssumption
<1>2. IsFiniteSet(0 .. NumIoCtx - 1)
      /\ Cardinality(0 .. NumIoCtx - 1) = IF 0 > NumIoCtx - 1 THEN 0 ELSE (NumIoCtx - 1) - 0 + 1
  BY <1>1, FS_Interval
<1> QED BY <1>2, VblkQueuesAssumption DEF Ctxs

(* The threads that have ended are finitely many. *)
LEMMA OutFinite == IsFiniteSet(Out) /\ Cardinality(Out) \in Nat
<1>1. Out \subseteq Ctxs
  BY DEF Out
<1> QED BY <1>1, CtxsFinite, FS_Subset, FS_CardinalityType

(* app_wait_all_io_exited: when all but one thread are counted and the OE  *)
(* thread is not among them, every other one is.                           *)
LEMMA AllOthersOut ==
    ASSUME ExitedInv, pc[OE] # "exited", exited >= NumIoCtx - 1
    PROVE  \A c \in Ctxs \ {OE} : pc[c] = "exited"
<1> DEFINE Others == Ctxs \ {OE}
<1>1. IsFiniteSet(Others) /\ Cardinality(Others) = NumIoCtx - 1
  BY CtxsFinite, ThreadFacts, FS_RemoveElement
<1>2. Out \subseteq Others
  BY DEF Out
<1>3. Cardinality(Out) = Cardinality(Others)
  <2>1. Cardinality(Out) <= Cardinality(Others)
    BY <1>1, <1>2, FS_Subset
  <2> QED BY <1>1, <2>1, OutFinite, VblkQueuesAssumption DEF ExitedInv
<1>4. Out = Others
  BY <1>1, <1>2, <1>3, FS_Subset
<1> QED BY <1>4 DEF Out

(* A thread moves inside or out, or stays where it is; the other threads   *)
(* do not move.                                                            *)
Moves(c) ==
    /\ \A t \in Threads \ {c} : pc'[t] = pc[t] /\ cur'[t] = cur[t]
    /\ pc'[c] = pc[c] \/ (pc[c] \in Inside /\ pc'[c] \in Inside \cup {"out"})
    /\ pc' \in [Threads -> Labels]
    /\ cur' \in [Threads -> Int]

(* Whoever moves like this disturbs nothing. *)
LEMMA MovesKeep ==
    ASSUME IInv, NEW c \in Ctxs, Moves(c), UNCHANGED <<exited, ioInited, cleaned>>
    PROVE  IInv'
<1>1. pc'[Main] = pc[Main] /\ cur'[Main] = cur[Main]
  BY ThreadFacts DEF Moves
<1>2. \A d \in Ctxs : \/ pc'[d] = pc[d]
                      \/ pc[d] \in Inside /\ pc'[d] \in Inside \cup {"out"}
  BY ThreadFacts DEF Moves
<1>3. Out' = Out
  BY <1>2 DEF Out, Inside
<1>4. TypeInv'
  BY DEF IInv, TypeInv, Moves
<1>5. ThreadsInv'
  BY <1>1, <1>2 DEF IInv, ThreadsInv, Inside
<1>6. ExitedInv'
  BY <1>3 DEF IInv, ExitedInv
<1>7. OeInv'
  BY <1>2, ThreadFacts DEF IInv, OeInv, Inside
<1>8. AloneInv'
  BY <1>2 DEF IInv, AloneInv, Inside
<1> QED BY <1>4, <1>5, <1>6, <1>7, <1>8 DEF IInv

(* The form all those steps have. *)
LEMMA GotoMoves ==
    ASSUME TypeInv, NEW c \in Ctxs, NEW x \in Int,
           cur' = [cur EXCEPT ![c] = x] \/ UNCHANGED cur,
           \/ UNCHANGED pc
           \/ pc[c] \in Inside /\ \E l \in Inside \cup {"out"} : Goto(c, l)
    PROVE  Moves(c)
BY ThreadFacts DEF TypeInv, Moves, Goto, Labels

(* A loop over the queues begins. *)
LEMMA LoopBegins ==
    ASSUME TypeInv, pc[OE] \in Inside, NEW l \in Inside, Goto(OE, l), cur' = [cur EXCEPT ![OE] = 0]
    PROVE  Moves(OE)
<1>1. OE \in Ctxs /\ 0 \in Int /\ l \in Inside \cup {"out"}
  BY ThreadFacts
<1> QED BY Zenon, <1>1, GotoMoves

(* The queue a loop stops at is a number. *)
LEMMA FirstIsQueue ==
    ASSUME NEW t, NEW S \in SUBSET Queues, NEW q \in FirstOf(t, S)
    PROVE  q \in Queues /\ q \in Int
BY ThreadFacts DEF FirstOf

(* The second half of vblk_vq_set_state. *)
LEMMA StoreMoves ==
    ASSUME TypeInv, NEW c \in Ctxs, Store(c)
    PROVE  Moves(c)
<1>1. cur[c] + 1 \in Int
  BY ThreadFacts DEF TypeInv
<1>2. cur' = [cur EXCEPT ![c] = cur[c] + 1] /\ UNCHANGED pc
  BY DEF Store
<1> QED BY Zenon, <1>1, <1>2, GotoMoves

(* The end of a loop over the queues. *)
LEMMA LoopEndsMoves ==
    ASSUME TypeInv, NEW c \in Ctxs, NEW S, NEW l \in Inside, pc[c] \in Inside, LoopEnds(c, S, l)
    PROVE  Moves(c)
<1>1. 0 \in Int /\ cur' = [cur EXCEPT ![c] = 0]
  BY DEF LoopEnds
<1>2. pc[c] \in Inside /\ \E k \in Inside \cup {"out"} : Goto(c, k)
  BY DEF LoopEnds
<1> QED BY Zenon, <1>1, <1>2, GotoMoves

(* vblk_ctrl_io_context_progress. *)
LEMMA IoMoves ==
    ASSUME TypeInv, NEW c \in Ctxs, IoEnter(c) \/ IoScan(c) \/ IoBound(c)
    PROVE  Moves(c)
<1>1. CASE IoEnter(c)
  <2>1. 0 \in Int /\ cur' = [cur EXCEPT ![c] = 0]
    BY <1>1 DEF IoEnter
  <2>2. pc[c] \in Inside /\ \E l \in Inside \cup {"out"} : Goto(c, l)
    BY <1>1 DEF IoEnter, At, Inside
  <2> QED BY Zenon, <2>1, <2>2, GotoMoves
<1>2. CASE IoBound(c)
  <2>1. cur[c] \in Int
    BY ThreadFacts DEF TypeInv
  <2> QED BY Zenon, <1>2, <2>1, GotoMoves DEF IoBound, SetState, Inside
<1>3. CASE IoScan(c)
  <2>1. pc[c] \in Inside
    BY <1>3 DEF IoScan, At, Inside
  <2>2. CASE LoopEnds(c, IoWork(c), IF c = OE THEN "ipc" ELSE "io")
    BY <2>1, <2>2, LoopEndsMoves DEF Inside
  <2>3. ASSUME NEW q \in FirstOf(c, IoWork(c)), IoBind(c, q) \/ IoUnbind(c, q)
        PROVE  Moves(c)
    <3>1. q \in Int /\ q + 1 \in Int
      BY FirstIsQueue DEF IoWork
    <3>2. CASE IoBind(c, q)
      BY Zenon, <2>1, <3>1, <3>2, GotoMoves DEF IoBind, Inside
    <3>3. CASE IoUnbind(c, q)
      BY <3>1, <3>3, GotoMoves DEF IoUnbind, SetState
    <3> QED BY <2>3, <3>2, <3>3
  <2> QED BY <1>3, <2>2, <2>3 DEF IoScan
<1> QED BY <1>1, <1>2, <1>3

(* The loops of the OE thread that give a queue a new state. *)
LEMMA OeLoopMoves ==
    ASSUME TypeInv, ResetVq \/ ResumeVq \/ StartVq("start", "ipc") \/ StartVq("defer", "scan")
    PROVE  Moves(OE)
<1>1. PICK S \in SUBSET Queues, l \in Inside :
        /\ pc[OE] \in Inside
        /\ \/ \E q \in FirstOf(OE, S) : \E new : SetState(OE, q, new) /\ UNCHANGED pc
           \/ LoopEnds(OE, S, l)
  <2>1. CASE ResetVq
    BY <2>1 DEF ResetVq, At, Inside, Resettable
  <2>2. CASE ResumeVq
    BY <2>2 DEF ResumeVq, At, Inside, Parked
  <2>3. CASE StartVq("start", "ipc") \/ StartVq("defer", "scan")
    BY Zenon, <2>3 DEF StartVq, At, Inside, Startable
  <2> QED BY <2>1, <2>2, <2>3
<1>2. CASE LoopEnds(OE, S, l)
  BY <1>1, <1>2, LoopEndsMoves, ThreadFacts
<1>3. ASSUME NEW q \in FirstOf(OE, S), NEW new, SetState(OE, q, new), UNCHANGED pc
      PROVE  Moves(OE)
  BY Zenon, <1>3, FirstIsQueue, GotoMoves, ThreadFacts DEF SetState
<1> QED BY <1>1, <1>2, <1>3

(* vblk_ctrl_offload_engine_progress and the host's updates. *)
LEMMA EngineMoves ==
    ASSUME TypeInv,
           \/ EngineEnter \/ EngineScan \/ EngineSettle \/ EngineClear
           \/ ApplyReset \/ ApplyDriverOk(Queues) \/ Resume
    PROVE  Moves(OE)
<1>1. CASE EngineEnter \/ EngineSettle \/ EngineClear
  <2>1. CASE EngineEnter
    <3>1. pc[OE] \in Inside /\ "defer" \in Inside /\ "scan" \in Inside
      BY <2>1 DEF EngineEnter, At, Inside
    <3>2. (Goto(OE, "defer") \/ Goto(OE, "scan")) /\ cur' = [cur EXCEPT ![OE] = 0]
      BY <2>1 DEF EngineEnter
    <3> QED BY <3>1, <3>2, LoopBegins
  <2>2. CASE EngineSettle
    BY <2>2, GotoMoves, ThreadFacts DEF EngineSettle, At, Inside
  <2>3. CASE EngineClear
    BY <2>3, GotoMoves, ThreadFacts DEF EngineClear, At, Inside
  <2> QED BY <1>1, <2>1, <2>2, <2>3
<1>2. CASE ApplyReset \/ ApplyDriverOk(Queues) \/ Resume
  <2>1. CASE ApplyReset
    <3>1. pc[OE] \in Inside /\ "reset" \in Inside
      BY <2>1 DEF ApplyReset, At, Inside
    <3>2. Goto(OE, "reset") /\ cur' = [cur EXCEPT ![OE] = 0]
      BY <2>1 DEF ApplyReset
    <3> QED BY <3>1, <3>2, LoopBegins
  <2>2. CASE ApplyDriverOk(Queues)
    BY <2>2, GotoMoves, ThreadFacts DEF ApplyDriverOk, At, Inside
  <2>3. CASE Resume
    <3>1. pc[OE] \in Inside /\ "resume" \in Inside
      BY <2>3 DEF Resume, At, Inside
    <3>2. Goto(OE, "resume") /\ cur' = [cur EXCEPT ![OE] = 0]
      BY <2>3 DEF Resume
    <3> QED BY <3>1, <3>2, LoopBegins
  <2> QED BY <1>2, <2>1, <2>2, <2>3
<1>3. CASE EngineScan
  <2>1. pc[OE] \in Inside
    BY <1>3 DEF EngineScan, At, Inside
  <2>2. CASE LoopEnds(OE, EngineWork, "settle")
    BY <2>1, <2>2, LoopEndsMoves, ThreadFacts DEF Inside
  <2>3. ASSUME NEW q \in FirstOf(OE, EngineWork), EngineStart(q) \/ EngineStop(q)
        PROVE  Moves(OE)
    <3>1. q \in Int
      BY FirstIsQueue DEF EngineWork
    <3> QED BY <2>1, <2>3, <3>1, GotoMoves, ThreadFacts
            DEF EngineStart, EngineStop, SetState, Inside
  <2> QED BY <1>3, <2>2, <2>3 DEF EngineScan
<1> QED BY <1>1, <1>2, <1>3

(* The whole queue work of a thread. *)
LEMMA QueueMoves ==
    ASSUME TypeInv, NEW c \in Ctxs, QueueStep(c)
    PROVE  Moves(c)
BY StoreMoves, IoMoves, OeLoopMoves, EngineMoves DEF QueueStep

(* The steps of the main thread, but for the creation of the threads: they *)
(* move no other thread, and nothing leads back to "threads".              *)
LEMMA MainKeeps ==
    ASSUME IInv, MainNext, ~MainCreateThread
    PROVE  IInv'
<1> DEFINE Elsewhere ==
             \E l \in Labels \ {"threads"}, x \in Int :
               /\ Goto(Main, l) \/ (UNCHANGED pc /\ pc[Main] # "threads")
               /\ cur' = [cur EXCEPT ![Main] = x] \/ UNCHANGED cur
<1>1. Elsewhere
  <2>0. cur[Main] \in Int /\ cur[Main] + 1 \in Int /\ 0 \in Int
    BY ThreadFacts DEF IInv, TypeInv
  <2>1. CASE MainWaitReady \/ MainExport \/ MainPreEnable
    BY <2>0, <2>1 DEF MainWaitReady, MainExport, MainPreEnable, Labels, Inside
  <2>2. CASE MainWaitEnabled
    BY Zenon, <2>0, <2>2 DEF MainWaitEnabled, Labels, Inside
  <2>3. CASE MainForceQuit \/ MainJoin
    BY <2>0, <2>3 DEF MainForceQuit, MainJoin, Labels, Inside
  <2>4. CASE MainSwitchover
    <3>1. pc[Main] # "threads"
      BY <2>4 DEF MainSwitchover
    <3>2. CASE Goto(Main, "fault") /\ UNCHANGED <<ctrlVars, cur, todo>>
      BY <2>0, <3>2 DEF Labels, Inside
    <3>3. CASE Store(Main)
      <4>1. PICK x \in Int : UNCHANGED pc /\ cur' = [cur EXCEPT ![Main] = x]
        BY Zenon, <2>0, <3>3 DEF Store
      <4>2. "done" \in Labels \ {"threads"}
        BY DEF Labels
      <4> QED BY Zenon, <3>1, <4>1, <4>2
    <3>4. CASE MainAwaitVq \/ MainAwaited
      <4>1. CASE MainAwaitVq
        BY <2>0, <3>1, <4>1 DEF MainAwaitVq, Labels, Inside
      <4>2. CASE MainAwaited
        BY Zenon, <2>0, <3>1, <4>2 DEF MainAwaited, Labels, Inside
      <4> QED BY <3>4, <4>1, <4>2
    <3>5. CASE MainStartVq(Queues)
      <4>1. CASE LoopEnds(Main, Queues, "awaitall")
        BY Zenon, <2>0, <4>1 DEF LoopEnds, Labels, Inside
      <4>2. ASSUME NEW q \in FirstOf(Main, Queues), UNCHANGED pc,
                   SetState(Main, q, "STARTING") \/ cur' = [cur EXCEPT ![Main] = q + 1]
            PROVE  Elsewhere
        <5>1. q \in Int /\ q + 1 \in Int
          BY FirstIsQueue
        <5> QED BY <3>1, <4>2, <5>1 DEF SetState, Labels, Inside
      <4> QED BY <3>5, <4>1, <4>2 DEF MainStartVq
    <3> QED BY <2>4, <3>2, <3>3, <3>4, <3>5 DEF MainSwitchover
  <2> QED BY <2>1, <2>2, <2>3, <2>4 DEF MainNext
<1>2. UNCHANGED <<exited, ioInited, cleaned>>
  BY DEF MainNext, MainWaitReady, MainExport, MainPreEnable, MainWaitEnabled, MainSwitchover,
         MainForceQuit, MainJoin, appVars
<1>3. TypeInv' /\ pc'[Main] # "threads" /\ \A c \in Ctxs : pc'[c] = pc[c]
  BY <1>1, <1>2, ThreadFacts DEF IInv, TypeInv, Goto
<1>4. Out' = Out
  BY <1>3 DEF Out
<1> QED BY <1>2, <1>3, <1>4, ThreadFacts DEF IInv, ThreadsInv, ExitedInv, OeInv, AloneInv

(* vblk_io_ctx_oe_threads_create. *)
LEMMA CreateKeeps ==
    ASSUME IInv, MainCreateThread
    PROVE  IInv'
<1>0. cur[Main] \in Int /\ cur[Main] + 1 \in Int /\ pc[Main] = "threads"
  BY ThreadFacts DEF IInv, TypeInv, MainCreateThread
<1>1. UNCHANGED <<exited, ioInited, cleaned>>
  BY DEF MainCreateThread, appVars
<1>2. CASE pc'[Main] # "threads" /\ TypeInv' /\ \A c \in Ctxs : pc'[c] = pc[c]
  <2>1. Out' = Out
    BY <1>2 DEF Out
  <2> QED BY <1>1, <1>2, <2>1, ThreadFacts DEF IInv, ThreadsInv, ExitedInv, OeInv, AloneInv
<1>3. CASE Goto(Main, "forcequit") /\ UNCHANGED cur
  BY <1>1, <1>2, <1>3, ThreadFacts DEF Goto, IInv, TypeInv, Labels
<1>4. CASE Goto(Main, "ioready") /\ cur' = [cur EXCEPT ![Main] = 0]
  BY <1>1, <1>2, <1>4, ThreadFacts DEF Goto, IInv, TypeInv, Labels
<1>5. CASE /\ cur[Main] < NumIoCtx
           /\ pc' = [pc EXCEPT ![cur[Main]] = "create"]
           /\ cur' = [cur EXCEPT ![Main] = cur[Main] + 1]
  <2>1. TypeInv' /\ cur'[Main] = cur[Main] + 1
    BY Zenon, <1>0, <1>1, <1>5, ThreadFacts DEF IInv, TypeInv, Labels
  <2>2. \A c \in Ctxs : pc'[c] = pc[c] \/ (c = cur[Main] /\ pc[c] = "none" /\ pc'[c] = "create")
    BY <1>0, <1>5, ThreadFacts DEF IInv, TypeInv, ThreadsInv
  <2>3. Out' = Out
    BY <2>2 DEF Out
  <2>4. ThreadsInv'
    BY <1>0, <1>5, <2>1, <2>2, ThreadFacts DEF IInv, TypeInv, ThreadsInv
  <2>5. OeInv' /\ AloneInv'
    BY <1>1, <2>2, ThreadFacts DEF IInv, OeInv, AloneInv
  <2> QED BY <1>1, <2>1, <2>3, <2>4, <2>5 DEF IInv, ExitedInv
<1> QED BY <1>3, <1>4, <1>5 DEF MainCreateThread

(* What every step of the start-up and the shutdown of thread c does:      *)
(* it moves that thread from one place to another.                         *)
LEMMA ThreadGoes ==
    ASSUME IInv, NEW c \in Ctxs, NEW l \in Labels \ {"none"}, Goto(c, l),
           UNCHANGED cur, pc[c] # "none"
    PROVE  /\ pc' \in [Threads -> Labels] /\ cur' \in [Threads -> Int]
           /\ pc'[c] = l
           /\ \A t \in Threads \ {c} : pc'[t] = pc[t]
           /\ ThreadsInv'
BY ThreadFacts DEF IInv, TypeInv, ThreadsInv, Goto

(* The start-up of an IO context thread. *)
LEMMA StartUpKeeps ==
    ASSUME IInv, NEW c \in Ctxs, StartUp(c)
    PROVE  IInv'
<1>1. CASE c = OE /\ (OeWaitReady \/ OeEnable)
  <2>1. Moves(OE)
    <3>1. "ipc" \in Inside \cup {"out"} /\ "waitpre" \in Inside \cup {"out"} /\ 0 \in Int
      BY DEF Inside
    <3>2. UNCHANGED cur /\ pc[OE] \in Inside /\ (Goto(OE, "ipc") \/ Goto(OE, "waitpre"))
      BY Zenon, <1>1 DEF OeWaitReady, OeEnable, Inside
    <3> QED BY <3>1, <3>2, GotoMoves, ThreadFacts DEF IInv
  <2>2. UNCHANGED <<exited, ioInited, cleaned>>
    BY Zenon, <1>1 DEF OeWaitReady, OeEnable
  <2> QED BY <2>1, <2>2, MovesKeep, ThreadFacts
<1>2. CASE IoWaitCreated(c) \/ (c = OE /\ OeCreate) \/ (c # OE /\ IoInit(c))
  <2>1. PICK l \in {"out", "init", "io", "waitready"} :
           /\ Goto(c, l) /\ UNCHANGED cur /\ pc[c] \in {"create", "init"}
           /\ c = OE => pc[c] = "create" /\ l \in {"out", "init"}
    BY Zenon, <1>2 DEF IoWaitCreated, OeCreate, IoInit
  <2>2. /\ pc' \in [Threads -> Labels] /\ cur' \in [Threads -> Int]
        /\ pc'[c] = l
        /\ \A t \in Threads \ {c} : pc'[t] = pc[t]
        /\ ThreadsInv'
    BY <2>1, ThreadGoes DEF Labels, Inside
  <2>3. /\ UNCHANGED <<exited, cleaned>> /\ ioInited' \in [Ctxs -> BOOLEAN]
        /\ ioInited'[OE] = ioInited[OE]
    BY Zenon, <1>2, ThreadFacts DEF IoWaitCreated, OeCreate, IoInit, appVars, IInv, TypeInv
  <2>4. Out' = Out
    BY Zenon, <2>1, <2>2, ThreadFacts DEF Out
  <2>5. OeInv'
    BY <2>1, <2>2, <2>3, ThreadFacts DEF IInv, OeInv
  <2>6. AloneInv'
    BY <2>1, <2>2, <2>3, ThreadFacts DEF IInv, OeInv, AloneInv
  <2> QED BY <2>2, <2>3, <2>4, <2>5, <2>6 DEF IInv, TypeInv, ExitedInv
<1>3. CASE c = OE /\ (IoInit(OE) \/ OeAbort)
  <2>1. PICK l \in {"abort", "waitready", "out"} :
          /\ Goto(OE, l) /\ UNCHANGED cur /\ pc[OE] \in {"init", "abort"}
          /\ \/ UNCHANGED ioInited
             \/ l = "waitready" /\ ioInited' = [ioInited EXCEPT ![OE] = TRUE]
          /\ UNCHANGED cleaned \/ (l = "out" /\ cleaned' = TRUE /\ UNCHANGED ioInited)
          /\ UNCHANGED exited
    BY Zenon, <1>3 DEF IoInit, OeAbort
  <2>2. /\ pc' \in [Threads -> Labels] /\ cur' \in [Threads -> Int]
        /\ pc'[OE] = l
        /\ \A t \in Threads \ {OE} : pc'[t] = pc[t]
        /\ ThreadsInv'
    BY <2>1, ThreadGoes, ThreadFacts DEF Labels, Inside
  <2>3. Out' = Out
    BY Zenon, <2>1, <2>2, ThreadFacts DEF Out
  <2>4. ~cleaned /\ ~ioInited[OE]
    BY <2>1 DEF IInv, OeInv
  <2>5. OeInv' /\ AloneInv'
    <3>1. OeInv'
      BY <2>1, <2>2, <2>4, ThreadFacts DEF IInv, OeInv, TypeInv
    <3>2. AloneInv'
      BY Zenon, <2>1, <2>2, <2>4, ThreadFacts DEF IInv, AloneInv
    <3> QED BY <3>1, <3>2
  <2> QED BY Zenon, <2>1, <2>2, <2>3, <2>5, ThreadFacts DEF IInv, TypeInv, ExitedInv
<1> QED BY <1>1, <1>2, <1>3 DEF StartUp

(* The shutdown of an IO context thread.  The OE thread cleans up only     *)
(* after all the others were counted.                                      *)
LEMMA ShutdownKeeps ==
    ASSUME IInv, NEW c \in Ctxs, ShutdownStep(c)
    PROVE  IInv'
<1>1. CASE Shutdown(c) \/ ShutdownFault(c)
  <2>1. "waitexit" \in Inside \cup {"out"} /\ "fault" \in Inside \cup {"out"} /\ 0 \in Int
    BY DEF Inside
  <2>2. UNCHANGED cur /\ pc[c] \in Inside
    BY <1>1 DEF Shutdown, ShutdownFault, Inside
  <2>3. Goto(c, "waitexit") \/ Goto(c, "out") \/ Goto(c, "fault")
    BY <1>1 DEF Shutdown, ShutdownFault
  <2>4. UNCHANGED <<exited, ioInited, cleaned>>
    BY <1>1 DEF Shutdown, ShutdownFault, appVars
  <2>5. Moves(c)
    BY <2>1, <2>2, <2>3, GotoMoves DEF IInv
  <2> QED BY <2>4, <2>5, MovesKeep
<1>2. CASE c = OE /\ OeCleanup
  <2>1. /\ pc' \in [Threads -> Labels] /\ cur' \in [Threads -> Int]
        /\ pc'[OE] = "out"
        /\ \A t \in Threads \ {OE} : pc'[t] = pc[t]
        /\ ThreadsInv'
    BY <1>2, ThreadGoes, ThreadFacts DEF OeCleanup, Labels
  <2>2. cleaned' = TRUE /\ UNCHANGED <<exited, ioInited>> /\ pc[OE] = "waitexit"
    BY <1>2 DEF OeCleanup
  <2>3. Out' = Out
    BY Zenon, <2>1, <2>2, ThreadFacts DEF Out
  <2>4. \A d \in Ctxs \ {OE} : pc[d] = "exited"
    BY <1>2, AllOthersOut DEF OeCleanup, IInv
  <2>5. OeInv' /\ AloneInv'
    BY <2>1, <2>2, <2>4, ThreadFacts DEF IInv, OeInv, AloneInv
  <2> QED BY <2>1, <2>2, <2>3, <2>5 DEF IInv, TypeInv, ExitedInv
<1>3. CASE ThreadOut(c)
  <2>1. /\ pc' \in [Threads -> Labels] /\ cur' \in [Threads -> Int]
        /\ pc'[c] = "exited"
        /\ \A t \in Threads \ {c} : pc'[t] = pc[t]
        /\ ThreadsInv'
    BY <1>3, ThreadGoes DEF ThreadOut, Labels
  <2>2. exited' = exited + 1 /\ UNCHANGED <<ioInited, cleaned>> /\ pc[c] = "out"
    BY <1>3 DEF ThreadOut
  <2>3. ExitedInv'
    <3>1. Out' = Out \cup {c} /\ c \notin Out
      BY Zenon, <2>1, <2>2, ThreadFacts DEF Out
    <3>2. Cardinality(Out \cup {c}) = Cardinality(Out) + 1
      BY <3>1, OutFinite, FS_AddElement
    <3> QED BY <2>2, <3>1, <3>2 DEF IInv, ExitedInv
  <2>4. OeInv' /\ AloneInv'
    BY <2>1, <2>2, ThreadFacts DEF IInv, OeInv, AloneInv
  <2> QED BY <2>1, <2>2, <2>3, <2>4 DEF IInv, TypeInv
<1> QED BY <1>1, <1>2, <1>3 DEF ShutdownStep

(* The progress loop of an IO context thread, and the updates and the      *)
(* BEGIN_ACK that the OE thread handles in it.                             *)
LEMMA LoopKeeps ==
    ASSUME IInv, NEW c \in Ctxs, LoopStep(c) \/ QueueStep(c) \/ (c = OE /\ (OeUpdate \/ OeResume))
    PROVE  IInv'
<1>1. UNCHANGED <<exited, ioInited, cleaned>>
  BY DEF LoopStep, QueueStep, OeUpdate, OeResume, appVars
<1>2. CASE LoopStep(c)
  <2>1. {"shutdown", "engine", "io", "ipc"} \subseteq Inside \cup {"out"} /\ 0 \in Int
    BY DEF Inside
  <2>2. UNCHANGED cur /\ pc[c] \in Inside
    BY Zenon, <1>2 DEF LoopStep, Inside
  <2>3. \E l \in {"shutdown", "engine", "io", "ipc"} : Goto(c, l)
    BY Zenon, <1>2 DEF LoopStep
  <2>4. Moves(c)
    BY <2>1, <2>2, <2>3, GotoMoves DEF IInv
  <2> QED BY <1>1, <2>4, MovesKeep
<1>3. CASE QueueStep(c)
  BY <1>1, <1>3, QueueMoves, MovesKeep DEF IInv
<1>4. CASE c = OE /\ (OeUpdate \/ OeResume)
  BY <1>1, <1>4, EngineMoves, MovesKeep DEF OeUpdate, OeResume, IInv
<1> QED BY <1>2, <1>3, <1>4

(* No thread exists before main has created it. *)
LEMMA InitInv == Init => IInv
<1> SUFFICES ASSUME Init PROVE IInv
  OBVIOUS
<1>1. TypeInv
  <2>1. pc \in [Threads -> Labels]
    BY DEF Init, Labels
  <2>2. cur \in [Threads -> Int]
    BY DEF Init, QueueInit
  <2>3. ioInited \in [Ctxs -> BOOLEAN] /\ cleaned \in BOOLEAN
    BY Zenon DEF Init
  <2> QED BY <2>1, <2>2, <2>3 DEF TypeInv
<1>2. \A c \in Ctxs : pc[c] = "none"
  BY ThreadFacts DEF Init
<1>3. Out = {}
  BY <1>2 DEF Out
<1>4. ExitedInv
  BY <1>3, FS_EmptySet DEF Init, ExitedInv
<1> QED BY <1>1, <1>2, <1>4, ThreadFacts DEF Init, IInv, ThreadsInv, OeInv, AloneInv

(* Every step of every thread keeps the invariant. *)
LEMMA NextInv == IInv /\ [Next]_vars => IInv'
<1> SUFFICES ASSUME IInv, [Next]_vars PROVE IInv'
  OBVIOUS
<1>1. CASE UNCHANGED <<pc, cur, exited, ioInited, cleaned>>
  BY <1>1 DEF IInv, TypeInv, ThreadsInv, ExitedInv, OeInv, AloneInv, Out
<1>2. CASE MainNext
  BY <1>2, MainKeeps, CreateKeeps
<1>3. ASSUME NEW c \in Ctxs, ThreadStep(c) PROVE IInv'
  BY <1>3, StartUpKeeps, LoopKeeps, ShutdownKeeps DEF ThreadStep
<1>4. CASE OeUpdate \/ OeResume
  BY <1>4, LoopKeeps, ThreadFacts
<1>5. CASE \E q \in Queues : Drained(q)
  BY <1>1, <1>5 DEF Drained, LibDisabled, appVars
<1>6. CASE Sigterm \/ Terminated \/ UNCHANGED vars
  BY <1>1, <1>6 DEF Sigterm, Terminated, vars, appVars, queueVars
<1> QED BY <1>2, <1>3, <1>4, <1>5, <1>6 DEF Next

(* vblk_ctrl_cleanup waits for the IO threads: for every number of IO      *)
(* contexts and queues, and every failure and quit, once the OE thread has *)
(* been initialised the controller is only freed when no other thread is   *)
(* inside it.                                                              *)
THEOREM CleanupIsAlone == Spec => []CleanupAlone
<1>1. IInv => CleanupAlone
  BY DEF IInv, AloneInv, CleanupAlone
<1> QED BY <1>1, InitInv, NextInv, PTL DEF Spec

-----------------------------------------------------------------------------
(* The queues.                                                             *)

LiveStates == {"CONFIGURED", "BINDING", "RUNNING", "UNBINDING"}
IoStates == {"BINDING", "UNBINDING"}
LibStates == {"none", "started", "enabled", "disabling"}

(* The queue has its library object. *)
Live(q) == vq[q] /\ lib[q] # "none"

QueueTypeInv ==
    /\ state \in [Queues -> VqStates]
    /\ vq \in [Queues -> BOOLEAN]
    /\ lib \in [Queues -> LibStates]
    /\ todo \in [Threads -> VqStates \cup {NoState}]
    /\ handoverDst \in BOOLEAN /\ pendingStart \in BOOLEAN
    /\ role \in {"SRC", "DST"}

(* A thread that binds or unbinds a queue has it to itself but for a reset *)
(* by the OE thread, which leaves it among the queues to unbind.           *)
Works(c, q) ==
    /\ q \in Queues /\ IoCtxOf(q) = c /\ state[q] \in IoStates

IoInv ==
    \A c \in Ctxs :
        /\ pc[c] \in {"bound", "unbound"} => todo[c] = NoState /\ Works(c, cur[c])
        /\ c # OE /\ todo[c] # NoState =>
              todo[c] \in {"RUNNING", "STOPPING"} /\ Works(c, cur[c])

(* The state a queue has while the OE thread is about to store a new one:  *)
(* the one it read, or, when a queue that is being bound is reset, the one *)
(* its IO thread has stored meanwhile.                                     *)
OeChanges ==
    {<<"DESTROYED", "STARTING">>,
     <<"STARTING", "DESTROYED">>, <<"STARTING", "CONFIGURED">>,
     <<"STARTING", "BINDING">>, <<"STARTING", "STOPPING">>,
     <<"STOPPING", "DESTROYED">>, <<"CONFIGURED", "BINDING">>,
     <<"CONFIGURED", "UNBINDING">>, <<"BINDING", "UNBINDING">>,
     <<"RUNNING", "UNBINDING">>, <<"STOPPING", "UNBINDING">>}

OeTodoInv ==
    todo[OE] # NoState =>
        /\ cur[OE] \in Queues
        /\ \/ <<state[cur[OE]], todo[OE]>> \in OeChanges
           \/ todo[OE] \in {"RUNNING", "STOPPING"} /\ Works(OE, cur[OE])
        /\ todo[OE] = "STARTING" => pc[OE] \in {"start", "defer"}

(* While the main thread of a destination starts the queues, the OE thread *)
(* starts, resets and resumes none.                                        *)
SwitchInv ==
    /\ pc[Main] \in {"startall", "awaitall", "awaitone", "fault"} => role = "DST"
    /\ role = "DST" /\ pc[Main] \notin {"parked", "done"} => handoverDst
    /\ handoverDst => ~pendingStart /\ pc[OE] \notin {"reset", "start", "defer", "resume"}

MainTodoInv ==
    todo[Main] # NoState =>
        /\ pc[Main] \in {"startall", "fault"} /\ todo[Main] = "STARTING"
        /\ cur[Main] \in Queues /\ state[cur[Main]] = "DESTROYED"

LiveInv ==
    ~cleaned =>
        /\ \A q \in Queues : state[q] \in LiveStates => Live(q)
        /\ \A t \in Threads : todo[t] \in LiveStates => Live(cur[t])

QInv == QueueTypeInv /\ IoInv /\ OeTodoInv /\ SwitchInv /\ MainTodoInv /\ LiveInv

(* A step that changes no state and begins no change of one: the threads   *)
(* that are in the middle of a change stay there, or main finds the        *)
(* controller gone.                                                        *)
Quiet ==
    /\ UNCHANGED <<state, todo, role>>
    /\ vq' \in [Queues -> BOOLEAN] /\ lib' \in [Queues -> LibStates]
    /\ handoverDst' \in BOOLEAN /\ pendingStart' \in BOOLEAN
    /\ ~cleaned' => ~cleaned /\ \A q \in Queues : Live(q) => vq'[q] /\ lib'[q] # "none"
    /\ \A t \in Threads : todo[t] # NoState => cur'[t] = cur[t]
    /\ todo[OE] = "STARTING" => pc'[OE] = pc[OE]
    /\ todo[Main] # NoState => pc'[Main] \in {pc[Main], "fault"}
    /\ \A c \in Ctxs : pc'[c] \in {"bound", "unbound"} => todo[c] = NoState /\ Works(c, cur'[c])

(* Such a step keeps what the threads rely on. *)
LEMMA QuietKeeps ==
    ASSUME QInv, Quiet, SwitchInv'
    PROVE  QInv'
<1>1. QueueTypeInv'
  BY DEF QInv, QueueTypeInv, Quiet
<1>2. IoInv'
  BY ThreadFacts DEF QInv, IoInv, Quiet, Works
<1>3. OeTodoInv'
  BY ThreadFacts DEF QInv, OeTodoInv, Quiet, Works
<1>4. MainTodoInv'
  BY ThreadFacts DEF QInv, MainTodoInv, Quiet
<1>5. LiveInv'
  <2>1. \A t \in Threads : todo[t] \in LiveStates => cur[t] \in Queues /\ cur'[t] = cur[t]
    BY ThreadFacts DEF QInv, IoInv, OeTodoInv, MainTodoInv, Quiet, Works, LiveStates, NoState
  <2> QED BY <2>1 DEF QInv, LiveInv, Quiet, Live
<1> QED BY <1>1, <1>2, <1>3, <1>4, <1>5 DEF QInv

(* The first half of a state change, of queue q to new by thread t.  What  *)
(* it does to the library object is not seen by a thread that uses it.     *)
Changes(t, q, new) ==
    /\ todo[t] = NoState /\ q \in Queues /\ new \in VqStates
    /\ cur' = [cur EXCEPT ![t] = q]
    /\ todo' = [todo EXCEPT ![t] = new]
    /\ \A u \in Threads \ {t} : pc'[u] = pc[u]
    /\ pc'[t] \notin {"bound", "unbound"}
    /\ vq' \in [Queues -> BOOLEAN] /\ lib' \in [Queues -> LibStates]
    /\ \A r \in Queues \ {q} : vq'[r] = vq[r] /\ lib'[r] = lib[r]
    /\ Live(q) => (vq'[q] /\ lib'[q] # "none") \/ state[q] \in {"STARTING", "STOPPING"}
    /\ ~cleaned /\ new \in LiveStates => vq'[q] /\ lib'[q] # "none"
    /\ UNCHANGED <<state, cleaned, role>>

(* Whoever begins such a change leaves the other threads what they rely on. *)
LEMMA ChangesKeep ==
    ASSUME IInv, QInv, NEW t \in Threads, NEW q, NEW new, Changes(t, q, new), SwitchInv',
           handoverDst' \in BOOLEAN, pendingStart' \in BOOLEAN,
           t = OE => OeTodoInv',
           t = Main => MainTodoInv',
           t \notin {OE, Main} => new \in {"RUNNING", "STOPPING"} /\ Works(t, q)
    PROVE  QInv'
<1>0. /\ todo'[t] = new /\ cur'[t] = q
      /\ \A u \in Threads \ {t} : todo'[u] = todo[u] /\ cur'[u] = cur[u] /\ pc'[u] = pc[u]
  BY DEF Changes, IInv, TypeInv, QInv, QueueTypeInv
<1>1. QueueTypeInv'
  BY Zenon DEF QInv, QueueTypeInv, Changes
<1>2. IoInv'
  BY <1>0, ThreadFacts DEF QInv, IoInv, Changes, Works
<1>3. OeTodoInv'
  BY <1>0, ThreadFacts DEF QInv, OeTodoInv, Changes, Works
<1>4. MainTodoInv'
  BY <1>0, ThreadFacts DEF QInv, MainTodoInv, Changes
<1>5. LiveInv'
  <2> SUFFICES ASSUME ~cleaned PROVE LiveInv'
    BY DEF LiveInv, Changes
  <2>1. /\ q \in Queues /\ new \in VqStates /\ state' = state
        /\ \A r \in Queues \ {q} : vq'[r] = vq[r] /\ lib'[r] = lib[r]
        /\ Live(q) => (vq'[q] /\ lib'[q] # "none") \/ state[q] \in {"STARTING", "STOPPING"}
        /\ new \in LiveStates => vq'[q] /\ lib'[q] # "none"
    BY Zenon DEF Changes
  <2>2. \A r \in Queues \ {q} : Live(r) => vq'[r] /\ lib'[r] # "none"
    BY Zenon, <2>1 DEF Live
  <2>3. Live(q) /\ state[q] \notin {"STARTING", "STOPPING"} => vq'[q] /\ lib'[q] # "none"
    BY Zenon, <2>1
  <2>4. ASSUME NEW r \in Queues, state[r] \in LiveStates PROVE vq'[r] /\ lib'[r] # "none"
    <3>1. Live(r)
      BY <2>4 DEF QInv, LiveInv
    <3>2. state[r] \notin {"STARTING", "STOPPING"}
      BY <2>4 DEF LiveStates
    <3> QED BY Zenon, <3>1, <3>2, <2>2, <2>3
  <2>5. ASSUME NEW u \in Threads \ {t}, todo[u] \in LiveStates
        PROVE  vq'[cur[u]] /\ lib'[cur[u]] # "none"
    <3>1. /\ cur[u] \in Queues /\ Live(cur[u])
          /\ u # OE /\ u # Main => state[cur[u]] \in IoStates
          /\ u # Main
      BY <2>5, ThreadFacts
      DEF QInv, LiveInv, IoInv, OeTodoInv, MainTodoInv, Works, LiveStates, NoState
    <3>2. CASE cur[u] # q
      BY Zenon, <3>1, <3>2, <2>2
    <3>3. CASE cur[u] = q
      <4>1. state[q] \notin {"STARTING", "STOPPING"}
        <5>1. CASE u # OE
          BY <3>1, <3>3, <5>1 DEF IoStates
        <5>2. CASE u = OE /\ t = Main
          <6>1. todo'[Main] = new /\ cur'[Main] = q
            BY Zenon, <1>0, <5>2
          <6>2. new # NoState
            BY <2>1 DEF VqStates, NoState
          <6>3. state'[q] = "DESTROYED"
            BY Zenon, <1>4, <6>1, <6>2 DEF MainTodoInv
          <6> QED BY <2>1, <6>3
        <5>3. CASE u = OE /\ t # Main
          <6>1. state[q] \in IoStates
            BY <5>3 DEF Works
          <6> QED BY <6>1 DEF IoStates
        <5> QED BY <5>1, <5>2, <5>3
      <4> QED BY Zenon, <3>1, <3>3, <4>1, <2>3
    <3> QED BY <3>2, <3>3
  <2>6. ASSUME NEW r \in Queues, state'[r] \in LiveStates PROVE Live(r)'
    <3>1. state[r] \in LiveStates
      BY Zenon, <2>1, <2>6
    <3> QED BY Zenon, <3>1, <2>4 DEF Live
  <2>7. ASSUME NEW u \in Threads, todo'[u] \in LiveStates PROVE Live(cur[u])'
    <3>1. CASE u = t
      <4>1. new \in LiveStates /\ cur'[u] = q
        BY Zenon, <1>0, <2>7, <3>1
      <4> QED BY Zenon, <4>1, <2>1 DEF Live
    <3>2. CASE u # t
      <4>1. todo[u] \in LiveStates /\ cur'[u] = cur[u]
        BY Zenon, <1>0, <2>7, <3>2
      <4> QED BY Zenon, <4>1, <3>2, <2>5 DEF Live
    <3> QED BY <3>1, <3>2
  <2> QED BY Zenon, <2>6, <2>7 DEF LiveInv
<1> QED BY <1>1, <1>2, <1>3, <1>4, <1>5 DEF QInv

(* The second half of a state change.  A queue that one thread works on is *)
(* changed by no other, but for a reset of a queue that is being bound.    *)
LEMMA StoreKeeps ==
    ASSUME IInv, QInv, NEW t \in Threads, Store(t), t = Main => pc[t] # "fault",
           UNCHANGED <<cleaned, role>>
    PROVE  QInv'
<1> DEFINE q == cur[t]
<1>0. /\ q \in Queues /\ todo[t] \in VqStates /\ todo[t] # NoState
      /\ t \notin {OE, Main} => todo[t] \in {"RUNNING", "STOPPING"} /\ Works(t, q)
      /\ t = Main => todo[t] = "STARTING" /\ state[q] = "DESTROYED" /\ pc[Main] = "startall"
      /\ t = OE => \/ <<state[q], todo[OE]>> \in OeChanges
                   \/ todo[OE] \in {"RUNNING", "STOPPING"} /\ Works(OE, q)
  BY ThreadFacts DEF Store, QInv, QueueTypeInv, IoInv, OeTodoInv, MainTodoInv, Works
<1>1. /\ state' = [state EXCEPT ![q] = todo[t]] /\ todo' = [todo EXCEPT ![t] = NoState]
      /\ todo'[t] = NoState
      /\ \A u \in Threads \ {t} : todo'[u] = todo[u] /\ cur'[u] = cur[u]
      /\ UNCHANGED <<vq, lib, pendingStart, handoverDst, pc>>
  BY DEF Store, QInv, QueueTypeInv, IInv, TypeInv
<1>2. /\ state'[q] = todo[t] /\ \A r \in Queues \ {q} : state'[r] = state[r]
  BY Zenon, <1>0, <1>1 DEF QInv, QueueTypeInv
<1> HIDE DEF q
<1>3. QueueTypeInv'
  BY Zenon, <1>0, <1>1 DEF QInv, QueueTypeInv
<1>4. (todo[Main] # NoState /\ t = OE) => cur[Main] # q
  <2> SUFFICES ASSUME todo[Main] # NoState, t = OE, cur[Main] = q PROVE FALSE
    OBVIOUS
  <2>1. state[q] = "DESTROYED" /\ handoverDst
    BY Zenon DEF QInv, MainTodoInv, SwitchInv
  <2>2. todo[OE] = "STARTING"
    BY Zenon, <1>0, <2>1 DEF OeChanges, Works, IoStates
  <2> QED BY Zenon, <2>1, <2>2 DEF QInv, OeTodoInv, SwitchInv, NoState
<1>5. (t = Main /\ todo[OE] # NoState) => cur[OE] # q
  <2> SUFFICES ASSUME todo[OE] # NoState, t = Main, cur[OE] = q PROVE FALSE
    OBVIOUS
  <2>1. state[q] = "DESTROYED" /\ handoverDst
    BY <1>0 DEF QInv, SwitchInv
  <2>2. todo[OE] = "STARTING"
    BY <2>1 DEF OeChanges, Works, IoStates, QInv, OeTodoInv
  <2> QED BY <2>1, <2>2 DEF QInv, OeTodoInv, SwitchInv, NoState
<1>6. ASSUME NEW c \in Ctxs, c # t, Works(c, cur[c]) PROVE Works(c, cur[c])'
  <2>1. CASE cur[c] # q
    BY <1>1, <1>2, <1>6, <2>1, ThreadFacts DEF Works
  <2>2. CASE cur[c] = q
    <3>1. t = OE /\ todo[OE] = "UNBINDING"
      BY <1>0, <1>6, <2>2 DEF Works, OeChanges, IoStates
    <3> QED BY <1>1, <1>2, <1>6, <2>2, <3>1, ThreadFacts DEF Works, IoStates
  <2> QED BY <2>1, <2>2
<1>7. IoInv'
  BY <1>0, <1>1, <1>6, ThreadFacts DEF QInv, IoInv
<1>8. OeTodoInv'
  <2> SUFFICES ASSUME t # OE, todo[OE] # NoState PROVE OeTodoInv'
    BY <1>1, ThreadFacts DEF OeTodoInv
  <2>1. cur[OE] \in Queues /\ cur'[OE] = cur[OE] /\ todo'[OE] = todo[OE] /\ pc'[OE] = pc[OE]
    BY <1>1, ThreadFacts DEF QInv, OeTodoInv
  <2>2. CASE cur[OE] # q
    BY <1>2, <2>1, <2>2 DEF QInv, OeTodoInv, Works
  <2>3. CASE cur[OE] = q
    <3>1. t # Main /\ Works(t, q) /\ todo[t] \in {"RUNNING", "STOPPING"}
      BY <1>0, <1>5, <2>3
    <3>2. todo[OE] = "UNBINDING"
      BY Zenon, <2>3, <3>1 DEF QInv, OeTodoInv, Works, OeChanges, IoStates
    <3> QED BY Zenon, <1>2, <2>1, <2>3, <3>1, <3>2 DEF OeTodoInv, OeChanges
  <2> QED BY <2>2, <2>3
<1>9. MainTodoInv'
  <2> SUFFICES ASSUME t # Main, todo[Main] # NoState PROVE MainTodoInv'
    BY <1>1, ThreadFacts DEF MainTodoInv
  <2>1. cur[Main] # q
    BY <1>0, <1>4 DEF QInv, MainTodoInv, Works, IoStates
  <2> QED BY <1>1, <1>2, <2>1, ThreadFacts DEF QInv, MainTodoInv
<1>10. LiveInv'
  <2> SUFFICES ASSUME ~cleaned PROVE LiveInv'
    BY DEF LiveInv
  <2>1. \A r \in Queues : state'[r] \in LiveStates => Live(r)'
    BY <1>1, <1>2 DEF QInv, LiveInv, Live, q
  <2>2. \A u \in Threads : todo'[u] \in LiveStates => Live(cur[u])' /\ cur'[u] = cur[u]
    BY <1>1 DEF QInv, LiveInv, Live, LiveStates, NoState
  <2> QED BY Zenon, <2>1, <2>2 DEF LiveInv, Live
<1> QED BY <1>1, <1>3, <1>7, <1>8, <1>9, <1>10 DEF QInv, SwitchInv

(* The OE thread begins a state change: what remains to be shown. *)
LEMMA OeChangeKeeps ==
    ASSUME IInv, QInv, NEW q \in Queues, NEW new \in VqStates, SetState(OE, q, new),
           todo[OE] = NoState,
           pc' = pc \/ (pc' = [pc EXCEPT ![OE] = "io"] /\ new # "STARTING"),
           pc[OE] \notin {"bound", "unbound"},
           <<state[q], new>> \in OeChanges,
           new = "STARTING" => pc[OE] \in {"start", "defer"},
           vq' \in [Queues -> BOOLEAN], lib' \in [Queues -> LibStates],
           \A r \in Queues \ {q} : vq'[r] = vq[r] /\ lib'[r] = lib[r],
           state[q] \in LiveStates => vq'[q] = vq[q] /\ lib'[q] = lib[q],
           new \in LiveStates /\ state[q] \notin LiveStates => vq'[q] /\ lib'[q] # "none",
           Live(q) => (vq'[q] /\ lib'[q] # "none") \/ state[q] \in {"STARTING", "STOPPING"},
           UNCHANGED <<pendingStart, handoverDst, cleaned, role>>
    PROVE  QInv'
<1>1. \A u \in Threads \ {OE} : pc'[u] = pc[u]
  BY Zenon DEF IInv, TypeInv
<1>2. pc'[OE] = pc[OE] \/ (pc'[OE] = "io" /\ new # "STARTING")
  BY ThreadFacts DEF IInv, TypeInv
<1>3. Changes(OE, q, new)
  BY Zenon, <1>1, <1>2 DEF Changes, SetState, QInv, LiveInv, Live
<1>4. OeTodoInv'
  <2>1. todo'[OE] = new /\ cur'[OE] = q /\ state' = state
    BY ThreadFacts DEF SetState, IInv, TypeInv, QInv, QueueTypeInv
  <2> QED BY Zenon, <1>2, <2>1 DEF OeTodoInv
<1>5. SwitchInv'
  BY <1>1, <1>2, ThreadFacts DEF QInv, SwitchInv
<1>6. handoverDst' \in BOOLEAN /\ pendingStart' \in BOOLEAN
  BY DEF QInv, QueueTypeInv
<1> QED BY <1>3, <1>4, <1>5, <1>6, ChangesKeep, ThreadFacts

(* A step of thread c that moves it inside its loop, and begins or ends a  *)
(* loop over the queues.                                                   *)
LEMMA WalkKeeps ==
    ASSUME IInv, QInv, NEW c \in Ctxs, NEW l \in Labels \ {"bound", "unbound"}, Goto(c, l),
           UNCHANGED <<state, vq, lib, todo, role, cleaned>>,
           todo[c] = NoState, \A t \in Threads \ {c} : cur'[t] = cur[t],
           handoverDst' \in BOOLEAN, pendingStart' \in BOOLEAN, SwitchInv'
    PROVE  QInv'
<1>1. pc'[c] = l /\ \A t \in Threads \ {c} : pc'[t] = pc[t]
  BY ThreadFacts DEF Goto, IInv, TypeInv
<1>2. Quiet
  BY <1>1, ThreadFacts DEF Quiet, QInv, QueueTypeInv, Live, IoInv, NoState
<1> QED BY <1>2, QuietKeeps

(* The end of a loop over the queues. *)
LEMMA LoopEndKeeps ==
    ASSUME IInv, QInv, NEW c \in Ctxs, NEW S, NEW l \in {"ipc", "io", "scan", "settle"},
           LoopEnds(c, S, l), todo[c] = NoState, UNCHANGED <<role, cleaned>>
    PROVE  QInv'
<1>1. l \in Labels \ {"bound", "unbound"}
  BY DEF Labels, Inside
<1>2. /\ Goto(c, l) /\ UNCHANGED <<state, vq, lib, todo, pendingStart, handoverDst>>
      /\ \A t \in Threads \ {c} : cur'[t] = cur[t]
  BY DEF LoopEnds, ctrlVars, IInv, TypeInv
<1>3. pc'[Main] = pc[Main] /\ (pc'[OE] = pc[OE] \/ pc'[OE] = l)
  BY <1>2, ThreadFacts DEF Goto, IInv, TypeInv
<1>4. SwitchInv'
  BY Zenon, <1>2, <1>3 DEF QInv, SwitchInv
<1>5. handoverDst' \in BOOLEAN /\ pendingStart' \in BOOLEAN
  BY Zenon, <1>2 DEF QInv, QueueTypeInv
<1> QED BY Zenon, <1>1, <1>2, <1>4, <1>5, WalkKeeps

(* vblk_ctrl_apply_state, vblk_ctrl_start_ready_vqs and                    *)
(* vblk_ctrl_resume_configured_vqs, queue by queue.                        *)
LEMMA OeLoopKeeps ==
    ASSUME IInv, QInv, UNCHANGED <<cleaned, role>>,
           ResetVq \/ ResumeVq \/ StartVq("start", "ipc") \/ StartVq("defer", "scan")
    PROVE  QInv'
<1>1. CASE ResetVq
  <2>1. CASE LoopEnds(OE, Resettable, "ipc")
    BY <1>1, <2>1, LoopEndKeeps, ThreadFacts DEF ResetVq, At
  <2>2. ASSUME NEW q \in FirstOf(OE, Resettable), SetState(OE, q, ResetTarget(state[q])),
               UNCHANGED <<vq, cfg, lib, pendingStart, handoverDst, pc>>
        PROVE  QInv'
    <3>1. q \in Queues /\ state[q] \in {"CONFIGURED", "RUNNING", "BINDING", "STARTING"}
      BY DEF FirstOf, Resettable
    <3>2. <<state[q], ResetTarget(state[q])>> \in OeChanges /\ ResetTarget(state[q]) \in VqStates
          /\ (ResetTarget(state[q]) \in LiveStates => state[q] \in LiveStates)
          /\ ResetTarget(state[q]) # "STARTING"
      BY <3>1 DEF ResetTarget, OeChanges, VqStates, LiveStates
    <3>3. todo[OE] = NoState /\ pc[OE] = "reset"
      BY <1>1 DEF ResetVq, At
    <3>4. vq' \in [Queues -> BOOLEAN] /\ lib' \in [Queues -> LibStates]
      BY <2>2 DEF QInv, QueueTypeInv
    <3> QED BY <2>2, <3>1, <3>2, <3>3, <3>4, OeChangeKeeps DEF Live
  <2> QED BY <1>1, <2>1, <2>2 DEF ResetVq
<1>2. CASE ResumeVq
  <2>1. CASE LoopEnds(OE, Parked, "ipc")
    BY <1>2, <2>1, LoopEndKeeps, ThreadFacts DEF ResumeVq, At
  <2>2. ASSUME NEW q \in FirstOf(OE, Parked), SetState(OE, q, "BINDING"),
               UNCHANGED <<vq, cfg, lib, pendingStart, handoverDst, pc>>
        PROVE  QInv'
    <3>1. q \in Queues /\ state[q] = "CONFIGURED"
      BY DEF FirstOf, Parked
    <3>2. <<state[q], "BINDING">> \in OeChanges /\ "BINDING" \in VqStates /\ state[q] \in LiveStates
      BY <3>1 DEF OeChanges, VqStates, LiveStates
    <3>3. todo[OE] = NoState /\ pc[OE] = "resume"
      BY <1>2 DEF ResumeVq, At
    <3>4. vq' \in [Queues -> BOOLEAN] /\ lib' \in [Queues -> LibStates]
      BY <2>2 DEF QInv, QueueTypeInv
    <3> QED BY <2>2, <3>1, <3>2, <3>3, <3>4, OeChangeKeeps DEF Live
  <2> QED BY <1>2, <2>1, <2>2 DEF ResumeVq
<1>3. ASSUME NEW from \in {"start", "defer"}, NEW back \in {"ipc", "scan"}, StartVq(from, back)
      PROVE  QInv'
  <2>1. CASE LoopEnds(OE, Startable, back)
    BY <1>3, <2>1, LoopEndKeeps, ThreadFacts DEF StartVq, At
  <2>2. ASSUME NEW q \in FirstOf(OE, Startable), SetState(OE, q, "STARTING"),
               UNCHANGED <<vq, cfg, lib, pendingStart, handoverDst, pc>>
        PROVE  QInv'
    <3>1. q \in Queues /\ state[q] = "DESTROYED"
      BY DEF FirstOf, Startable
    <3>2. <<state[q], "STARTING">> \in OeChanges /\ "STARTING" \in VqStates
          /\ "STARTING" \notin LiveStates
      BY <3>1 DEF OeChanges, VqStates, LiveStates
    <3>3. todo[OE] = NoState /\ pc[OE] \in {"start", "defer"}
      BY <1>3 DEF StartVq, At
    <3>4. vq' \in [Queues -> BOOLEAN] /\ lib' \in [Queues -> LibStates]
      BY <2>2 DEF QInv, QueueTypeInv
    <3> QED BY <2>2, <3>1, <3>2, <3>3, <3>4, OeChangeKeeps DEF Live
  <2> QED BY <1>3, <2>1, <2>2 DEF StartVq
<1> QED BY <1>1, <1>2, <1>3

(* vblk_ctrl_offload_engine_progress: a queue is destroyed only when it is *)
(* STARTING or STOPPING, and then no IO thread works on it.                *)
LEMMA EngineScanKeeps ==
    ASSUME IInv, QInv, EngineScan, UNCHANGED <<cleaned, role>>
    PROVE  QInv'
<1>0. todo[OE] = NoState /\ pc[OE] = "scan"
  BY Zenon DEF EngineScan, At
<1>1. CASE LoopEnds(OE, EngineWork, "settle")
  BY <1>0, <1>1, LoopEndKeeps, ThreadFacts
<1>2. ASSUME NEW q \in FirstOf(OE, EngineWork), EngineStart(q),
             UNCHANGED <<pendingStart, handoverDst>>
      PROVE  QInv'
  <2>1. q \in Queues /\ state[q] = "STARTING"
    BY <1>2 DEF FirstOf, EngineWork, EngineStart
  <2>2. CASE SetState(OE, q, "DESTROYED") /\ vq' = [vq EXCEPT ![q] = FALSE] /\ UNCHANGED <<lib, pc>>
    <3>1. <<state[q], "DESTROYED">> \in OeChanges /\ "DESTROYED" \in VqStates \ LiveStates
      BY <2>1 DEF OeChanges, VqStates, LiveStates
    <3>2. /\ vq' \in [Queues -> BOOLEAN] /\ lib' \in [Queues -> LibStates]
          /\ \A r \in Queues \ {q} : vq'[r] = vq[r] /\ lib'[r] = lib[r]
      BY <2>1, <2>2 DEF QInv, QueueTypeInv
    <3> QED BY Zenon, <1>0, <1>2, <2>1, <2>2, <3>1, <3>2, OeChangeKeeps DEF LiveStates
  <2>3. ASSUME NEW new \in {"CONFIGURED", "BINDING"}, SetState(OE, q, new),
               vq' = [vq EXCEPT ![q] = TRUE], lib' = [lib EXCEPT ![q] = "started"], Goto(OE, "io")
        PROVE  QInv'
    <3>1. <<state[q], new>> \in OeChanges /\ new \in VqStates /\ new # "STARTING"
      BY <2>1 DEF OeChanges, VqStates
    <3>2. /\ vq' \in [Queues -> BOOLEAN] /\ lib' \in [Queues -> LibStates]
          /\ \A r \in Queues \ {q} : vq'[r] = vq[r] /\ lib'[r] = lib[r]
          /\ vq'[q] /\ lib'[q] # "none"
      BY <2>1, <2>3 DEF QInv, QueueTypeInv, LibStates
    <3>3. pc' = [pc EXCEPT ![OE] = "io"]
      BY <2>3 DEF Goto
    <3> QED BY Zenon, <1>0, <1>2, <2>1, <2>3, <3>1, <3>2, <3>3, OeChangeKeeps DEF LiveStates
  <2>4. \/ /\ SetState(OE, q, "DESTROYED") /\ vq' = [vq EXCEPT ![q] = FALSE]
           /\ UNCHANGED <<lib, pc>>
        \/ \E new \in {"CONFIGURED", "BINDING"} :
              /\ SetState(OE, q, new) /\ vq' = [vq EXCEPT ![q] = TRUE]
              /\ lib' = [lib EXCEPT ![q] = "started"] /\ Goto(OE, "io")
    BY Zenon, <1>2 DEF EngineStart
  <2> QED BY <2>2, <2>3, <2>4
<1>3. ASSUME NEW q \in FirstOf(OE, EngineWork), EngineStop(q),
             UNCHANGED <<pendingStart, handoverDst>>
      PROVE  QInv'
  <2>1. q \in Queues /\ state[q] = "STOPPING"
    BY <1>3 DEF FirstOf, EngineWork, EngineStop
  <2>2. <<state[q], "DESTROYED">> \in OeChanges /\ "DESTROYED" \in VqStates \ LiveStates
    BY <2>1 DEF OeChanges, VqStates, LiveStates
  <2>3. /\ vq' \in [Queues -> BOOLEAN] /\ lib' \in [Queues -> LibStates]
        /\ \A r \in Queues \ {q} : vq'[r] = vq[r] /\ lib'[r] = lib[r]
    BY <1>3, <2>1 DEF QInv, QueueTypeInv, EngineStop, LibStates
  <2>4. pc' = [pc EXCEPT ![OE] = "io"] /\ SetState(OE, q, "DESTROYED")
    BY <1>3 DEF EngineStop, Goto
  <2> QED BY Zenon, <1>0, <1>3, <2>1, <2>2, <2>3, <2>4, OeChangeKeeps DEF LiveStates
<1> QED BY <1>1, <1>2, <1>3 DEF EngineScan

(* The other steps of the offload engine, the host's updates and BEGIN_ACK: *)
(* no queue is started, reset or resumed before a destination has sent     *)
(* BEGIN.                                                                  *)
LEMMA EngineKeeps ==
    ASSUME IInv, QInv, UNCHANGED <<cleaned, role>>,
           \/ EngineEnter \/ EngineSettle \/ EngineClear
           \/ UpdatesReach /\ (ApplyReset \/ ApplyDriverOk(Queues))
           \/ pc[Main] = "parked" /\ Resume
    PROVE  QInv'
<1>0. todo[OE] = NoState /\ pc[OE] \in {"engine", "settle", "clear", "ipc"}
  BY DEF EngineEnter, EngineSettle, EngineClear, ApplyReset, ApplyDriverOk, Resume, At
<1>1. UNCHANGED <<state, vq, lib, todo>>
  BY DEF EngineEnter, EngineSettle, EngineClear, ApplyReset, ApplyDriverOk, Resume, ctrlVars
<1>2. handoverDst' \in BOOLEAN /\ pendingStart' \in BOOLEAN
  BY Zenon DEF EngineEnter, EngineSettle, EngineClear, ApplyReset, ApplyDriverOk, Resume,
     ctrlVars,
         QInv, QueueTypeInv
<1>3. \A t \in Threads \ {OE} : cur'[t] = cur[t]
  BY DEF EngineEnter, EngineSettle, EngineClear, ApplyReset, ApplyDriverOk, Resume, ctrlVars,
         IInv, TypeInv
<1>4. PICK l \in {"defer", "scan", "clear", "io", "reset", "start", "resume", "ipc"} :
        /\ Goto(OE, l)
        /\ handoverDst' => handoverDst
        /\ l \in {"defer", "reset", "start", "resume"} => ~handoverDst'
        /\ pendingStart' => pendingStart \/ ~handoverDst'
        /\ handoverDst' = handoverDst \/ pc[Main] = "parked"
  <2>1. CASE EngineEnter
    BY <2>1 DEF EngineEnter, QInv, SwitchInv
  <2>2. CASE EngineSettle \/ EngineClear
    BY <2>2 DEF EngineSettle, EngineClear, ctrlVars
  <2>3. CASE UpdatesReach /\ ApplyReset
    BY <2>3 DEF ApplyReset, UpdatesReach
  <2>4. CASE UpdatesReach /\ ApplyDriverOk(Queues)
    <3>1. ~handoverDst /\ UNCHANGED handoverDst
      BY <2>4 DEF ApplyDriverOk, UpdatesReach
    <3>2. CASE HasIntermediate
      <4>1. pc' = [pc EXCEPT ![OE] = "ipc"]
        BY <2>4, <3>2, ThreadFacts DEF ApplyDriverOk, At, IInv, TypeInv
      <4> QED BY <3>1, <4>1 DEF Goto
    <3>3. CASE ~HasIntermediate
      BY <2>4, <3>1, <3>3 DEF ApplyDriverOk
    <3> QED BY <3>2, <3>3
  <2>5. CASE pc[Main] = "parked" /\ Resume
    BY <2>5 DEF Resume
  <2> QED BY <2>1, <2>2, <2>3, <2>4, <2>5
<1>5. l \in Labels \ {"bound", "unbound"}
  BY DEF Labels, Inside
<1>6. SwitchInv'
  <2>1. pc'[Main] = pc[Main] /\ pc'[OE] = l
    BY <1>4, ThreadFacts DEF Goto, IInv, TypeInv
  <2> QED BY <1>4, <2>1 DEF QInv, SwitchInv
<1> QED BY <1>0, <1>1, <1>2, <1>3, <1>4, <1>5, <1>6, WalkKeeps, ThreadFacts

(* An IO thread begins the state change that ends its work on a queue. *)
LEMMA IoChangeKeeps ==
    ASSUME IInv, QInv, NEW c \in Ctxs, NEW q, NEW new \in {"RUNNING", "STOPPING"}, Works(c, q),
           SetState(c, q, new), todo[c] = NoState,
           UNCHANGED <<vq, pendingStart, handoverDst, cleaned, role>>,
           (pc[c] = "ioscan" /\ UNCHANGED pc) \/ Goto(c, "ioscan"),
           lib' \in [Queues -> LibStates],
           \A r \in Queues \ {q} : lib'[r] = lib[r],
           lib[q] # "none" => lib'[q] # "none"
    PROVE  QInv'
<1>1. pc'[c] = "ioscan" /\ \A u \in Threads \ {c} : pc'[u] = pc[u]
  BY ThreadFacts DEF IInv, TypeInv, Goto
<1>2. q \in Queues /\ state[q] \in LiveStates /\ new \in VqStates
  BY Zenon DEF Works, IoStates, LiveStates, VqStates
<1>3. ~cleaned => Live(q)
  BY Zenon, <1>2 DEF QInv, LiveInv
<1>4. Changes(c, q, new)
  BY <1>1, <1>2, <1>3 DEF Changes, SetState, QInv, QueueTypeInv, Live
<1>5. SwitchInv'
  BY <1>1, ThreadFacts DEF QInv, SwitchInv
<1>6. c = OE => OeTodoInv'
  <2>1. todo'[c] = new /\ cur'[c] = q /\ state' = state
    BY ThreadFacts DEF SetState, IInv, TypeInv, QInv, QueueTypeInv
  <2> QED BY Zenon, <2>1 DEF OeTodoInv, Works
<1>7. c # Main /\ c \in Threads
  BY ThreadFacts
<1>8. handoverDst' \in BOOLEAN /\ pendingStart' \in BOOLEAN
  BY DEF QInv, QueueTypeInv
<1> QED BY Zenon, <1>4, <1>5, <1>6, <1>7, <1>8, ChangesKeep

(* vblk_ctrl_io_context_progress. *)
LEMMA IoKeeps ==
    ASSUME IInv, QInv, NEW c \in Ctxs, IoEnter(c) \/ IoScan(c) \/ IoBound(c),
           UNCHANGED <<cleaned, role>>
    PROVE  QInv'
<1>0. handoverDst \in BOOLEAN /\ pendingStart \in BOOLEAN
  BY DEF QInv, QueueTypeInv
<1>1. CASE IoEnter(c)
  <2>1. Goto(c, "ioscan") /\ UNCHANGED <<ctrlVars, todo>> /\ todo[c] = NoState
    BY Zenon, <1>1 DEF IoEnter, At
  <2>2. \A t \in Threads \ {c} : cur'[t] = cur[t]
    BY <1>1 DEF IoEnter, IInv, TypeInv
  <2>3. "ioscan" \in Labels \ {"bound", "unbound"}
    BY DEF Labels, Inside
  <2>4. pc'[Main] = pc[Main] /\ pc'[OE] \in {pc[OE], "ioscan"}
    BY <2>1, ThreadFacts DEF Goto, IInv, TypeInv
  <2>5. SwitchInv'
    BY Zenon, <2>1, <2>4 DEF QInv, SwitchInv, ctrlVars
  <2> QED BY Zenon, <1>0, <2>1, <2>2, <2>3, <2>5, WalkKeeps DEF ctrlVars
<1>2. CASE IoBound(c)
  <2>1. PICK new \in {"RUNNING", "STOPPING"} : SetState(c, cur[c], new)
    BY Zenon, <1>2 DEF IoBound
  <2>2. Works(c, cur[c]) /\ todo[c] = NoState
    BY Zenon, <1>2 DEF IoBound, QInv, IoInv
  <2>3. Goto(c, "ioscan") /\ UNCHANGED <<vq, lib, pendingStart, handoverDst>>
    BY <1>2 DEF IoBound
  <2>4. lib' \in [Queues -> LibStates]
    BY <2>3 DEF QInv, QueueTypeInv
  <2> QED BY Zenon, <2>1, <2>2, <2>3, <2>4, IoChangeKeeps
<1>3. CASE IoScan(c)
  <2>1. pc[c] = "ioscan" /\ todo[c] = NoState
    BY <1>3 DEF IoScan, At
  <2>2. CASE LoopEnds(c, IoWork(c), IF c = OE THEN "ipc" ELSE "io")
    BY <2>1, <2>2, LoopEndKeeps
  <2>3. ASSUME NEW q \in FirstOf(c, IoWork(c)), IoBind(c, q) PROVE QInv'
    <3>1. Works(c, q) /\ q \in Queues
      BY DEF FirstOf, IoWork, Works, IoStates
    <3>2. /\ UNCHANGED <<state, vq, todo, pendingStart, handoverDst>>
          /\ cur'[c] = q /\ \A t \in Threads \ {c} : cur'[t] = cur[t]
      BY <2>3, ThreadFacts DEF IoBind, IInv, TypeInv
    <3>3. lib' \in [Queues -> LibStates] /\ \A r \in Queues : lib[r] # "none" => lib'[r] # "none"
      BY <2>3, <3>1 DEF IoBind, LibStates, QInv, QueueTypeInv
    <3>4. pc'[c] \in {"bound", "unbound"} /\ \A t \in Threads \ {c} : pc'[t] = pc[t]
      <4>1. Goto(c, "bound") \/ Goto(c, "unbound")
        BY Zenon, <2>3 DEF IoBind
      <4> QED BY <4>1, ThreadFacts DEF Goto, IInv, TypeInv
    <3>5. Quiet
      BY <1>0, <2>1, <3>1, <3>2, <3>3, <3>4, ThreadFacts
      DEF Quiet, Live, QInv, QueueTypeInv, IoInv, NoState
    <3>6. SwitchInv'
      BY Zenon, <3>2, <3>4, ThreadFacts DEF QInv, SwitchInv
    <3> QED BY <3>5, <3>6, QuietKeeps
  <2>4. ASSUME NEW q \in FirstOf(c, IoWork(c)), IoUnbind(c, q) PROVE QInv'
    <3>1. Works(c, q) /\ q \in Queues /\ q + 1 \in Int
      BY ThreadFacts DEF FirstOf, IoWork, Works, IoStates
    <3>2. CASE /\ lib' = [lib EXCEPT ![q] = "started"] /\ SetState(c, q, "STOPPING")
               /\ UNCHANGED <<vq, cfg, pendingStart, handoverDst, pc>>
      <4>1. /\ lib' \in [Queues -> LibStates] /\ \A r \in Queues \ {q} : lib'[r] = lib[r]
            /\ lib'[q] # "none"
        BY <3>1, <3>2 DEF LibStates, QInv, QueueTypeInv
      <4> QED BY Zenon, <2>1, <3>1, <3>2, <4>1, IoChangeKeeps
    <3>3. CASE /\ lib' = [lib EXCEPT ![q] = "disabling"] /\ cur' = [cur EXCEPT ![c] = q + 1]
               /\ UNCHANGED <<state, vq, pendingStart, handoverDst, pc, todo>>
      <4>1. /\ lib' \in [Queues -> LibStates]
            /\ \A r \in Queues : lib[r] # "none" => lib'[r] # "none"
            /\ \A t \in Threads \ {c} : cur'[t] = cur[t]
        BY <3>1, <3>3 DEF LibStates, QInv, QueueTypeInv, IInv, TypeInv
      <4>2. Quiet
        BY Zenon, <1>0, <2>1, <3>3, <4>1, ThreadFacts
      DEF Quiet, Live, QInv, QueueTypeInv, IoInv, NoState
      <4>3. SwitchInv'
        BY <3>3 DEF QInv, SwitchInv
      <4> QED BY <4>2, <4>3, QuietKeeps
    <3> QED BY <2>4, <3>2, <3>3 DEF IoUnbind
  <2> QED BY <1>3, <2>2, <2>3, <2>4 DEF IoScan
<1> QED BY <1>1, <1>2, <1>3

(* The queue work of a thread. *)
LEMMA QueueStepKeeps ==
    ASSUME IInv, QInv, NEW c \in Ctxs, QueueStep(c)
    PROVE  QInv'
<1>1. UNCHANGED <<cleaned, role>>
  BY DEF QueueStep, appVars
<1>2. CASE Store(c)
  BY <1>1, <1>2, StoreKeeps, ThreadFacts
<1>3. CASE IoEnter(c) \/ IoScan(c) \/ IoBound(c)
  BY <1>1, <1>3, IoKeeps
<1>4. CASE ResetVq \/ ResumeVq \/ StartVq("start", "ipc") \/ StartVq("defer", "scan")
  BY <1>1, <1>4, OeLoopKeeps
<1>5. CASE EngineEnter \/ EngineScan \/ EngineSettle \/ EngineClear
  BY <1>1, <1>5, EngineKeeps, EngineScanKeeps
<1> QED BY Zenon, <1>2, <1>3, <1>4, <1>5 DEF QueueStep

(* The steps that leave the queues alone: a thread goes elsewhere in its   *)
(* start-up, its loop or its shutdown.                                     *)
LEMMA ElsewhereKeeps ==
    ASSUME IInv, QInv, NEW c \in Ctxs,
           NEW l \in Labels \ {"bound", "unbound", "reset", "start", "defer", "resume"},
           Goto(c, l), UNCHANGED <<ctrlVars, cur, todo, role>>,
           pc[c] \notin {"start", "defer"}, cleaned => cleaned'
    PROVE  QInv'
<1>1. pc'[c] = l /\ \A t \in Threads \ {c} : pc'[t] = pc[t]
  BY ThreadFacts DEF Goto, IInv, TypeInv
<1>2. todo[OE] = "STARTING" => pc[OE] \in {"start", "defer"}
  BY DEF QInv, OeTodoInv, NoState
<1>3. Quiet
  BY <1>1, <1>2, ThreadFacts DEF Quiet, QInv, QueueTypeInv, Live, IoInv, ctrlVars
<1>4. SwitchInv'
  BY <1>1, ThreadFacts DEF QInv, SwitchInv, ctrlVars
<1> QED BY <1>3, <1>4, QuietKeeps

(* The start-up of an IO context thread. *)
LEMMA StartUpQueues ==
    ASSUME IInv, QInv, NEW c \in Ctxs, StartUp(c)
    PROVE  QInv'
<1>1. PICK l \in {"out", "init", "io", "waitready", "abort", "ipc", "waitpre"} :
        Goto(c, l) /\ pc[c] \in {"create", "init", "abort", "waitready", "waitpre"}
  <2>1. CASE IoWaitCreated(c) \/ IoInit(c)
    BY Zenon, <2>1 DEF IoWaitCreated, IoInit
  <2>2. CASE c = OE /\ (OeCreate \/ OeAbort)
    BY Zenon, <2>2 DEF OeCreate, OeAbort
  <2>3. CASE c = OE /\ (OeWaitReady \/ OeEnable)
    BY Zenon, <2>3 DEF OeWaitReady, OeEnable
  <2> QED BY <2>1, <2>2, <2>3 DEF StartUp
<1>2. UNCHANGED <<ctrlVars, cur, todo, role>> /\ (cleaned => cleaned')
  <2>1. UNCHANGED <<ctrlVars, cur, todo, role>>
    BY Zenon DEF StartUp, IoWaitCreated, IoInit, OeCreate, OeAbort, OeWaitReady, OeEnable, appVars
  <2>2. cleaned' = cleaned \/ cleaned' = TRUE
    BY Zenon DEF StartUp, IoWaitCreated, IoInit, OeCreate, OeAbort, OeWaitReady, OeEnable, appVars
  <2> QED BY <2>1, <2>2
<1>3. l \in Labels \ {"bound", "unbound", "reset", "start", "defer", "resume"}
  BY DEF Labels, Inside
<1> QED BY <1>1, <1>2, <1>3, ElsewhereKeeps

(* The progress loop: from part to part, an update, or BEGIN_ACK. *)
LEMMA LoopQueues ==
    ASSUME IInv, QInv, NEW c \in Ctxs, LoopStep(c) \/ (c = OE /\ (OeUpdate \/ OeResume))
    PROVE  QInv'
<1>1. CASE LoopStep(c)
  <2>1. PICK l \in {"shutdown", "engine", "io", "ipc"} :
          Goto(c, l) /\ pc[c] \in {"ipc", "engine", "io"}
    BY Zenon, <1>1 DEF LoopStep
  <2>2. UNCHANGED <<ctrlVars, cur, todo, role>> /\ (cleaned => cleaned')
    BY <1>1 DEF LoopStep, appVars
  <2>3. l \in Labels \ {"bound", "unbound", "reset", "start", "defer", "resume"}
    BY DEF Labels, Inside
  <2> QED BY <2>1, <2>2, <2>3, ElsewhereKeeps
<1>2. CASE OeUpdate
  BY <1>2, EngineKeeps DEF OeUpdate, appVars
<1>3. CASE OeResume
  BY <1>3, EngineKeeps DEF OeResume, appVars
<1> QED BY <1>1, <1>2, <1>3

(* The shutdown of an IO context thread. *)
LEMMA ShutdownQueues ==
    ASSUME IInv, QInv, NEW c \in Ctxs, ShutdownStep(c)
    PROVE  QInv'
<1>1. CASE ShutdownFault(c) \/ ThreadOut(c)
  <2>1. PICK l \in {"fault", "exited"} : Goto(c, l) /\ pc[c] \in {"shutdown", "out"}
    BY <1>1 DEF ShutdownFault, ThreadOut
  <2>2. UNCHANGED <<ctrlVars, cur, todo, role>> /\ (cleaned => cleaned')
    BY <1>1 DEF ShutdownFault, ThreadOut, appVars
  <2>3. l \in Labels \ {"bound", "unbound", "reset", "start", "defer", "resume"}
    BY DEF Labels, Inside
  <2> QED BY <2>1, <2>2, <2>3, ElsewhereKeeps
<1>2. CASE Shutdown(c) \/ (c = OE /\ OeCleanup)
  <2>1. PICK l \in {"waitexit", "out"} : Goto(c, l) /\ pc[c] \in {"shutdown", "waitexit"}
    BY <1>2 DEF Shutdown, OeCleanup
  <2>2. UNCHANGED <<state, pendingStart, handoverDst, cur, todo, role>>
    BY Zenon, <1>2 DEF Shutdown, OeCleanup, appVars
  <2>3. pc'[c] = l /\ \A t \in Threads \ {c} : pc'[t] = pc[t]
    BY <2>1, ThreadFacts DEF Goto, IInv, TypeInv
  <2>4. todo[OE] = "STARTING" => pc[OE] \in {"start", "defer"}
    BY Zenon DEF QInv, OeTodoInv, NoState
  <2>5. /\ vq' \in [Queues -> BOOLEAN] /\ lib' \in [Queues -> LibStates]
        /\ ~cleaned' => ~cleaned /\ \A q \in Queues : Live(q) => vq'[q] /\ lib'[q] # "none"
    <3>1. CASE Shutdown(c)
      BY <3>1 DEF Shutdown, appVars, QInv, QueueTypeInv, LibStates, Live
    <3>2. CASE OeCleanup
      BY <3>2 DEF OeCleanup, LibStates
    <3> QED BY <1>2, <3>1, <3>2
  <2>6. Quiet
    BY <2>1, <2>2, <2>3, <2>4, <2>5, ThreadFacts DEF Quiet, QInv, QueueTypeInv, IoInv
  <2>7. SwitchInv'
    BY <2>1, <2>2, <2>3, ThreadFacts DEF QInv, SwitchInv
  <2> QED BY <2>6, <2>7, QuietKeeps
<1> QED BY <1>1, <1>2 DEF ShutdownStep

(* The main thread.  It starts the queues of a destination before the OE   *)
(* thread may touch a queue that is DESTROYED.                             *)
LEMMA MainQueues ==
    ASSUME IInv, QInv, MainNext
    PROVE  QInv'
<1>0. todo[OE] = "STARTING" => pc[OE] \in {"start", "defer"}
  BY DEF QInv, OeTodoInv, NoState
<1>1. CASE MainSwitchover
  <2>0. UNCHANGED <<cleaned, role>> /\ pc[Main] \in {"startall", "awaitall", "awaitone"}
    BY <1>1 DEF MainSwitchover, appVars
  <2>1. CASE Store(Main)
    BY <2>0, <2>1, StoreKeeps, ThreadFacts
  <2>2. ASSUME NEW q \in FirstOf(Main, Queues), state[q] = "DESTROYED",
               SetState(Main, q, "STARTING"),
               At(Main, "startall"), UNCHANGED <<vq, lib, pendingStart, handoverDst, pc>>
        PROVE  QInv'
    <3>1. q \in Queues /\ todo[Main] = NoState /\ pc[Main] = "startall"
      BY <2>2 DEF FirstOf, At
    <3>2. Changes(Main, q, "STARTING")
      BY <2>0, <2>2, <3>1, ThreadFacts
      DEF Changes, SetState, QInv, QueueTypeInv, VqStates, LiveStates, Live
    <3>3. MainTodoInv'
      <4>1. todo'[Main] = "STARTING" /\ cur'[Main] = q /\ state' = state /\ pc' = pc
        BY <2>2, ThreadFacts DEF SetState, IInv, TypeInv, QInv, QueueTypeInv
      <4> QED BY Zenon, <2>2, <3>1, <4>1 DEF MainTodoInv
    <3>4. SwitchInv' /\ handoverDst' \in BOOLEAN /\ pendingStart' \in BOOLEAN
      BY <2>0, <2>2 DEF QInv, SwitchInv, QueueTypeInv
    <3> QED BY <3>2, <3>3, <3>4, ChangesKeep, ThreadFacts
  <2>3. ASSUME UNCHANGED <<ctrlVars, todo>>, todo[Main] = NoState \/ UNCHANGED cur,
               \A c \in Ctxs : cur'[c] = cur[c],
               UNCHANGED pc \/ \E l \in {"awaitall", "awaitone", "parked", "fault"} : Goto(Main, l),
               todo[Main] = NoState \/ pc'[Main] \in {pc[Main], "fault"}
        PROVE  QInv'
    <3>1. /\ \A c \in Ctxs : pc'[c] = pc[c]
          /\ pc'[Main] \in {"startall", "awaitall", "awaitone", "parked", "fault"}
      BY <2>0, <2>3, ThreadFacts DEF Goto, IInv, TypeInv
    <3>2. \A t \in Threads : todo[t] # NoState => cur'[t] = cur[t]
      BY <2>3, ThreadFacts
    <3>3. Quiet
      BY <2>0, <2>3, <3>1, <3>2, ThreadFacts DEF Quiet, QInv, QueueTypeInv, IoInv, ctrlVars, Live
    <3>4. SwitchInv'
      BY <2>0, <2>3, <3>1, ThreadFacts DEF QInv, SwitchInv, ctrlVars
    <3> QED BY <3>3, <3>4, QuietKeeps
  <2>4. CASE MainStartVq(Queues)
    <3>1. At(Main, "startall") /\ todo[Main] = NoState
      BY Zenon, <2>4 DEF MainStartVq, At
    <3>2. CASE LoopEnds(Main, Queues, "awaitall")
      <4>1. \A c \in Ctxs : cur'[c] = cur[c]
        BY <3>2, ThreadFacts DEF LoopEnds, IInv, TypeInv
      <4> QED BY Zenon, <2>3, <3>1, <3>2, <4>1 DEF LoopEnds
    <3>3. ASSUME NEW q \in FirstOf(Main, Queues),
                 cur' = [cur EXCEPT ![Main] = q + 1] /\ UNCHANGED <<ctrlVars, pc, todo>>
          PROVE  QInv'
      <4>1. \A c \in Ctxs : cur'[c] = cur[c]
        BY <3>3, ThreadFacts DEF IInv, TypeInv
      <4> QED BY <2>3, <3>1, <3>3, <4>1
    <3> QED BY <2>2, <2>4, <3>1, <3>2, <3>3 DEF MainStartVq
  <2>5. CASE MainAwaitVq \/ MainAwaited
    <3>1. todo[Main] = NoState /\ UNCHANGED <<ctrlVars, todo>>
      BY <2>5 DEF MainAwaitVq, MainAwaited, At
    <3>2. \A c \in Ctxs : cur'[c] = cur[c]
      BY <2>5, ThreadFacts DEF MainAwaitVq, MainAwaited, IInv, TypeInv
    <3>3. UNCHANGED pc \/ \E l \in {"awaitall", "awaitone", "parked", "fault"} : Goto(Main, l)
      BY <2>5 DEF MainAwaitVq, MainAwaited
    <3> QED BY <2>3, <3>1, <3>2, <3>3
  <2>6. CASE Goto(Main, "fault") /\ UNCHANGED <<ctrlVars, cur, todo>>
    <3>1. pc'[Main] = "fault"
      BY <2>6, ThreadFacts DEF Goto, IInv, TypeInv
    <3> QED BY <2>3, <2>6, <3>1
  <2> QED BY <1>1, <2>1, <2>4, <2>5, <2>6 DEF MainSwitchover
<1>2. CASE MainNext /\ ~MainSwitchover
  <2>1. UNCHANGED <<ctrlVars, todo, role, cleaned>>
    BY Zenon, <1>2 DEF MainNext, MainCreateThread, MainWaitReady, MainExport, MainPreEnable,
                MainWaitEnabled, MainForceQuit, MainJoin, appVars
  <2>2. /\ pc[Main] \in {"threads", "ioready", "export", "preenable", "enabled", "forcequit",
                         "parked", "join"}
        /\ todo[Main] = NoState
    <3>1. pc[Main] \in {"threads", "ioready", "export", "preenable", "enabled", "forcequit",
                        "parked", "join"}
      BY Zenon, <1>2 DEF MainNext, MainCreateThread, MainWaitReady, MainExport, MainPreEnable,
                  MainWaitEnabled, MainForceQuit, MainJoin
    <3> QED BY <3>1 DEF QInv, MainTodoInv
  <2>3. \A c \in Ctxs : cur'[c] = cur[c]
    BY Zenon, <1>2, ThreadFacts DEF MainNext, MainCreateThread, MainWaitReady, MainExport, MainPreEnable,
                MainWaitEnabled, MainForceQuit, MainJoin, IInv, TypeInv
  <2>4. /\ \A c \in Ctxs : pc'[c] = pc[c] \/ (pc[c] = "none" /\ pc'[c] = "create")
        /\ \/ pc'[Main] \in {"threads", "ioready", "export", "preenable", "enabled", "forcequit", "join"}
              /\ pc[Main] # "parked"
           \/ pc'[Main] = "startall" /\ pc[Main] = "enabled" /\ role = "DST"
           \/ pc'[Main] = "done"
    <3>1. CASE MainCreateThread
      <4>1. pc[Main] = "threads" /\ cur[Main] \in Int
        BY <3>1, ThreadFacts DEF MainCreateThread, IInv, TypeInv
      <4>2. CASE Goto(Main, "forcequit") \/ Goto(Main, "ioready")
        BY <4>1, <4>2, ThreadFacts DEF Goto, IInv, TypeInv
      <4>3. CASE cur[Main] < NumIoCtx /\ pc' = [pc EXCEPT ![cur[Main]] = "create"]
        <5>1. \A c \in Ctxs : c >= cur[Main] => pc[c] = "none"
          BY <4>1 DEF IInv, ThreadsInv
        <5>2. cur[Main] # Main
          BY <4>1, <4>3, VblkQueuesAssumption DEF Main
        <5> QED BY <4>1, <4>3, <5>1, <5>2, ThreadFacts DEF IInv, TypeInv
      <4> QED BY <3>1, <4>2, <4>3 DEF MainCreateThread
    <3>2. CASE MainWaitReady \/ MainExport \/ MainPreEnable
      BY <3>2, ThreadFacts DEF MainWaitReady, MainExport, MainPreEnable, Goto, IInv, TypeInv
    <3>3. CASE MainWaitEnabled
      <4>1. PICK l \in {"join", "startall", "forcequit"} :
              Goto(Main, l) /\ pc[Main] = "enabled" /\ (l = "startall" => role = "DST")
        BY Zenon, <3>3 DEF MainWaitEnabled
      <4> QED BY <4>1, ThreadFacts DEF Goto, IInv, TypeInv
    <3>4. CASE MainForceQuit \/ MainJoin
      BY <3>4, ThreadFacts DEF MainForceQuit, MainJoin, Goto, IInv, TypeInv
    <3> QED BY <1>2, <3>1, <3>2, <3>3, <3>4 DEF MainNext
  <2>5. Quiet
    BY Zenon, <1>0, <2>1, <2>2, <2>3, <2>4, ThreadFacts
    DEF Quiet, QInv, QueueTypeInv, IoInv, ctrlVars, Live
  <2>6. SwitchInv'
    BY <2>1, <2>2, <2>4, ThreadFacts DEF QInv, SwitchInv, ctrlVars
  <2> QED BY <2>5, <2>6, QuietKeeps
<1> QED BY <1>1, <1>2

(* A thread that is in the middle of nothing: the initial states. *)
LEMMA InitQueues == Init => QInv
<1> SUFFICES ASSUME Init PROVE QInv
  OBVIOUS
<1>1. QueueTypeInv
  BY Zenon, VblkEmulatorAssumption DEF Init, QueueInit, QueueTypeInv, VqStates, LibStates, NoState
<1>2. \A t \in Threads : todo[t] = NoState
  BY DEF Init, QueueInit
<1>3. pc[Main] = "threads" /\ \A c \in Ctxs : pc[c] = "none"
  BY ThreadFacts DEF Init
<1>4. IoInv /\ OeTodoInv /\ MainTodoInv
  BY <1>2, <1>3, ThreadFacts DEF IoInv, OeTodoInv, MainTodoInv
<1>5. SwitchInv
  BY Zenon, <1>3, ThreadFacts DEF SwitchInv, Init, QueueInit
<1>6. LiveInv
  BY <1>2 DEF LiveInv, Init, QueueInit, LiveStates, NoState
<1> QED BY <1>1, <1>4, <1>5, <1>6 DEF QInv

(* Every step of every thread keeps what the others rely on. *)
LEMMA NextQueues == IInv /\ QInv /\ [Next]_vars => QInv'
<1> SUFFICES ASSUME IInv, QInv, [Next]_vars PROVE QInv'
  OBVIOUS
<1>1. CASE MainNext
  BY <1>1, MainQueues
<1>2. ASSUME NEW c \in Ctxs, ThreadStep(c) PROVE QInv'
  BY <1>2, StartUpQueues, LoopQueues, QueueStepKeeps, ShutdownQueues DEF ThreadStep
<1>3. CASE OeUpdate \/ OeResume
  BY <1>3, LoopQueues, ThreadFacts
<1>4. ASSUME UNCHANGED <<state, vq, pendingStart, handoverDst, pc, cur, todo, role, cleaned>>,
             lib' \in [Queues -> LibStates], \A q \in Queues : lib[q] # "none" => lib'[q] # "none"
      PROVE  QInv'
  <2>1. Quiet
    BY Zenon, <1>4 DEF Quiet, QInv, QueueTypeInv, IoInv, Live
  <2>2. SwitchInv'
    BY <1>4 DEF QInv, SwitchInv
  <2> QED BY <2>1, <2>2, QuietKeeps
<1>5. ASSUME NEW q \in Queues, Drained(q) PROVE QInv'
  <2>1. lib' \in [Queues -> LibStates] /\ \A r \in Queues : lib[r] # "none" => lib'[r] # "none"
    BY <1>5 DEF Drained, LibDisabled, QInv, QueueTypeInv, LibStates
  <2> QED BY <1>4, <1>5, <2>1 DEF Drained, LibDisabled, appVars
<1>6. CASE Sigterm \/ Terminated \/ UNCHANGED vars
  BY Zenon, <1>4, <1>6 DEF Sigterm, Terminated, vars, appVars, queueVars, ctrlVars, QInv,
     QueueTypeInv
<1> QED BY <1>1, <1>2, <1>3, <1>5, <1>6 DEF Next

(* The engine destroys no queue that an IO thread can still use, for every *)
(* number of queues and IO contexts and whatever fails: a queue that is    *)
(* parked, being bound, running or being unbound has its library object.   *)
THEOREM QueuesStayLive == Spec => []IoOnLiveQueue
<1>1. QInv => IoOnLiveQueue
  BY Zenon DEF QInv, LiveInv, LiveStates, Live, IoOnLiveQueue
<1> QED BY <1>1, InitInv, NextInv, InitQueues, NextQueues, PTL DEF Spec
=============================================================================
