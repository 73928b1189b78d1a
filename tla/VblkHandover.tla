---------------------------- MODULE VblkHandover ----------------------------
(***************************************************************************)
(* Live update of the virtio-blk emulator: the TLP process, which owns the *)
(* PCI function, spawns and watches emulator processes and forwards the    *)
(* host's state; the emulator that serves (SRC) hands the device over to a *)
(* newer one (DST).  They exchange datagrams over Unix sockets bound to    *)
(* well-known paths (vblk_ipc.c).  An emulator may crash at any time, a    *)
(* datagram to a path nobody is bound to is lost, and an engine call may   *)
(* fail.  The threads and queues inside an emulator are VblkEmulator's     *)
(* concern: here its queues are one value, and its main and OE threads are *)
(* kept apart only where they share the handover's state.                  *)
(***************************************************************************)
EXTENDS Integers, Sequences

CONSTANTS
    MaxPids,        \* how many emulator processes are ever spawned
    MaxUpdates,     \* how many live updates are triggered
    MaxFaults       \* how many crashes and failing calls happen

ASSUME VblkHandoverAssumption ==
    MaxPids \in Nat \ {0} /\ MaxUpdates \in Nat /\ MaxFaults \in Nat

Pids == 1 .. MaxPids
None == 0
TLP == 0

VARIABLES
    emu,            \* the emulator processes
    inbox,          \* datagrams waiting in the socket of each process
    bound,          \* path -> the process whose socket is bound to it
    tlp,            \* struct tlp_state and where the mgmt thread is
    updates,        \* live updates triggered so far
    faults,         \* crashes and failures so far
    mishap          \* history: SETUP found no source, or BEGIN_ACK was handled
                    \* before the main thread had recorded BEGIN

vars == <<emu, inbox, bound, tlp, updates, faults, mishap>>

(* An emulator: proc is its life, role, phase and desc are vblk_ho_ctx's,  *)
(* engine and vqs the offload engine and all the queues, main the main     *)
(* thread of a destination, path what closing the endpoint unlinks.        *)
Unborn == [proc |-> "unborn", role |-> "SRC", phase |-> "IDLE", desc |-> None,
           engine |-> "off", vqs |-> "none", main |-> "none", path |-> "",
           bin |-> "old"]

Init ==
    /\ emu = [p \in Pids |-> IF p = 1 THEN [Unborn EXCEPT !.proc = "start"]
                             ELSE Unborn]
    /\ inbox = [p \in Pids \cup {TLP} |-> <<>>]
    /\ bound = [path \in {"SRC", "DST"} |-> None]
    /\ tlp = [src |-> 1, dst |-> None, lu |-> FALSE, awaiting |-> FALSE,
              desc |-> None, bin |-> "old", pc |-> "src"]
    /\ updates = 0 /\ faults = 0 /\ mishap = FALSE

Alive(p) == emu[p].proc \notin {"unborn", "dead", "reaped"}

(* sendto: lost unless a living process's socket is bound to the path. *)
Sent(box, path, msgs) ==
    IF bound[path] # None /\ Alive(bound[path])
    THEN [box EXCEPT ![bound[path]] = @ \o msgs] ELSE box
ToTlp(box, m) == [box EXCEPT ![TLP] = Append(@, m)]
Popped(p) == [inbox EXCEPT ![p] = Tail(@)]
Msg(type) == [type |-> type]
Desc(d) == [type |-> "EXPORT_DESC", desc |-> d]
Recovery(d) == [type |-> "RECOVERY_STATE", desc |-> d]

(* Some fields of process p change: those of record r. *)
Set(p, r) ==
    emu' = [emu EXCEPT ![p] =
              [f \in DOMAIN @ |-> IF f \in DOMAIN r THEN r[f] ELSE @[f]]]

PeerPath(p) == IF emu[p].role = "SRC" THEN "DST" ELSE "SRC"

(* A call of the library fails, or a process crashes. *)
Fault == faults < MaxFaults /\ faults' = faults + 1

(* vblk_ipc_ep_close as the last thing a process does. *)
Unlinked(p) == [path \in {"SRC", "DST"} |->
                  IF path = emu[p].path THEN None ELSE bound[path]]

(* A process returns from vblk_pci_dev_emu_run. *)
Exits(p) ==
    /\ emu' = [emu EXCEPT ![p].proc = "dead", ![p].engine = "off"]
    /\ bound' = Unlinked(p)
    /\ inbox' = [inbox EXCEPT ![p] = <<>>]

-----------------------------------------------------------------------------
(* Start-up of a source. *)

(* The endpoint is opened and the state is requested from the TLP process. *)
SrcStart(p) ==
    /\ emu[p].proc = "start" /\ emu[p].role = "SRC"
    /\ Set(p, [proc |-> "request", path |-> "SRC"])
    /\ bound' = [bound EXCEPT !["SRC"] = p]
    /\ inbox' = ToTlp(inbox, Msg("STATE_REQUEST"))
    /\ UNCHANGED <<tlp, updates, faults, mishap>>

SrcInitialState_desc(p) ==                      \* mutant: an empty descriptor is waited for
    /\ emu[p].proc = "request" /\ emu[p].role = "SRC" /\ inbox[p] # <<>>
    /\ LET m == Head(inbox[p]) IN
         CASE m.type = "RECOVERY_STATE" /\ m.desc # None ->
                Set(p, [desc |-> m.desc])
           [] m.type = "STATE_UPDATE" /\ emu[p].desc # None ->
                Set(p, [proc |-> "boot"])
           [] OTHER -> UNCHANGED emu
    /\ inbox' = Popped(p)
    /\ UNCHANGED <<bound, tlp, updates, faults, mishap>>

(* emu_request_initial_state: everything but the two answers is dropped,   *)
(* and so is an empty descriptor.                                          *)
SrcInitialState(p) ==
    /\ emu[p].proc = "request" /\ emu[p].role = "SRC" /\ inbox[p] # <<>>
    /\ LET m == Head(inbox[p]) IN
         CASE m.type = "RECOVERY_STATE" /\ m.desc # None -> Set(p, [desc |-> m.desc])
           [] m.type = "STATE_UPDATE" -> Set(p, [proc |-> "boot"])
           [] OTHER -> UNCHANGED emu
    /\ inbox' = Popped(p)
    /\ UNCHANGED <<bound, tlp, updates, faults, mishap>>

(* Five seconds without an answer (EMU_INITIAL_STATE_TIMEOUT_MS). *)
SrcTimeout(p) ==
    /\ emu[p].proc = "request" /\ emu[p].role = "SRC" /\ inbox[p] = <<>>
    /\ Fault
    /\ Exits(p)
    /\ UNCHANGED <<tlp, updates, mishap>>

(* The controller is created, from the recovery descriptor if there is     *)
(* one; otherwise its own state is exported to the TLP process.  Then it   *)
(* is enabled and the state is requested again.                            *)
SrcBoot(p) ==
    /\ emu[p].proc = "boot" /\ emu[p].role = "SRC"
    /\ Set(p, [proc |-> "run", engine |-> "on", vqs |-> "running",
               desc |-> IF emu[p].desc = None THEN p ELSE emu[p].desc])
    /\ LET exported == IF emu[p].desc = None THEN <<Desc(p)>> ELSE <<>> IN
         inbox' = [inbox EXCEPT ![TLP] = @ \o exported
                                           \o <<Msg("STATE_REQUEST")>>]
    /\ UNCHANGED <<bound, tlp, updates, faults, mishap>>

BootFails(p) ==
    /\ emu[p].proc = "boot"
    /\ Fault
    /\ Exits(p)
    /\ UNCHANGED <<tlp, updates, mishap>>

-----------------------------------------------------------------------------
(* Start-up of a destination. *)

(* SETUP is sent once: it is lost when no source is bound yet, and dropped *)
(* by a source that still waits for its own initial state.                 *)
SourceListens ==
    bound["SRC"] # None /\ emu[bound["SRC"]].proc \in {"boot", "run"}

DstStart(p) ==
    /\ emu[p].proc = "start" /\ emu[p].role = "DST"
    /\ Set(p, [proc |-> "request", phase |-> "SETUP", path |-> "DST"])
    /\ bound' = [bound EXCEPT !["DST"] = p]
    /\ inbox' = Sent(inbox, "SRC", <<Msg("HO_SETUP")>>)
    /\ mishap' = (mishap \/ ~SourceListens)
    /\ UNCHANGED <<tlp, updates, faults>>

(* vblk_ho_dst_get_initial_state: a loop that only GET_STATE_ACK, for      *)
(* which memory is needed, or GET_STATE_NACK ends.                         *)
DstInitialState(p) ==
    /\ emu[p].proc = "request" /\ emu[p].role = "DST"
    /\ emu[p].phase # "FAILED" /\ inbox[p] # <<>>
    /\ LET m == Head(inbox[p]) IN
         \/ /\ m.type = "HO_SETUP_ACK"
            /\ Set(p, [phase |-> "WAIT_DEVICE"])
            /\ inbox' = ToTlp(Popped(p), Msg("HO_INITIATE_ACK"))
            /\ UNCHANGED faults
         \/ /\ m.type = "HO_DEVICE"
            /\ Set(p, [phase |-> "GET_STATE"])
            /\ inbox' = Sent(Popped(p), "SRC", <<Msg("HO_GET_STATE")>>)
            /\ UNCHANGED faults
         \/ /\ m.type = "HO_GET_STATE_ACK"
            /\ Set(p, [phase |-> "SWITCHOVER", proc |-> "boot"])
            /\ inbox' = Popped(p)
            /\ UNCHANGED faults
         \/ /\ \/ m.type = "HO_GET_STATE_ACK" /\ Fault
               \/ m.type = "HO_GET_STATE_NACK" /\ UNCHANGED faults
            /\ Set(p, [phase |-> "FAILED"])
            /\ inbox' = Popped(p)
         \/ /\ m.type \notin {"HO_SETUP_ACK", "HO_DEVICE", "HO_GET_STATE_ACK",
                              "HO_GET_STATE_NACK"}
            /\ inbox' = Popped(p) /\ UNCHANGED <<emu, faults>>
    /\ UNCHANGED <<bound, tlp, updates, mishap>>

DstFailed(p) ==
    /\ emu[p].proc = "request" /\ emu[p].phase = "FAILED"
    /\ Exits(p)
    /\ UNCHANGED <<tlp, updates, faults, mishap>>

(* The controller is created without enabling it and exported, and         *)
(* vblk_ho_dst_begin_switchover parks the queues and sends BEGIN.          *)
DstBegin(p) ==
    /\ emu[p].proc = "boot" /\ emu[p].role = "DST"
    /\ Set(p, [proc |-> "run", desc |-> p, vqs |-> "parked", main |-> "begun"])
    /\ inbox' = Sent(inbox, "SRC", <<Msg("HO_BEGIN")>>)
    /\ UNCHANGED <<bound, tlp, updates, faults, mishap>>

(* Its last statement, on the main thread: the phase is set after BEGIN    *)
(* was sent, whatever the OE thread has done since.                        *)
DstBegun(p) ==
    /\ emu[p].proc = "run" /\ emu[p].main = "begun"
    /\ Set(p, [main |-> "join", phase |-> "SWITCHOVER"])
    /\ mishap' = (mishap \/ emu[p].phase # "SWITCHOVER")
    /\ UNCHANGED <<inbox, bound, tlp, updates, faults>>

-----------------------------------------------------------------------------
(* emu_ipc_poll on the OE thread: vblk_ho_process_msg for each datagram.   *)

Reply(p, m) == Sent(Popped(p), PeerPath(p), <<Msg(m)>>)

SrcSetup(p) ==
    /\ Set(p, [phase |-> "WAIT_DEVICE"])
    /\ inbox' = Reply(p, "HO_SETUP_ACK")
    /\ UNCHANGED faults

SrcGetState(p) ==
    \/ /\ emu[p].desc # None
       /\ Set(p, [phase |-> "SWITCHOVER"])
       /\ inbox' = Reply(p, "HO_GET_STATE_ACK")
       /\ UNCHANGED faults
    \/ /\ emu[p].desc = None
       /\ Set(p, [phase |-> "FAILED"])
       /\ inbox' = Reply(p, "HO_GET_STATE_NACK")
       /\ UNCHANGED faults
    \/ /\ emu[p].desc # None
       /\ Fault                                \* no memory for the answer
       /\ Set(p, [phase |-> "FAILED"])
       /\ inbox' = Popped(p)

SrcBegin_eager(p) ==                            \* mutant: acknowledged while draining
    /\ Set(p, [phase |-> "CLEANUP", engine |-> "draining"])
    /\ inbox' = Reply(p, "HO_BEGIN_ACK")
    /\ UNCHANGED faults

(* The engine is disabled at once, is draining, or cannot be disabled; the *)
(* library refuses to disable one that is not enabled.                     *)
SrcBegin(p) ==
    \/ /\ emu[p].engine # "off"
       /\ Set(p, [phase |-> "CLEANUP", engine |-> "off"])
       /\ inbox' = Reply(p, "HO_BEGIN_ACK")
       /\ UNCHANGED faults
    \/ /\ emu[p].engine # "off"
       /\ Set(p, [phase |-> "SRC_DRAINING", engine |-> "draining"])
       /\ inbox' = Popped(p)
       /\ UNCHANGED faults
    \/ /\ IF emu[p].engine = "off" THEN UNCHANGED faults ELSE Fault
       /\ Set(p, [phase |-> "FAILED"])
       /\ inbox' = Reply(p, "HO_BEGIN_NACK")

(* END with success, or a roll back that enables the engine again. *)
SrcEnd(p, success) ==
    \/ /\ success
       /\ Set(p, [phase |-> "DONE"])
       /\ inbox' = Reply(p, "HO_END_ACK")
       /\ UNCHANGED faults
    \/ /\ ~success
       /\ Set(p, [phase |-> "IDLE", engine |-> "on"])
       /\ inbox' = Reply(p, "HO_END_ACK")
       /\ UNCHANGED faults
    \/ /\ ~success
       /\ Fault
       /\ Set(p, [phase |-> "IDLE"])
       /\ inbox' = Reply(p, "HO_END_NACK")

DstBeginAck_success(p) ==                       \* mutant: END tells of success anyway
    \/ /\ Set(p, [phase |-> "DST_RESUMING", engine |-> "on", vqs |-> "binding"])
       /\ inbox' = Popped(p)
       /\ UNCHANGED faults
    \/ /\ Fault
       /\ Set(p, [phase |-> "CLEANUP"])
       /\ inbox' = Reply(p, "HO_END_SUCCESS")

(* The engine is enabled and the parked queues go on, or END is sent with  *)
(* failure.                                                                *)
DstBeginAck(p) ==
    \/ /\ Set(p, [phase |-> "DST_RESUMING", engine |-> "on", vqs |-> "binding"])
       /\ inbox' = Popped(p)
       /\ UNCHANGED faults
    \/ /\ Fault
       /\ Set(p, [phase |-> "CLEANUP"])
       /\ inbox' = Reply(p, "HO_END_FAIL")

(* Whether the source ended or rolled back, END_ACK completes the handover. *)
DstEndAck(p) ==
    /\ Set(p, [phase |-> "DONE"])
    /\ inbox' = ToTlp(Popped(p), Msg("HO_DEVICE_ACK"))
    /\ UNCHANGED faults

SrcHandle(p, type) ==
    \/ type = "HO_SETUP" /\ SrcSetup(p)
    \/ type = "HO_GET_STATE" /\ SrcGetState(p)
    \/ type = "HO_BEGIN" /\ SrcBegin(p)
    \/ type = "HO_END_SUCCESS" /\ SrcEnd(p, TRUE)
    \/ type = "HO_END_FAIL" /\ SrcEnd(p, FALSE)

DstHandle(p, type) ==
    \/ type = "HO_BEGIN_ACK" /\ DstBeginAck(p)
    \/ type = "HO_END_ACK" /\ DstEndAck(p)
    \/ /\ type \in {"HO_BEGIN_NACK", "HO_END_NACK"}
       /\ Set(p, [phase |-> "FAILED"])
       /\ inbox' = Popped(p)
       /\ UNCHANGED faults

SrcMsgs == {"HO_SETUP", "HO_GET_STATE", "HO_BEGIN", "HO_END_SUCCESS",
            "HO_END_FAIL"}
DstMsgs == {"HO_BEGIN_ACK", "HO_BEGIN_NACK", "HO_END_ACK", "HO_END_NACK"}

EmuRecv(p) ==
    /\ emu[p].proc = "run" /\ inbox[p] # <<>>
    /\ LET type == Head(inbox[p]).type IN
         \/ emu[p].role = "SRC" /\ SrcHandle(p, type)
         \/ emu[p].role = "DST" /\ DstHandle(p, type)
         \/ /\ type \notin IF emu[p].role = "SRC" THEN SrcMsgs ELSE DstMsgs
            /\ inbox' = Popped(p) /\ UNCHANGED <<emu, faults>>
    /\ UNCHANGED <<bound, tlp, updates, mishap>>

EmuPoll_resuming(p) ==                          \* mutant: a draining source is not polled
    /\ emu[p].proc = "run" /\ inbox[p] = <<>>
    /\ emu[p].phase = "DST_RESUMING" /\ emu[p].vqs = "running"
    /\ Set(p, [phase |-> "CLEANUP"])
    /\ inbox' = Sent(inbox, PeerPath(p), <<Msg("HO_END_SUCCESS")>>)
    /\ UNCHANGED <<bound, tlp, updates, faults, mishap>>

(* vblk_ho_poll, once the socket is empty. *)
EmuPoll(p) ==
    /\ emu[p].proc = "run" /\ inbox[p] = <<>>
    /\ \/ /\ emu[p].phase = "SRC_DRAINING" /\ emu[p].engine = "off"
          /\ Set(p, [phase |-> "CLEANUP"])
          /\ inbox' = Sent(inbox, PeerPath(p), <<Msg("HO_BEGIN_ACK")>>)
       \/ /\ emu[p].phase = "DST_RESUMING" /\ emu[p].vqs = "running"
          /\ Set(p, [phase |-> "CLEANUP"])
          /\ inbox' = Sent(inbox, PeerPath(p), <<Msg("HO_END_SUCCESS")>>)
    /\ UNCHANGED <<bound, tlp, updates, faults, mishap>>

(* A source that is done quits, and leaves its path to the destination. *)
SrcDone(p) ==
    /\ emu[p].proc = "run" /\ inbox[p] = <<>>
    /\ emu[p].role = "SRC" /\ emu[p].phase = "DONE"
    /\ Set(p, [proc |-> "quit", path |-> ""])
    /\ UNCHANGED <<inbox, bound, tlp, updates, faults, mishap>>

(* emu_dst_rebind_as_src: a new socket on the source's path. *)
DstRebind(p) ==
    /\ emu[p].proc = "run" /\ inbox[p] = <<>>
    /\ emu[p].role = "DST" /\ emu[p].phase = "DONE"
    /\ Set(p, [role |-> "SRC", phase |-> "IDLE", path |-> "SRC"])
    /\ bound' = [Unlinked(p) EXCEPT !["SRC"] = p]
    /\ inbox' = ToTlp(inbox, Desc(emu[p].desc))
    /\ UNCHANGED <<tlp, updates, faults, mishap>>

EmuExit(p) ==
    /\ emu[p].proc = "quit"
    /\ Exits(p)
    /\ UNCHANGED <<tlp, updates, faults, mishap>>

(* External: the library finishes draining the engine, or the IO threads   *)
(* bind the queues (VblkEmulator).                                         *)
EngineDrained(p) ==
    /\ Alive(p) /\ emu[p].engine = "draining"
    /\ Set(p, [engine |-> "off"])
    /\ UNCHANGED <<inbox, bound, tlp, updates, faults, mishap>>

QueuesRun(p) ==
    /\ emu[p].proc = "run" /\ emu[p].vqs = "binding"
    /\ Set(p, [vqs |-> "running"])
    /\ UNCHANGED <<inbox, bound, tlp, updates, faults, mishap>>

(* The path of a process that crashed stays bound to its dead socket. *)
Crash(p) ==
    /\ Alive(p)
    /\ Fault
    /\ emu' = [emu EXCEPT ![p].proc = "dead", ![p].engine = "off"]
    /\ inbox' = [inbox EXCEPT ![p] = <<>>]
    /\ UNCHANGED <<bound, tlp, updates, mishap>>

-----------------------------------------------------------------------------
(* The management thread of the TLP process, one part of its loop a step.  *)

NextPid == {p \in Pids : emu[p].proc = "unborn"
                         /\ \A r \in Pids : emu[r].proc = "unborn" => p <= r}

Spawn(role, bin) == [Unborn EXCEPT !.proc = "start", !.role = role, !.bin = bin]

Dead(p) == p # None /\ emu[p].proc = "dead"

Finalized_bin ==                                \* mutant: the binary is not recorded
    [tlp EXCEPT !.src = tlp.dst, !.dst = None, !.lu = FALSE]

(* finalize_live_update. *)
Finalized ==
    [tlp EXCEPT !.src = tlp.dst, !.dst = None, !.lu = FALSE,
                !.bin = IF tlp.desc # None THEN "new" ELSE @]

(* mgmt_check_src_child: during a live update the exit of the source is    *)
(* taken for the end of the handover (finalize_live_update); otherwise the *)
(* source is spawned again, on a new socket of the TLP process.            *)
CheckSrc ==
    /\ tlp.pc = "src"
    /\ \/ /\ ~Dead(tlp.src)
          /\ tlp' = [tlp EXCEPT !.pc = "dst"]
          /\ UNCHANGED <<emu, inbox>>
       \/ /\ Dead(tlp.src) /\ tlp.lu
          /\ emu' = [emu EXCEPT ![tlp.src].proc = "reaped"]
          /\ tlp' = [Finalized EXCEPT !.pc = "dst"]
          /\ UNCHANGED inbox
       \/ /\ Dead(tlp.src) /\ ~tlp.lu
          /\ \/ \E p \in NextPid :
                  /\ emu' = [emu EXCEPT ![tlp.src].proc = "reaped",
                                        ![p] = Spawn("SRC", tlp.bin)]
                  /\ tlp' = [tlp EXCEPT !.pc = "dst", !.src = p]
             \/ /\ NextPid = {}                      \* posix_spawn fails
                /\ emu' = [emu EXCEPT ![tlp.src].proc = "reaped"]
                /\ tlp' = [tlp EXCEPT !.pc = "dst", !.src = None]
          /\ inbox' = [inbox EXCEPT ![TLP] = <<>>]
    /\ UNCHANGED <<bound, updates, faults, mishap>>

CheckDst ==
    /\ tlp.pc = "dst"
    /\ IF Dead(tlp.dst)
       THEN /\ emu' = [emu EXCEPT ![tlp.dst].proc = "reaped"]
            /\ tlp' = [tlp EXCEPT !.pc = "poll", !.dst = None, !.lu = FALSE]
       ELSE /\ tlp' = [tlp EXCEPT !.pc = "poll"]
            /\ UNCHANGED emu
    /\ UNCHANGED <<inbox, bound, updates, faults, mishap>>

(* tlp_poll_ipc_msgs. *)
TlpRecv ==
    /\ tlp.pc = "poll" /\ inbox[TLP] # <<>>
    /\ LET m == Head(inbox[TLP]) IN
         \/ /\ m.type = "STATE_REQUEST"
            /\ inbox' = Sent(Popped(TLP), "SRC",
                             <<Recovery(tlp.desc), Msg("STATE_UPDATE")>>)
            /\ UNCHANGED tlp
         \/ /\ m.type = "EXPORT_DESC"
            /\ tlp' = [tlp EXCEPT !.desc = m.desc]
            /\ inbox' = Popped(TLP)
         \/ /\ m.type = "HO_INITIATE_ACK"
            /\ tlp' = [tlp EXCEPT !.awaiting = FALSE]
            /\ inbox' = IF tlp.awaiting
                        THEN Sent(Popped(TLP), "DST", <<Msg("HO_DEVICE")>>)
                        ELSE Popped(TLP)
         \/ /\ m.type = "HO_DEVICE_ACK"
            /\ inbox' = Popped(TLP)
            /\ UNCHANGED tlp
    /\ UNCHANGED <<emu, bound, updates, faults, mishap>>

(* start_live_update, when the operator left the trigger file. *)
Trigger ==
    /\ tlp.pc = "poll" /\ inbox[TLP] = <<>>
    /\ \/ /\ tlp' = [tlp EXCEPT !.pc = "src"]
          /\ UNCHANGED <<emu, updates>>
       \/ /\ ~tlp.lu /\ updates < MaxUpdates
          /\ updates' = updates + 1
          /\ \E p \in NextPid :
               /\ emu' = [emu EXCEPT ![p] = Spawn("DST", "new")]
               /\ tlp' = [tlp EXCEPT !.pc = "src", !.dst = p, !.lu = TRUE,
                                     !.awaiting = TRUE]
    /\ UNCHANGED <<inbox, bound, faults, mishap>>

TlpNext == CheckSrc \/ CheckDst \/ TlpRecv \/ Trigger

EmuStep(p) ==
    \/ SrcStart(p) \/ SrcInitialState(p) \/ SrcBoot(p)
    \/ DstStart(p) \/ DstInitialState(p) \/ DstFailed(p) \/ DstBegin(p)
    \/ DstBegun(p)
    \/ EmuRecv(p) \/ EmuPoll(p) \/ SrcDone(p) \/ DstRebind(p) \/ EmuExit(p)

EmuFault(p) == SrcTimeout(p) \/ BootFails(p) \/ Crash(p)

Library(p) == EngineDrained(p) \/ QueuesRun(p)

Next ==
    \/ TlpNext
    \/ \E p \in Pids : EmuStep(p) \/ Library(p) \/ EmuFault(p)

(* Every process keeps running and the library finishes what it started;   *)
(* nothing obliges the operator or the faults.                             *)
Fairness ==
    /\ WF_vars(TlpNext)
    /\ \A p \in Pids : WF_vars(EmuStep(p)) /\ WF_vars(Library(p))
    /\ \A p \in Pids : WF_vars(DstBegun(p))

Spec == Init /\ [][Next]_vars /\ Fairness

-----------------------------------------------------------------------------
Serving(p) == emu[p].engine # "off"

(* No two emulators drive the device at once, whatever crashes or fails    *)
(* and whichever datagrams are lost.                                       *)
OneServer == \A p, r \in Pids : Serving(p) /\ Serving(r) => p = r

(* A source leaves the device (phase DONE, then quit) only after another   *)
(* emulator has taken it over, unless that one has died since.             *)
NoGap ==
    \A p \in Pids :
        emu[p].role = "SRC" /\ emu[p].phase = "DONE" /\ Alive(p) =>
            /\ ~Serving(p)
            /\ \E r \in Pids \ {p} : Serving(r) \/ emu[r].proc \in {"dead", "reaped"}

(* Between live updates, and if nothing failed, what the TLP process knows *)
(* of the source is right. The emulator it takes for the source is the one *)
(* its state updates reach, from the moment it acts as source: the exit of *)
(* the old source does not unlink the path the new one is bound to. And    *)
(* what it would recover with belongs together: the exported descriptor    *)
(* and the binary that exported it.                                        *)
SourceKnown ==
    faults = 0 /\ ~tlp.lu /\ emu[tlp.src].role = "SRC" =>
      /\ emu[tlp.src].proc = "run" => bound["SRC"] = tlp.src
      /\ tlp.desc # None /\ inbox[TLP] = <<>> => tlp.bin = emu[tlp.desc].bin

(* A live update ends if nothing fails, the source is up when it starts    *)
(* and the main thread of the destination records BEGIN before the answer  *)
(* is handled.                                                             *)
UpdateEnds == tlp.lu ~> (~tlp.lu \/ faults > 0 \/ mishap)

(* A source that dies outside a live update is replaced by one that        *)
(* serves, unless that one fails too, no process can be spawned, or a live *)
(* update is triggered before its death is noticed.                        *)
ServiceRestored ==
    \A n \in 1 .. MaxFaults :
        (faults = n /\ ~tlp.lu /\ tlp.dst = None /\ Dead(tlp.src))
            ~> \/ \E p \in Pids : Serving(p)
               \/ faults > n \/ NextPid = {} \/ tlp.lu
=============================================================================
