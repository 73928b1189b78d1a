----------------------------- MODULE WorkerAsync -----------------------------
(***************************************************************************)
(* The one-slot mailbox through which the main thread of every storage     *)
(* application drives a worker thread (control_worker_async.hpp), together *)
(* with the worker's control loop (thread_proc) and the way the main       *)
(* thread joins it (join_thread_proc).                                     *)
(*                                                                         *)
(* A command is a local variable of its issuer: it exists only while the   *)
(* issuer is inside execute_worker_command.  Commands are numbered in the  *)
(* order in which they are issued; 0 is the null pointer.  The result of a *)
(* command is the number of the command that produced it, 0 standing for   *)
(* the initial DOCA_ERROR_UNKNOWN.                                         *)
(***************************************************************************)
EXTENDS Integers, Sequences

CONSTANTS
    MaxCommands,    \* bound on the commands issued before the join
    PromptWorker    \* TRUE: a thread in its control loop answers within the 3 s

ASSUME CommandsAssumption == MaxCommands \in Nat
ASSUME PromptAssumption == PromptWorker \in BOOLEAN

VARIABLES
    m_lock,          \* m_lock is held across steps, which only the worker does
    m_command,       \* m_command: number of the posted command, 0 = nullptr
    m_result,        \* m_result: number of the command it is the result of
    m_result_valid,  \* m_result_valid
    run_flag,        \* hot_data.run_flag
    app,             \* where the main thread is
    issued,          \* the types of the commands issued so far
    ret,             \* what the last call returned: a result or TIME_OUT
    worker,          \* where the worker thread is
    wcmd             \* the worker's local cmd

mailbox == <<m_command, m_result, m_result_valid>>
vars == <<m_lock, mailbox, run_flag, app, issued, ret, worker, wcmd>>

TIME_OUT == -1
Types == {"configure", "start_data_path", "abort_thread"}

IsAbort(c) == issued[c] = "abort_thread"
IsStart(c) == issued[c] = "start_data_path"

(* The main thread is inside execute_worker_command: its command exists. *)
InCall == app \in {"check", "sleep"}

(* The worker still looks at the mailbox. *)
InControlLoop == worker \in {"init", "control", "execute"}

Init ==
    /\ m_lock = FALSE
    /\ m_command = 0
    /\ m_result = 0
    /\ m_result_valid = FALSE
    /\ run_flag = FALSE
    /\ app = "idle"
    /\ issued = << >>
    /\ ret = 0
    /\ worker = "init"
    /\ wcmd = 0

-----------------------------------------------------------------------------
(* The main thread *)

execute_async_stale_valid(cmd) ==      \* mutant: the old answer stays valid
    /\ m_result' = 0
    /\ m_result_valid' = m_result_valid
    /\ m_command' = cmd

execute_async(cmd) ==
    /\ m_result' = 0
    /\ m_result_valid' = FALSE
    /\ m_command' = cmd

(* lock(); execute_async(cmd); unlock(): a short critical section. *)
Post(type) ==
    /\ ~m_lock
    /\ issued' = Append(issued, type)
    /\ execute_async(Len(issued) + 1)
    /\ app' = "check"
    /\ UNCHANGED <<m_lock, run_flag, ret, worker, wcmd>>

(* Any command the application sends before the join. After a successful   *)
(* start_data_path it sends no other.                                      *)
IssueCommand ==
    /\ app = "idle"
    /\ Len(issued) < MaxCommands
    /\ \A c \in DOMAIN issued : ~IsStart(c)
    /\ \E type \in Types \ {"abort_thread"} : Post(type)

(* execute_worker_command returns r: to the application, or to             *)
(* join_thread_proc, which goes on to m_thread.join().                     *)
Return(r) ==
    /\ ret' = r
    /\ app' = IF IsAbort(Len(issued)) THEN "joining" ELSE "idle"

(* lock(); has_result(); get_result(); unlock(). *)
CheckResult ==
    /\ app = "check"
    /\ ~m_lock
    /\ IF m_result_valid THEN Return(m_result)
                         ELSE app' = "sleep" /\ UNCHANGED ret
    /\ UNCHANGED <<m_lock, mailbox, run_flag, issued, worker, wcmd>>

(* The sleep ends and the expiry time has not passed: look again. *)
WakeUp ==
    /\ app = "sleep"
    /\ app' = "check"
    /\ UNCHANGED <<m_lock, mailbox, run_flag, issued, ret, worker, wcmd>>

Expire_renewed ==                      \* mutant: the expiry time is renewed on each look
    /\ app = "sleep"
    /\ app' = "check"
    /\ UNCHANGED <<m_lock, mailbox, run_flag, issued, ret, worker, wcmd>>

(* The expiry time has passed. The mailbox keeps the pointer to cmd. *)
Expire ==
    /\ app = "sleep"
    /\ PromptWorker => ~InControlLoop
    /\ Return(TIME_OUT)
    /\ UNCHANGED <<m_lock, mailbox, run_flag, issued, worker, wcmd>>

(* join_thread_proc, called by the application or by the destructor. *)
join_thread_proc ==
    /\ app = "idle"
    /\ app' = IF run_flag THEN "joining" ELSE "abort"
    /\ run_flag' = FALSE
    /\ UNCHANGED <<m_lock, mailbox, issued, ret, worker, wcmd>>

SendAbort == app = "abort" /\ Post("abort_thread")

Joined ==
    /\ app = "joining"
    /\ worker = "exited"
    /\ app' = "joined"
    /\ UNCHANGED <<m_lock, mailbox, run_flag, issued, ret, worker, wcmd>>

-----------------------------------------------------------------------------
(* The worker thread *)

(* Affinity and hot_data are set up, run_flag is cleared. *)
WorkerStart ==
    /\ worker = "init"
    /\ worker' = "control"
    /\ run_flag' = FALSE
    /\ UNCHANGED <<m_lock, mailbox, app, issued, ret, wcmd>>

(* lock(); get_command(); an abort_thread unlocks and leaves the thread    *)
(* without an answer, any other command runs with the lock held.           *)
TakeCommand ==
    /\ worker = "control"
    /\ ~m_lock
    /\ m_command # 0
    /\ IF IsAbort(m_command)
         THEN worker' = "exited" /\ UNCHANGED <<m_lock, wcmd>>
         ELSE worker' = "execute" /\ m_lock' = TRUE /\ wcmd' = m_command
    /\ UNCHANGED <<mailbox, run_flag, app, issued, ret>>

set_result_keep_command(result) ==     \* mutant: the pointer is kept
    /\ m_command' = m_command
    /\ m_result' = result
    /\ m_result_valid' = TRUE

set_result(result) ==
    /\ m_command' = 0
    /\ m_result' = result
    /\ m_result_valid' = TRUE

(* execute_control_command_impl: every command ends in set_result, whether *)
(* it threw or not; start_data_path raises run_flag and ends the loop.     *)
execute_control_command_impl ==
    /\ worker = "execute"
    /\ set_result(wcmd)
    /\ m_lock' = FALSE
    /\ wcmd' = 0
    /\ IF IsStart(wcmd) THEN worker' = "run" /\ run_flag' = TRUE
                        ELSE worker' = "control" /\ UNCHANGED run_flag
    /\ UNCHANGED <<app, issued, ret>>

(* A completion callback met an error and clears run_flag. *)
DataPathError ==
    /\ worker = "run"
    /\ run_flag
    /\ run_flag' = FALSE
    /\ UNCHANGED <<m_lock, mailbox, app, issued, ret, worker, wcmd>>

(* while (run_flag) progress; then the thread ends. *)
run_data_path_ops ==
    /\ worker = "run"
    /\ ~run_flag
    /\ worker' = "exited"
    /\ UNCHANGED <<m_lock, mailbox, run_flag, app, issued, ret, wcmd>>

-----------------------------------------------------------------------------
AppStep == CheckResult \/ WakeUp \/ Expire \/ SendAbort \/ Joined
WorkerStep == WorkerStart \/ TakeCommand \/ execute_control_command_impl \/ run_data_path_ops

Done == app = "joined" /\ UNCHANGED vars

Next == IssueCommand \/ join_thread_proc \/ AppStep \/ WorkerStep \/ DataPathError \/ Done

(* Both threads keep being scheduled, a wait cannot renew itself for ever  *)
(* (Expire), and a mutex that is free again and again is obtained.         *)
Fairness ==
    /\ WF_vars(WorkerStart) /\ SF_vars(TakeCommand)
    /\ WF_vars(execute_control_command_impl) /\ WF_vars(run_data_path_ops)
    /\ SF_vars(CheckResult) /\ WF_vars(WakeUp) /\ SF_vars(Expire)
    /\ SF_vars(SendAbort) /\ WF_vars(Joined)

Spec == Init /\ [][Next]_vars
FairSpec == Spec /\ Fairness

-----------------------------------------------------------------------------
(* Properties *)

(* The mailbox holds one command, valid or not, and the flags and program  *)
(* points of both threads keep their types.                                *)
TypeOK ==
    /\ m_lock \in BOOLEAN
    /\ m_command \in 0 .. Len(issued)
    /\ m_result \in 0 .. Len(issued)
    /\ m_result_valid \in BOOLEAN
    /\ run_flag \in BOOLEAN
    /\ app \in {"idle", "check", "sleep", "abort", "joining", "joined"}
    /\ issued \in Seq(Types)
    /\ Len(issued) <= MaxCommands + 1
    /\ ret \in {TIME_OUT} \cup (0 .. Len(issued))
    /\ worker \in {"init", "control", "execute", "run", "exited"}
    /\ wcmd \in 0 .. Len(issued)

(* What execute_worker_command returns is TIME_OUT or the result of the    *)
(* very command it was given: never DOCA_ERROR_UNKNOWN, and never the late *)
(* answer to an earlier command that timed out.                            *)
ResultIsOwn ==
    app = "idle" => ret \in {TIME_OUT, Len(issued)}

(* As long as the worker answers within the time limit, it runs a command  *)
(* only while the issuer, whose stack holds it, is still waiting.          *)
CommandIsAlive ==
    (PromptWorker /\ worker = "execute") => (InCall /\ wcmd = Len(issued))

(* Every call of execute_worker_command returns, and so does               *)
(* join_thread_proc, from every state of the worker: it is still starting, *)
(* waits for commands, runs the data path, or has already ended.           *)
CallsReturn ==
    /\ InCall ~> ~InCall
    /\ (app \in {"abort", "joining"}) ~> (app = "joined")
=============================================================================
