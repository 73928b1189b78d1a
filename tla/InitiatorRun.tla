---------------------------- MODULE InitiatorRun ----------------------------
(***************************************************************************)
(* run() of the initiator's main thread (initiator_comch.cpp), which       *)
(* starts the workers, polls their run_flag until none is set, and then    *)
(* reads the error flag and the statistics of each, while the workers are  *)
(* still free to execute. Only run_flag is atomic; a worker writes it and  *)
(* the fields around it one after the other.                               *)
(***************************************************************************)
EXTENDS Integers, FiniteSets

CONSTANTS
    N,          \* workers, one per core
    Ops,        \* target_transaction_count
    WorkersFail \* TRUE if a data path can meet an error

ASSUME RunAssumption == N \in Nat \ {0} /\ Ops \in Nat \ {0} /\ WorkersFail \in BOOLEAN

Workers == 1 .. N

VARIABLES
    run_flag, error_flag,   \* per worker
    completed,              \* per worker: completed_transaction_count
    end_time,               \* per worker: end_time has been set
    worker,                 \* per worker: where its thread is
    main,                   \* where run() is
    at,                     \* worker it looks at next
    running,                \* running_workers of the current poll
    operation_count,        \* m_stats.operation_count
    ended_count,            \* workers whose end_time was set when it was tallied
    result                  \* what run() returned

wvars == <<run_flag, error_flag, completed, end_time, worker>>
mvars == <<main, at, running, operation_count, ended_count, result>>
vars == <<wvars, mvars>>

Init ==
    /\ run_flag = [w \in Workers |-> FALSE]
    /\ error_flag = [w \in Workers |-> FALSE]
    /\ completed = [w \in Workers |-> 0]
    /\ end_time = [w \in Workers |-> FALSE]
    /\ worker = [w \in Workers |-> "control"]
    /\ main = "start"
    /\ at = 1
    /\ running = 0
    /\ operation_count = 0
    /\ ended_count = 0
    /\ result = "none"

-----------------------------------------------------------------------------
(* run() *)

(* Go to the next worker, or after the last one to the stage `next`. *)
Advance(next) ==
    IF at < N THEN at' = at + 1 /\ UNCHANGED main ELSE at' = 1 /\ main' = next

(* The start_data_path command of worker `at`, which answers it. *)
StartWorker ==
    /\ main = "start"
    /\ worker' = [worker EXCEPT ![at] = "run"]
    /\ run_flag' = [run_flag EXCEPT ![at] = TRUE]
    /\ Advance("poll")
    /\ UNCHANGED <<error_flag, completed, end_time, running, operation_count, ended_count, result>>

is_thread_proc_running(w) == run_flag[w]

CountRunning ==
    /\ main = "poll"
    /\ running' = running + IF is_thread_proc_running(at) THEN 1 ELSE 0
    /\ Advance("decide")
    /\ UNCHANGED <<wvars, operation_count, ended_count, result>>

Decide_early ==                        \* mutant: the last running worker is not waited for
    /\ main = "decide"
    /\ running' = 0
    /\ main' = IF running <= 1 THEN "check" ELSE "poll"
    /\ UNCHANGED <<wvars, at, operation_count, ended_count, result>>

Decide_never ==                        \* mutant: the count is carried over to the next poll
    /\ main = "decide"
    /\ main' = IF running = 0 THEN "check" ELSE "decide"
    /\ UNCHANGED <<wvars, at, running, operation_count, ended_count, result>>

Decide ==
    /\ main = "decide"
    /\ running' = 0
    /\ main' = IF running = 0 THEN "check" ELSE "poll"
    /\ UNCHANGED <<wvars, at, operation_count, ended_count, result>>

encountered_errors(w) == error_flag[w]

CheckErrors ==
    /\ main = "check"
    /\ IF encountered_errors(at)
         THEN main' = "returned" /\ result' = "failed" /\ UNCHANGED at
         ELSE Advance("tally") /\ UNCHANGED result
    /\ UNCHANGED <<wvars, running, operation_count, ended_count>>

(* get_stats of worker `at`, added up. *)
Tally ==
    /\ main = "tally"
    /\ operation_count' = operation_count + completed[at]
    /\ ended_count' = ended_count + IF end_time[at] THEN 1 ELSE 0
    /\ Advance("returned")
    /\ result' = IF at = N THEN "success" ELSE result
    /\ UNCHANGED <<wvars, running>>

-----------------------------------------------------------------------------
(* The end of progress_transaction of worker w *)

(* A transaction completes; the last one clears run_flag. *)
CompleteTransaction(w) ==
    /\ worker[w] = "run"
    /\ completed[w] < Ops
    /\ completed' = [completed EXCEPT ![w] = @ + 1]
    /\ IF completed[w] + 1 = Ops
         THEN /\ run_flag' = [run_flag EXCEPT ![w] = FALSE]
              /\ worker' = [worker EXCEPT ![w] = "finish"]
         ELSE UNCHANGED <<run_flag, worker>>
    /\ UNCHANGED <<error_flag, end_time, mvars>>

(* ... and then stores end_time. *)
SetEndTime(w) ==
    /\ worker[w] = "finish"
    /\ end_time' = [end_time EXCEPT ![w] = TRUE]
    /\ worker' = [worker EXCEPT ![w] = "exited"]
    /\ UNCHANGED <<run_flag, error_flag, completed, mvars>>

(* An error clears run_flag first, and then sets error_flag. The thread    *)
(* goes on.                                                                *)
ClearRunFlag(w) ==
    /\ WorkersFail
    /\ worker[w] = "run"
    /\ run_flag' = [run_flag EXCEPT ![w] = FALSE]
    /\ worker' = [worker EXCEPT ![w] = "fail"]
    /\ UNCHANGED <<error_flag, completed, end_time, mvars>>

SetErrorFlag(w) ==
    /\ worker[w] = "fail"
    /\ error_flag' = [error_flag EXCEPT ![w] = TRUE]
    /\ worker' = [worker EXCEPT ![w] = "run"]
    /\ UNCHANGED <<run_flag, completed, end_time, mvars>>

WorkerStep(w) == CompleteTransaction(w) \/ SetEndTime(w) \/ ClearRunFlag(w) \/ SetErrorFlag(w)

MainStep == StartWorker \/ CountRunning \/ Decide \/ CheckErrors \/ Tally

Done == main = "returned" /\ UNCHANGED vars

Next == MainStep \/ (\E w \in Workers : WorkerStep(w)) \/ Done

(* The main thread runs, and a worker without an error goes on completing. *)
Fairness ==
    /\ WF_vars(MainStep)
    /\ \A w \in Workers :
         /\ WF_vars(CompleteTransaction(w) /\ ~error_flag[w])
         /\ WF_vars(SetEndTime(w)) /\ WF_vars(SetErrorFlag(w))

Spec == Init /\ [][Next]_vars
FairSpec == Spec /\ Fairness

-----------------------------------------------------------------------------
(* Properties *)

AllGood == \A w \in Workers : ~error_flag[w] /\ worker[w] # "fail"

(* When no worker meets an error, run() returns true only after every      *)
(* transaction of every worker, and its tally counts them all. It reports  *)
(* a failure only if a worker met one: no field that is written late makes *)
(* a good run look bad.                                                    *)
ResultIsTrue ==
    /\ (AllGood /\ result = "success") => operation_count = N * Ops
    /\ result = "failed" => \E w \in Workers : error_flag[w]

(* run() returns, whether the workers finish or fail. *)
RunReturns == <>(main = "returned")

(* encountered_errors: "false if the thread was started and ran to         *)
(* completion without error, true otherwise".                              *)
ErrorsReported ==
    result = "success" => \A w \in Workers : worker[w] \in {"finish", "exited"} /\ ~error_flag[w]

(* end_time: "Timestamp for when the last transaction completes to avoid   *)
(* counting thread destruction time in the execution time" - the tally of  *)
(* a good run has it from every worker.                                    *)
EndTimesTallied == (AllGood /\ result = "success") => ended_count = N
=============================================================================
