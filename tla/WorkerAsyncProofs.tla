-------------------------- MODULE WorkerAsyncProofs --------------------------
(***************************************************************************)
(* Proofs about WorkerAsync, for any number of commands and whether or not *)
(* the worker is prompt.                                                   *)
(***************************************************************************)
EXTENDS WorkerAsync, TLAPS

(* The lock is held exactly while a command runs, and that command is the  *)
(* one in the mailbox.                                                     *)
LockInv ==
    /\ m_lock <=> worker = "execute"
    /\ worker = "execute" => (m_command # 0 /\ wcmd = m_command)

(* The mailbox is about the last command issued: it is either still there, *)
(* or was answered and the answer is valid.                                *)
MailboxInv ==
    /\ m_command \in {0, Len(issued)}
    /\ m_result_valid => (m_command = 0 /\ m_result = Len(issued))

(* Only the abort of the join goes beyond MaxCommands. *)
CountInv ==
    /\ InCall => Len(issued) > 0
    /\ Len(issued) > MaxCommands =>
         /\ issued[Len(issued)] = "abort_thread"
         /\ app \notin {"idle", "abort"}

(* A prompt worker leaves no command behind in the mailbox. *)
AliveInv ==
    (PromptWorker /\ m_command # 0 /\ InControlLoop) => InCall

IInv == TypeOK /\ LockInv /\ MailboxInv /\ CountInv /\ AliveInv /\ ResultIsOwn

(* An empty mailbox satisfies the invariant.                               *)
LEMMA InitInv == Init => IInv
<1> SUFFICES ASSUME Init PROVE IInv
  OBVIOUS
<1>1. issued \in Seq(Types) /\ Len(issued) = 0
  BY DEF Init
<1>2. TypeOK
  <2>1. m_lock \in BOOLEAN /\ m_result_valid \in BOOLEAN /\ run_flag \in BOOLEAN
    BY Zenon DEF Init
  <2> QED BY <1>1, <2>1, CommandsAssumption DEF Init, TypeOK
<1>3. LockInv /\ MailboxInv /\ CountInv /\ AliveInv /\ ResultIsOwn
  BY <1>1, CommandsAssumption
     DEF Init, LockInv, MailboxInv, CountInv, AliveInv, ResultIsOwn, InCall
<1> QED BY <1>2, <1>3 DEF IInv

(* What issuing a command does to the sequence of commands. *)
LEMMA AppendFacts ==
    ASSUME NEW S, NEW s \in Seq(S), NEW e \in S
    PROVE  /\ Append(s, e) \in Seq(S)
           /\ Len(Append(s, e)) = Len(s) + 1
           /\ Append(s, e)[Len(s) + 1] = e
           /\ Len(s) \in Nat
OBVIOUS

(* Posting a command, from execute_async, keeps the invariant.             *)
LEMMA PostInv ==
    ASSUME IInv, NEW type \in Types, Post(type),
           \/ app = "idle" /\ Len(issued) < MaxCommands
           \/ app = "abort" /\ type = "abort_thread"
    PROVE  IInv'
<1> DEFINE n == Len(issued)
<1> USE CommandsAssumption
<1>1. /\ issued' \in Seq(Types)
      /\ Len(issued') = n + 1
      /\ issued'[n + 1] = type
      /\ n \in Nat
  BY AppendFacts DEF IInv, TypeOK, Post
<1>2. n <= MaxCommands
  BY <1>1 DEF IInv, CountInv
<1>3. TypeOK'
  <2>1. (m_lock \in BOOLEAN /\ m_result_valid \in BOOLEAN /\ run_flag \in BOOLEAN)'
    BY Zenon DEF IInv, TypeOK, Post, execute_async
  <2> QED BY <1>1, <1>2, <2>1 DEF IInv, TypeOK, Post, execute_async
<1>4. LockInv'
  BY DEF IInv, LockInv, Post
<1>5. MailboxInv'
  BY <1>1 DEF Post, execute_async, MailboxInv
<1>6. CountInv'
  BY <1>1, <1>2 DEF Post, CountInv, InCall
<1>7. AliveInv' /\ ResultIsOwn'
  BY DEF Post, AliveInv, ResultIsOwn, InCall
<1> QED BY <1>3, <1>4, <1>5, <1>6, <1>7 DEF IInv

(* Every critical section of either thread keeps the invariant.            *)
LEMMA NextInv == IInv /\ [Next]_vars => IInv'
<1> SUFFICES ASSUME IInv, [Next]_vars PROVE IInv'
  OBVIOUS
<1> USE CommandsAssumption DEF IInv
<1>0. Len(issued) \in Nat
  BY DEF TypeOK
<1>1. CASE IssueCommand
  BY <1>1, PostInv DEF IssueCommand
<1>2. CASE SendAbort
  BY <1>2, PostInv DEF SendAbort, Types
<1>3. CASE CheckResult
  BY <1>0, <1>3 DEF CheckResult, Return, mailbox, TypeOK, LockInv, MailboxInv, CountInv,
     AliveInv, ResultIsOwn, InCall, InControlLoop, IsAbort
<1>4. CASE WakeUp
  BY <1>4 DEF WakeUp, mailbox, TypeOK, LockInv, MailboxInv, CountInv, AliveInv, ResultIsOwn,
     InCall, InControlLoop
<1>5. CASE Expire
  BY <1>0, <1>5 DEF Expire, Return, mailbox, TypeOK, LockInv, MailboxInv, CountInv, AliveInv,
     ResultIsOwn, InCall, InControlLoop, IsAbort
<1>6. CASE join_thread_proc
  BY Zenon, <1>6 DEF join_thread_proc, mailbox, TypeOK, LockInv, MailboxInv, CountInv, AliveInv,
     ResultIsOwn, InCall, InControlLoop
<1>7. CASE Joined
  BY <1>7 DEF Joined, mailbox, TypeOK, LockInv, MailboxInv, CountInv, AliveInv, ResultIsOwn,
     InCall, InControlLoop
<1>8. CASE WorkerStart
  BY Zenon, <1>8 DEF WorkerStart, mailbox, TypeOK, LockInv, MailboxInv, CountInv, AliveInv,
     ResultIsOwn, InCall, InControlLoop
<1>9. CASE TakeCommand
  BY Zenon, <1>9 DEF TakeCommand, mailbox, TypeOK, LockInv, MailboxInv, CountInv, AliveInv,
     ResultIsOwn, InCall, InControlLoop
<1>10. CASE execute_control_command_impl
  <2>1. worker' \in {"run", "control"} /\ UNCHANGED <<app, issued, ret>> /\ run_flag' \in BOOLEAN
    BY Zenon, <1>10 DEF execute_control_command_impl, TypeOK
  <2>2. /\ m_lock' = FALSE /\ wcmd' = 0
        /\ m_command' = 0 /\ m_result' = Len(issued) /\ m_result_valid' = TRUE
    BY <1>10 DEF execute_control_command_impl, set_result, LockInv, MailboxInv
  <2>3. TypeOK'
    <3>1. (m_lock \in BOOLEAN /\ m_result_valid \in BOOLEAN)'
      BY Zenon, <2>2
    <3> QED BY <1>0, <2>1, <2>2, <3>1 DEF TypeOK
  <2> QED
    BY <2>1, <2>2, <2>3 DEF LockInv, MailboxInv, CountInv, AliveInv, ResultIsOwn, InCall
<1>11. CASE run_data_path_ops
  BY <1>11 DEF run_data_path_ops, mailbox, TypeOK, LockInv, MailboxInv, CountInv, AliveInv,
     ResultIsOwn, InCall, InControlLoop
<1>12. CASE DataPathError
  BY Zenon, <1>12 DEF DataPathError, mailbox, TypeOK, LockInv, MailboxInv, CountInv, AliveInv,
     ResultIsOwn, InCall, InControlLoop
<1>13. CASE UNCHANGED vars
  BY <1>13 DEF vars, mailbox, TypeOK, LockInv, MailboxInv, CountInv, AliveInv, ResultIsOwn,
     InCall, InControlLoop
<1> QED
  BY <1>1, <1>2, <1>3, <1>4, <1>5, <1>6, <1>7, <1>8, <1>9, <1>10, <1>11, <1>12, <1>13
     DEF Next, AppStep, WorkerStep, Done

(* The inductive invariant holds in every behaviour of the mailbox.        *)
LEMMA Invariance == Spec => []IInv
BY InitInv, NextInv, PTL DEF Spec

(* The mailbox, the threads and the lock keep their types: at most one     *)
(* command more than MaxCommands, the abort, is ever issued.               *)
THEOREM TypeCorrect == Spec => []TypeOK
BY Invariance, PTL DEF IInv

(* execute_worker_command returns TIME_OUT or the result of its own        *)
(* command, however late an earlier command was answered.                  *)
THEOREM ResultsAreOwn == Spec => []ResultIsOwn
BY Invariance, PTL DEF IInv

(* A worker that answers in time never runs a command whose issuer has     *)
(* gone.                                                                   *)
THEOREM CommandsAreAlive == Spec => []CommandIsAlive
<1>1. IInv => CommandIsAlive
  BY DEF IInv, LockInv, MailboxInv, AliveInv, CommandIsAlive, InControlLoop
<1> QED BY <1>1, Invariance, PTL
=============================================================================
