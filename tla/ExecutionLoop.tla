--------------------------- MODULE ExecutionLoop ---------------------------
(***************************************************************************)
(* The processes behind the search.  The root process forks an execution   *)
(* process per execution (take_snapshot), which forks the processes of the *)
(* program (main in init.cc) and reaps them; the program's processes pass  *)
(* the token and the last one to leave resets the shared state and decides *)
(* whether there is a next execution (finish_execution), which the root    *)
(* then starts (wait_for_next_execution).  Processes may die.              *)
(*                                                                         *)
(* Inside an execution only the token is kept here (see Scheduler), and of *)
(* the search only whether it has another execution (see NodeStack).       *)
(***************************************************************************)
EXTENDS Integers, FiniteSets

CONSTANTS
    NProc,          \* -n: number of processes
    MaxExecution,   \* MAX_EXECUTION
    MaxRuns,        \* bound: executions the search may have
    StartNums       \* execution numbers to start from: 1, or what set_state returned

ASSUME LoopAssumption ==
    /\ NProc \in Nat \ {0}
    /\ MaxExecution \in Nat
    /\ MaxRuns \in Nat
    /\ StartNums \subseteq Int

Proc == 0 .. NProc - 1

VARIABLES
    \* the root process
    root,           \* where it is in main and take_snapshot
    num,            \* its local execution_num
    progc,          \* number of -f options; processes id % progc share one
    \* the execution process
    exec,           \* where it is in main
    forked,         \* children forked, pids[0 .. forked-1]
    \* the processes of the program
    child,          \* child[p]
    token,          \* the process of the active thread
    left,           \* processes whose threads are all completed or crashed
    \* shared memory
    execution_num,
    rollback_again,
    data,           \* "fresh" after a reset, "used" once an execution ran
    \* the search
    remaining,      \* executions left after the current one
    \* history
    starts,         \* executions started
    advances,       \* nodestack->reset_execution calls
    faults          \* what went wrong: see Fault

rootVars  == <<root, num, progc>>
execVars  == <<exec, forked>>
childVars == <<child, token, left>>
shVars    == <<execution_num, rollback_again, data, remaining>>
histVars  == <<starts, advances, faults>>
vars      == <<rootVars, execVars, childVars, shVars, histVars>>

Root  == {"options", "mapping", "fork", "waitpid", "next", "terminate", "done", "failed",
          "killed"}
Exec  == {"none", "map", "fork", "reap", "exit_ok", "exit_fail", "signalled"}

(* init: before user_init is through; run: in the program or waiting for   *)
(* the token; linger: completed for the scheduler, but alive in            *)
(* Scheduler::wait; zombies carry how they ended until reaped; missing:    *)
(* fork failed, pids[p] is -1.                                             *)
Child == {"none", "init", "run", "linger", "exited", "signalled", "dead", "missing"}

(* stuck: a process left without passing the token (DEADLOCK, exit() with  *)
(* other threads running, a failure before atexit) or never came to take   *)
(* it (fork failed); signal: one was killed; killed_exec: the execution    *)
(* process was.                                                            *)
Fault == {"stuck", "signal", "killed_exec"}

Busy(p)  == child[p] \in {"init", "run"}
Alive(p) == Busy(p) \/ child[p] = "linger"

(* The processes the scheduler can pass the token to: until they have run  *)
(* finish_execution they are THREAD_RUNNING, even before they are forked.  *)
Present == Proc \ left

-----------------------------------------------------------------------------
(* The root process: main up to take_snapshot.                             *)

(* A -f option: the program is loaded and its three entry points are found *)
(* or CXLMC exits.  Bound: at most one option too many.                    *)
LoadProgram ==
    /\ root = "options"
    /\ progc <= NProc
    /\ \/ progc' = progc + 1 /\ UNCHANGED root
       \/ root' = "failed" /\ UNCHANGED progc
    /\ UNCHANGED <<num, execVars, childVars, shVars, histVars>>

(* All options are read.                                                   *)
CheckOptions ==
    /\ root = "options"
    /\ root' = IF NProc < 1 \/ progc = 0 \/ progc > NProc THEN "failed" ELSE "mapping"
    /\ UNCHANGED <<num, progc, execVars, childVars, shVars, histVars>>

(* A loaded search starts with another number: what set_state returned.    *)
LoadNodestack == execution_num' \in StartNums

(* The shared mapping, the space on it, Scheduler and Model; then          *)
(* take_snapshot begins.                                                   *)
CreateModel ==
    /\ root = "mapping"
    /\ \/ root' = "failed" /\ UNCHANGED <<num, execution_num>>
       \/ root' = "fork" /\ LoadNodestack /\ num' = execution_num'
    /\ UNCHANGED <<progc, execVars, childVars, rollback_again, data, remaining, histVars>>

-----------------------------------------------------------------------------
(* take_snapshot.                                                          *)

ForkExecution ==
    /\ root = "fork"
    /\ root' = "waitpid"
    /\ exec' = "map"
    /\ forked' = 0
    /\ child' = [p \in Proc |-> IF Alive(p) THEN child[p] ELSE "none"]
    /\ starts' = starts + 1
    /\ data' = "used"
    /\ UNCHANGED <<num, progc, token, left, execution_num, rollback_again,
                   remaining, advances, faults>>

(* fork fails: the root has no child, so waitpid fails and it exits.       *)
ForkExecutionFails ==
    /\ root = "fork"
    /\ root' = "failed"
    /\ UNCHANGED <<num, progc, execVars, childVars, shVars, histVars>>

(* waitpid returns: a bad status or a signal ends everything early.        *)
WaitExecution ==
    /\ root = "waitpid"
    /\ exec \in {"exit_ok", "exit_fail", "signalled"}
    /\ exec' = "none"
    /\ \/ /\ exec = "exit_ok"
          /\ root' = "next"
          /\ num' = num + 1
       \/ /\ exec \in {"exit_fail", "signalled"}
          /\ root' = "terminate"
          /\ UNCHANGED num
    /\ UNCHANGED <<progc, forked, childVars, shVars, histVars>>

WaitForNextExecution_MutantNoSpin ==
    /\ root = "next"
    /\ root' = IF num > MaxExecution \/ ~rollback_again THEN "done" ELSE "fork"
    /\ UNCHANGED <<num, progc, execVars, childVars, shVars, histVars>>

WaitForNextExecution_MutantNoRollbackTest ==
    /\ root = "next"
    /\ \/ num > MaxExecution /\ root' = "done"
       \/ num <= MaxExecution /\ execution_num >= num /\ root' = "fork"
    /\ UNCHANGED <<num, progc, execVars, childVars, shVars, histVars>>

(* wait_for_next_execution(++execution_num): give up, or spin until the    *)
(* number is reached.                                                      *)
WaitForNextExecution ==
    /\ root = "next"
    /\ \/ /\ num > MaxExecution \/ ~rollback_again
          /\ root' = "done"
       \/ /\ ~(num > MaxExecution \/ ~rollback_again)
          /\ execution_num >= num
          /\ root' = "fork"
    /\ UNCHANGED <<num, progc, execVars, childVars, shVars, histVars>>

(* reset_execution_data: stores, cache lines, crashes and locks of the     *)
(* execution are gone, sequence numbers start again.                       *)
ResetExecutionData == data' = "fresh"

(* terminate_early: finish_execution with terminating set, which counts as *)
(* the last one and resets everything, then _Exit.                         *)
TerminateEarly ==
    /\ root = "terminate"
    /\ root' = "failed"
    /\ rollback_again' = FALSE
    /\ execution_num' = execution_num + 1
    /\ ResetExecutionData
    /\ token' = 0
    /\ left' = {}
    /\ UNCHANGED <<num, progc, execVars, child, remaining, histVars>>

-----------------------------------------------------------------------------
(* The execution process: main.                                            *)

(* The CXL memory of this execution, which may not be granted.             *)
MapCxl ==
    /\ exec = "map"
    /\ exec' \in {"fork", "exit_fail"}
    /\ UNCHANGED <<rootVars, forked, childVars, shVars, histVars>>

ForkChild ==
    /\ exec = "fork"
    /\ forked < NProc
    /\ forked' = forked + 1
    /\ child' = [child EXCEPT ![forked] = "init"]
    /\ exec' = IF forked + 1 = NProc THEN "reap" ELSE "fork"
    /\ UNCHANGED <<rootVars, token, left, shVars, histVars>>

(* fork fails: -1 goes into pids and the loop goes on.  The thread of the  *)
(* process that is missing is THREAD_RUNNING for the scheduler.            *)
ForkChildFails ==
    /\ exec = "fork"
    /\ forked < NProc
    /\ forked' = forked + 1
    /\ child' = [child EXCEPT ![forked] = "missing"]
    /\ exec' = IF forked + 1 = NProc THEN "reap" ELSE "fork"
    /\ faults' = faults \cup {"stuck"}
    /\ UNCHANGED <<rootVars, token, left, shVars, starts, advances>>

(* waitpid reports a child that exited, with any status: go on waiting.    *)
ReapExited(p) ==
    /\ exec = "reap"
    /\ child[p] = "exited"
    /\ child' = [child EXCEPT ![p] = "dead"]
    /\ UNCHANGED <<rootVars, execVars, token, left, shVars, histVars>>

ReapSignalled_MutantNoKill(p) ==
    /\ exec = "reap"
    /\ child[p] = "signalled"
    /\ child' = [child EXCEPT ![p] = "dead"]
    /\ exec' = "exit_fail"
    /\ UNCHANGED <<rootVars, forked, token, left, shVars, histVars>>

(* It reports a child killed by a signal: kill pids[0 .. progc-1] and      *)
(* leave.                                                                  *)
ReapSignalled(p) ==
    /\ exec = "reap"
    /\ child[p] = "signalled"
    /\ \A q \in Proc : q < progc => child[q] # "missing"
    /\ child' = [q \in Proc |-> IF q = p \/ q < progc THEN "dead" ELSE child[q]]
    /\ exec' = "exit_fail"
    /\ UNCHANGED <<rootVars, forked, token, left, shVars, histVars>>

(* One of those is the -1 of a fork that failed: kill(-1, SIGKILL) reaches *)
(* every process but the caller, the root as well.                         *)
ReapSignalledKillsAll(p) ==
    /\ exec = "reap"
    /\ child[p] = "signalled"
    /\ \E q \in Proc : q < progc /\ child[q] = "missing"
    /\ child' = [q \in Proc |-> "dead"]
    /\ root' = "killed"
    /\ exec' = "none"
    /\ UNCHANGED <<num, progc, forked, token, left, shVars, histVars>>

(* No child is left: return 0.                                             *)
ReapedAll ==
    /\ exec = "reap"
    /\ \A p \in Proc : child[p] \in {"dead", "missing"}
    /\ exec' = "exit_ok"
    /\ UNCHANGED <<rootVars, forked, childVars, shVars, histVars>>

(* The environment kills the execution process.                            *)
ExecKilled ==
    /\ exec \in {"map", "fork", "reap"}
    /\ exec' = "signalled"
    /\ faults' = faults \cup {"killed_exec"}
    /\ UNCHANGED <<rootVars, forked, childVars, shVars, starts, advances>>

-----------------------------------------------------------------------------
(* A process of the program.                                               *)

(* user_init is through: the exit handler is registered, the process waits *)
(* for the token.                                                          *)
UserInit(p) ==
    /\ child[p] = "init"
    /\ child' = [child EXCEPT ![p] = "run"]
    /\ UNCHANGED <<rootVars, execVars, token, left, shVars, histVars>>

(* user_init fails before the handler is registered.                       *)
UserInitFails(p) ==
    /\ child[p] = "init"
    /\ child' = [child EXCEPT ![p] = "exited"]
    /\ faults' = faults \cup {"stuck"}
    /\ UNCHANGED <<rootVars, execVars, token, left, shVars, starts, advances>>

HasToken(p) ==
    /\ child[p] = "run"
    /\ token = p

(* An action of the program yields.                                        *)
PassToken(p) ==
    /\ HasToken(p)
    /\ token' \in Present
    /\ UNCHANGED <<rootVars, execVars, child, left, shVars, histVars>>

(* finish_execution of a process that is not the last: last_yield passes   *)
(* the token to a thread of some process that has not left.                *)
FinishNotLast(p) ==
    /\ HasToken(p)
    /\ child' = [child EXCEPT ![p] = "exited"]
    /\ token' \in Present \ {p}
    /\ left' = left \cup {p}
    /\ UNCHANGED <<rootVars, execVars, shVars, histVars>>

FinishLast_MutantNoLimit(p) ==
    /\ HasToken(p)
    /\ Present \ {p} = {}
    /\ child' = [child EXCEPT ![p] = "exited"]
    /\ token' = 0
    /\ left' = {}
    /\ ResetExecutionData
    /\ rollback_again' = (rollback_again /\ remaining > 1)
    /\ IF rollback_again'
       THEN remaining' = remaining - 1 /\ advances' = advances + 1
       ELSE UNCHANGED <<remaining, advances>>
    /\ execution_num' = execution_num + 1
    /\ UNCHANGED <<rootVars, execVars, starts, faults>>

FinishLast_MutantNoStore(p) ==
    /\ HasToken(p)
    /\ Present \ {p} = {}
    /\ child' = [child EXCEPT ![p] = "exited"]
    /\ token' = 0
    /\ left' = {}
    /\ ResetExecutionData
    /\ rollback_again' = (rollback_again /\ execution_num + 1 <= MaxExecution /\ remaining > 0)
    /\ IF rollback_again'
       THEN remaining' = remaining - 1 /\ advances' = advances + 1
       ELSE UNCHANGED <<remaining, advances>>
    /\ UNCHANGED <<rootVars, execVars, execution_num, starts, faults>>

(* finish_execution of the last process: reset_execution_data,             *)
(* Scheduler::reset, the decision about the next execution, and the number *)
(* the root waits for.                                                     *)
FinishLast(p) ==
    /\ HasToken(p)
    /\ Present \ {p} = {}
    /\ child' = [child EXCEPT ![p] = "exited"]
    /\ token' = 0
    /\ left' = {}
    /\ ResetExecutionData
    /\ rollback_again' = (rollback_again /\ execution_num + 1 <= MaxExecution /\ remaining > 0)
    /\ IF rollback_again'
       THEN remaining' = remaining - 1 /\ advances' = advances + 1
       ELSE UNCHANGED <<remaining, advances>>
    /\ execution_num' = execution_num + 1
    /\ UNCHANGED <<rootVars, execVars, starts, faults>>

(* The last thread of a process ends by THREAD_FINISH (its main thread     *)
(* called pthread_exit): Thread::finalize passes the token on and stays in *)
(* Scheduler::wait.  Without another thread to run, wait returns at once   *)
(* into assert(0): DieBySignal.                                            *)
FinishLingers(p) ==
    /\ HasToken(p)
    /\ child' = [child EXCEPT ![p] = "linger"]
    /\ token' \in Present \ {p}
    /\ left' = left \cup {p}
    /\ UNCHANGED <<rootVars, execVars, shVars, histVars>>

(* The token comes back to a process that lingers, as Scheduler::reset     *)
(* gives it to thread 0: wait returns, or switches to a record without a   *)
(* context.                                                                *)
ResetWakes(p) ==
    /\ child[p] = "linger"
    /\ token = p
    /\ child' = [child EXCEPT ![p] = "signalled"]
    /\ faults' = faults \cup {"signal"}
    /\ UNCHANGED <<rootVars, execVars, token, left, shVars, starts, advances>>

(* DEADLOCK, or exit() while another thread of the process runs: the       *)
(* process ends and the token stays with it.                               *)
LeaveStuck(p) ==
    /\ HasToken(p)
    /\ child' = [child EXCEPT ![p] = "exited"]
    /\ faults' = faults \cup {"stuck"}
    /\ UNCHANGED <<rootVars, execVars, token, left, shVars, starts, advances>>

(* The holder of the token dies of a signal.                               *)
DieBySignal(p) ==
    /\ HasToken(p)
    /\ child' = [child EXCEPT ![p] = "signalled"]
    /\ faults' = faults \cup {"signal"}
    /\ UNCHANGED <<rootVars, execVars, token, left, shVars, starts, advances>>

-----------------------------------------------------------------------------
Init ==
    /\ root = "options"
    /\ execution_num = 1
    /\ num = 0
    /\ progc = 0
    /\ exec = "none"
    /\ forked = 0
    /\ child = [p \in Proc |-> "none"]
    /\ token = 0
    /\ left = {}
    /\ rollback_again = TRUE
    /\ data = "fresh"
    /\ remaining \in 0 .. MaxRuns
    /\ starts = 0
    /\ advances = 0
    /\ faults = {}

RootStep ==
    \/ LoadProgram \/ CheckOptions \/ CreateModel
    \/ ForkExecution \/ ForkExecutionFails \/ WaitExecution \/ WaitForNextExecution \/ TerminateEarly
ExecStep ==
    \/ MapCxl \/ ForkChild \/ ForkChildFails \/ ReapedAll
    \/ \E p \in Proc : ReapExited(p) \/ ReapSignalled(p) \/ ReapSignalledKillsAll(p)
Leave(p) == FinishNotLast(p) \/ FinishLast(p) \/ FinishLingers(p)
ChildStep(p) ==
    \/ UserInit(p) \/ UserInitFails(p) \/ PassToken(p) \/ Leave(p)
    \/ ResetWakes(p) \/ LeaveStuck(p) \/ DieBySignal(p)

Next == RootStep \/ ExecStep \/ ExecKilled \/ (\E p \in Proc : ChildStep(p))

(* The operating system runs every process that can run.  A program that   *)
(* again and again gets the token ends some time: SF on leaving.           *)
Spec ==
    /\ Init
    /\ [][Next]_vars
    /\ WF_vars(RootStep)
    /\ WF_vars(ExecStep)
    /\ \A p \in Proc : WF_vars(UserInit(p) \/ UserInitFails(p))
    /\ \A p \in Proc : WF_vars(ChildStep(p)) /\ SF_vars(Leave(p))

-----------------------------------------------------------------------------
(* A new execution finds the shared data reset and nobody of the previous  *)
(* one alive: the execution process reaps all its children before the root *)
(* goes on, and the last of them has reset the data.                       *)
FreshStart ==
    root = "fork" => data = "fresh" /\ \A p \in Proc : ~Alive(p)

(* Each execution of the search is run exactly once: the root never starts *)
(* one although the node stack has not moved on, and the numbers of the    *)
(* root and of the shared memory agree.                                    *)
EachExecutionOnce ==
    /\ starts <= advances + 1
    /\ root = "fork" => starts = advances /\ num = execution_num

(* The search stops without a failure only if it is exhausted or at its    *)
(* limit.                                                                  *)
StopsWhenExhausted ==
    root = "done" => remaining = 0 \/ num > MaxExecution

(* After a child died of a signal and CXLMC gave up, no process of the     *)
(* program is left, if every process has its own -f option (the code kills *)
(* progc children, not processes).                                         *)
NoOrphans ==
    root = "failed" /\ progc = NProc /\ "killed_exec" \notin faults
       => \A p \in Proc : ~Alive(p)

(* The execution is over and its data reset, and its process waits for a   *)
(* process that lingers; nobody is left who could end it.                  *)
HeldUp ==
    /\ exec = "reap"
    /\ data = "fresh"
    /\ child[0] # "linger"
    /\ \E p \in Proc : child[p] = "linger"
    /\ \A p \in Proc : ~Busy(p) /\ child[p] # "signalled"

(* CXLMC ends, with two exceptions: a process kept the token when it left  *)
(* or was never there to take it, and a process other than 0 whose main    *)
(* thread called pthread_exit lingers when all others have ended, where    *)
(* the waitpid of main never returns.  A death by a signal, of a process   *)
(* or of the execution process, never makes it hang.                       *)
LoopEnds ==
    <>(root \in {"done", "failed", "killed"} \/ "stuck" \in faults \/ []HeldUp)
=============================================================================
