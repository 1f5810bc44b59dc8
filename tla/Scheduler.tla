----------------------------- MODULE Scheduler -----------------------------
(***************************************************************************)
(* Threads of one execution: the token (Scheduler::yield, last_yield),     *)
(* creation, join and exit of threads, mutexes and condition variables     *)
(* with the tables behind the pthread functions, crashes, the end of a     *)
(* process.  Atomic accesses, flushes and fences are one kind of call that *)
(* only passes the token, plain and volatile accesses one that does not;   *)
(* whether an eviction crashes a process is a choice (see CXLMemory).      *)
(*                                                                         *)
(* The thread that holds the token runs alone.  A step is what it does     *)
(* from one point where it can lose the token to the next: the call up to  *)
(* the yield, the execution of the action, the evictions after it.         *)
(***************************************************************************)
EXTENDS Integers, FiniteSets

CONSTANTS
    NProc,        \* number of processes; their main threads are 0 .. NProc-1
    MaxThreads,   \* bound: threads per execution
    Mutexes,      \* addresses used as pthread_mutex_t
    Conds,        \* addresses used as pthread_cond_t
    CxlMem,       \* those of the addresses that lie in CXL memory
    MutexType,    \* MutexType[m]: the type pthread_mutex_init(m) gives
    Programs,     \* what the threads may do, see Program
    MaxCrashes    \* MAX_CRASHES_PER_EXECUTION

CallNames == {"create", "join", "exit_thread", "yield", "sleep", "access", "init", "lock",
              "lock_crashed", "trylock", "unlock", "destroy", "wait", "timedwait", "signal",
              "broadcast", "cond_destroy", "crash_self", "exit"}

ASSUME SizeAssumption ==
    /\ NProc \in Nat \ {0}
    /\ MaxThreads \in Nat
    /\ MaxThreads >= NProc
    /\ MaxCrashes \in Nat

ASSUME ProgramAssumption ==
    /\ MutexType \in [Mutexes -> {"default", "recursive", "errorcheck"}]
    /\ CxlMem \subseteq Mutexes \cup Conds

Proc   == 0 .. NProc - 1
Thread == 0 .. MaxThreads - 1

(* A program gives each thread the calls it may make, in any order, and    *)
(* the mutexes it uses; max bounds the calls other than yields, accesses.  *)
Program == [Thread -> [calls: SUBSET CallNames, mutexes: SUBSET Mutexes, max: Nat]]

ASSUME ProgramsAssumption == Programs \subseteq Program

NoThread == -1     \* a null Thread*
Shared   == -1     \* the process of an address in CXL memory

(* make_ext_ptr: an address outside CXL memory means a different object in *)
(* every process.                                                          *)
mem_is_cxl(a) == a \in CxlMem

ExtPtr(a, p) == <<a, IF mem_is_cxl(a) THEN Shared ELSE p>>

MutexKey == {ExtPtr(m, p) : m \in Mutexes, p \in Proc}
CondKey  == {ExtPtr(c, p) : c \in Conds, p \in Proc}
NoKey    == <<"none", Shared>>

ASSUME NoKeyAssumption == "none" \notin Mutexes \cup Conds

ActionType == {"THREAD_START", "THREAD_YIELD", "THREAD_FINISH", "NONATOMIC",
               "PTHREAD_CREATE", "PTHREAD_JOIN", "ATOMIC_TRYLOCK",
               "ATOMIC_LOCK", "ATOMIC_UNLOCK", "ATOMIC_WAIT",
               "ATOMIC_TIMEDWAIT", "ATOMIC_NOTIFY_ONE", "ATOMIC_NOTIFY_ALL"}

Action == [type: ActionType \cup {"none"}, thread: Thread \cup {NoThread},
           mutex: MutexKey \cup {NoKey}, cond: CondKey \cup {NoKey}]

Act(type, thread, mutex, cond) ==
    [type |-> type, thread |-> thread, mutex |-> mutex, cond |-> cond]

NoAct == Act("none", NoThread, NoKey, NoKey)

VARIABLES
    \* Scheduler
    thread_count,     \* threads.size()
    active_thread,    \* the token
    \* Thread
    process,          \* process[t]
    state,            \* state[t]: NONE before the thread exists
    pending,          \* pending[t]: the action t is in
    owned_mutexes,    \* owned_mutexes[t]
    pc,               \* pc[t]: where t is, see PC
    \* Mutex, mutex_map, cond_map
    mutex_map,        \* keys with a Mutex
    cond_map,         \* keys with a ConditionVariable
    mutex_type,       \* mutex_type[k], "none" outside mutex_map
    owner,            \* owner[k]
    recursive_lock_count,
    \* Model
    crashes,          \* processes with a crash clock
    completed_procs,
    \* the operating system's view
    exited,           \* processes that have run finish_execution
    outcome,          \* "running", or how the execution ended
    \* history and bounds
    program,          \* the program that runs, one of Programs
    calls,            \* calls[t]: calls made that count
    holding,          \* holding[t]: mutexes t was told it has
    irregular         \* processes that exit()ed or whose main thread left alone

tokVars  == <<thread_count, active_thread, process>>
thrVars  == <<state, pending, pc>>
lockVars == <<owned_mutexes, mutex_type, owner, recursive_lock_count, holding>>
mapVars  == <<mutex_map, cond_map>>
procVars == <<crashes, completed_procs, exited, outcome, irregular>>
progVars == <<program, calls>>
vars     == <<tokVars, thrVars, lockVars, mapVars, procVars, progVars>>

(* user: in the program; new: created, not yet started; yield: in the      *)
(* yield of Model::action; blocked: in thread_wait; evict: after execute;  *)
(* relock: between the two actions of ConditionVariable::wait; shutdown:   *)
(* in the yield of process_shutdown; gone: will not run again.             *)
PC == {"none", "new", "user", "yield", "blocked", "evict", "relock", "shutdown", "gone"}

ThreadState == {"NONE", "RUNNING", "BLOCKED", "COMPLETED", "CRASHED"}

(* Ends of an execution.  finished: the last process reset everything;     *)
(* deadlock: DEADLOCK was printed and the token stays with the process     *)
(* that left; stale_context: a switch to a context that was never set; the *)
(* others end in abort() or in an assertion.                               *)
Outcome == {"running", "finished", "deadlock", "self_deadlock", "no_mutex",
            "null_iterator", "assert_owner", "assert_get_mutex", "assert_finalize",
            "stale_context"}

Existing == 0 .. thread_count - 1

is_completed(st, t) == st[t] \in {"COMPLETED", "CRASHED"}

(* get_thread, get_mutex, get_cond: the object of an action that can block. *)
Target(a) == IF a.type = "PTHREAD_JOIN" THEN a.thread
             ELSE IF a.type = "ATOMIC_LOCK" THEN a.mutex ELSE a.cond

(* Thread::waiting_on: what a blocked thread waits for.                    *)
WaitingOn(t, type, target) ==
    /\ state[t] = "BLOCKED"
    /\ pending[t].type = type
    /\ Target(pending[t]) = target

(* wake_all_threads_waiting_on.                                            *)
WakeAll(type, target) ==
    [t \in Thread |-> IF WaitingOn(t, type, target) THEN "RUNNING" ELSE state[t]]

(* wake_thread_waiting_on: the first waiter after the caller, in ring order. *)
Wakes(t, u, c) ==
    /\ WaitingOn(u, "ATOMIC_WAIT", c)
    /\ \E i \in 1 .. thread_count - 1 :
          /\ u = (t + i) % thread_count
          /\ \A j \in 1 .. i - 1 :
                ~WaitingOn((t + j) % thread_count, "ATOMIC_WAIT", c)

WakeOne(t, c) ==
    [u \in Thread |-> IF Wakes(t, u, c) THEN "RUNNING" ELSE state[u]]

NextInRing_MutantFromZero(st, u) ==
    /\ u \in Existing \ {active_thread}
    /\ st[u] = "RUNNING"
    /\ \A v \in Existing \ {active_thread} : v < u => st[v] # "RUNNING"

(* The ring walk of yield and last_yield: u is the next running thread.    *)
NextInRing(st, u) ==
    \E i \in 1 .. thread_count - 1 :
       /\ u = (active_thread + i) % thread_count
       /\ st[u] = "RUNNING"
       /\ \A j \in 1 .. i - 1 : st[(active_thread + j) % thread_count] # "RUNNING"

OthersRunning(st) ==
    \E u \in Existing \ {active_thread} : st[u] = "RUNNING"

OthersBlocked_MutantForgotten(st) == FALSE

OthersBlocked(st) ==
    \E u \in Existing \ {active_thread} : st[u] = "BLOCKED"

(* last_yield, called with the thread states st: the token goes on, or     *)
(* some thread is blocked for ever, or the caller was the last.            *)
LastYield(st, ifLast) ==
    \/ /\ \E u \in Existing : NextInRing(st, u) /\ active_thread' = u
       /\ outcome' = outcome
    \/ /\ ~OthersRunning(st)
       /\ active_thread' = active_thread
       /\ outcome' = IF OthersBlocked(st) THEN "deadlock" ELSE ifLast

(* exit(): the atexit handler runs finish_execution; finalize marks the    *)
(* caller completed unless it crashed, and last_yield passes the token.    *)
Finalized(st, t) == IF is_completed(st, t) THEN st ELSE [st EXCEPT ![t] = "COMPLETED"]

ProcessExit(t, st) ==
    /\ state' = Finalized(st, t)
    /\ exited' = exited \cup {process[t]}
    /\ pc' = [u \in Thread |-> IF u \in Existing /\ process[u] = process[t]
                               THEN "gone" ELSE pc[u]]
    /\ LastYield(Finalized(st, t), "finished")

(* yield, called with the thread states st.  If nobody can run, not even   *)
(* the caller, DEADLOCK is printed and exit() is called: finish_execution  *)
(* marks the caller completed and either finds other blocked threads or,   *)
(* as the last one, resets everything.                                     *)
Yield(t, st, where) ==
    \/ /\ \E u \in Existing : NextInRing(st, u) /\ active_thread' = u
       /\ state' = st
       /\ pc' = [pc EXCEPT ![t] = where]
       /\ UNCHANGED <<outcome, exited>>
    \/ /\ ~OthersRunning(st)
       /\ st[t] = "RUNNING"
       /\ state' = st
       /\ pc' = [pc EXCEPT ![t] = where]
       /\ UNCHANGED <<active_thread, outcome, exited>>
    \/ /\ ~OthersRunning(st)
       /\ st[t] # "RUNNING"
       /\ ProcessExit(t, st)

CrashState_MutantNoWake(p) ==
    [u \in Thread |->
        IF u \in Existing /\ process[u] = p /\ ~is_completed(state, u)
        THEN "CRASHED" ELSE state[u]]

(* process_crash: every unfinished thread of the process is marked, and    *)
(* whoever waits for a mutex one of them owns is woken.                    *)
CrashState(p) ==
    LET victims == {t \in Existing : process[t] = p /\ ~is_completed(state, t)}
    IN  [u \in Thread |->
            IF u \in victims THEN "CRASHED"
            ELSE IF \E t \in victims : \E k \in owned_mutexes[t] :
                       WaitingOn(u, "ATOMIC_LOCK", k)
                 THEN "RUNNING" ELSE state[u]]

Running(t) ==
    /\ outcome = "running"
    /\ active_thread = t
    /\ t \in Existing

-----------------------------------------------------------------------------
(* Calls.  The pthread functions look their objects up, creating what is   *)
(* missing, and hand an action to Model::action.                           *)

NewAct(type) == Act(type, NoThread, NoKey, NoKey)

(* The lazy initialisation of pthread_mutex_lock and the others; emplace   *)
(* leaves an existing entry alone.                                         *)
EnsureMutex(k, type) ==
    /\ mutex_map' = mutex_map \cup {k}
    /\ mutex_type' = IF k \in mutex_map THEN mutex_type
                     ELSE [mutex_type EXCEPT ![k] = type]
    /\ UNCHANGED <<owned_mutexes, owner, recursive_lock_count, holding>>

EnsureCond(k) == cond_map' = cond_map \cup {k}

(* Model::action up to the end of its yield: a crashed process ends, any   *)
(* other passes the token.  The maps are the caller's business.            *)
Enter(t, a) ==
    /\ UNCHANGED <<thread_count, process, crashes, completed_procs, irregular>>
    /\ \/ /\ process[t] \notin crashes
          /\ pending' = [pending EXCEPT ![t] = a]
          /\ Yield(t, state, "yield")
       \/ /\ process[t] \in crashes
          /\ ProcessExit(t, CrashState(process[t]))
          /\ UNCHANGED pending

(* A call the program makes: it counts against the bound.                  *)
InUser(t, call) ==
    /\ Running(t)
    /\ pc[t] = "user"
    /\ call \in program[t].calls
    /\ calls[t] < program[t].max
    /\ calls' = [calls EXCEPT ![t] = @ + 1]
    /\ UNCHANGED program

(* thread_start: the first action of a new thread.                         *)
ThreadStart(t) ==
    /\ Running(t)
    /\ pc[t] = "new"
    /\ Enter(t, NewAct("THREAD_START"))
    /\ UNCHANGED <<lockVars, mapVars, progVars>>

(* A call that only passes the token: a program may make any number.       *)
YieldBy(t, call) ==
    /\ Running(t)
    /\ pc[t] = "user"
    /\ call \in program[t].calls
    /\ Enter(t, NewAct("THREAD_YIELD"))
    /\ UNCHANGED <<lockVars, mapVars, progVars>>

(* sched_yield; sleep, usleep and nanosleep.                               *)
CallYield(t) == YieldBy(t, "yield")
CallSleep(t) == YieldBy(t, "sleep")

(* Plain and volatile loads and stores: Model::action without its yield.   *)
(* The evictions after it happen all the same.                             *)
CallAccess(t) ==
    /\ Running(t)
    /\ pc[t] = "user"
    /\ "access" \in program[t].calls
    /\ \/ /\ process[t] \notin crashes
          /\ pc' = [pc EXCEPT ![t] = "evict"]
          /\ pending' = [pending EXCEPT ![t] = NewAct("NONATOMIC")]
          /\ UNCHANGED <<active_thread, state, exited, outcome>>
       \/ /\ process[t] \in crashes
          /\ ProcessExit(t, CrashState(process[t]))
          /\ UNCHANGED pending
    /\ UNCHANGED <<thread_count, process, lockVars, mapVars, crashes, completed_procs,
                   irregular, progVars>>

CallCreate(t) ==
    /\ InUser(t, "create")
    /\ thread_count + Cardinality({u \in Thread : pending[u].type = "PTHREAD_CREATE"
                                                /\ pc[u] = "yield"}) < MaxThreads
    /\ Enter(t, NewAct("PTHREAD_CREATE"))
    /\ UNCHANGED <<lockVars, mapVars>>

CallJoin(t, u) ==
    /\ InUser(t, "join")
    /\ u \in Existing \ {t}
    /\ u >= NProc
    /\ process[u] = process[t]
    /\ Enter(t, Act("PTHREAD_JOIN", u, NoKey, NoKey))
    /\ UNCHANGED <<lockVars, mapVars>>

(* A worker's function returns (thread_start), or pthread_exit.            *)
CallThreadFinish(t) ==
    /\ Running(t)
    /\ pc[t] = "user"
    /\ t >= NProc \/ "exit_thread" \in program[t].calls
    /\ Enter(t, NewAct("THREAD_FINISH"))
    /\ UNCHANGED <<lockVars, mapVars, progVars>>

CallMutexInit(t, m) ==
    /\ InUser(t, "init")
    /\ EnsureMutex(ExtPtr(m, process[t]), MutexType[m])
    /\ UNCHANGED <<tokVars, thrVars, cond_map, procVars>>

LockAct(k)    == Act("ATOMIC_LOCK", NoThread, k, NoKey)
TryLockAct(k) == Act("ATOMIC_TRYLOCK", NoThread, k, NoKey)
UnlockAct(k)  == Act("ATOMIC_UNLOCK", NoThread, k, NoKey)

LockBy(t, m, call, a) ==
    /\ InUser(t, call)
    /\ EnsureMutex(ExtPtr(m, process[t]), "default")
    /\ Enter(t, a)
    /\ UNCHANGED cond_map

(* pthread_mutex_lock and pthread_mutex_timedlock; mutex_lock_crashed,     *)
(* which differs in the value it returns; pthread_mutex_trylock.           *)
CallLock(t, m)        == LockBy(t, m, "lock", LockAct(ExtPtr(m, process[t])))
CallLockCrashed(t, m) == LockBy(t, m, "lock_crashed", LockAct(ExtPtr(m, process[t])))
CallTryLock(t, m)     == LockBy(t, m, "trylock", TryLockAct(ExtPtr(m, process[t])))

(* pthread_mutex_unlock: mutex_map->at aborts on an unknown mutex.         *)
CallUnlock(t, m) ==
    /\ InUser(t, "unlock")
    /\ UNCHANGED <<lockVars, mapVars>>
    /\ LET k == ExtPtr(m, process[t])
       IN  \/ /\ k \in mutex_map
              /\ Enter(t, UnlockAct(k))
           \/ /\ k \notin mutex_map
              /\ outcome' = "no_mutex"
              /\ UNCHANGED <<tokVars, thrVars, crashes, completed_procs,
                             exited, irregular>>

(* pthread_mutex_destroy, pthread_cond_destroy: the test for the end of    *)
(* the table is inverted, so a known object stays and EINVAL is returned,  *)
(* and an unknown one is a null dereference.                               *)
CallDestroy(known) ==
    /\ outcome' = IF known THEN outcome ELSE "null_iterator"
    /\ UNCHANGED <<tokVars, thrVars, lockVars, mapVars, crashes,
                   completed_procs, exited, irregular>>

CallMutexDestroy(t, m) ==
    /\ InUser(t, "destroy")
    /\ CallDestroy(ExtPtr(m, process[t]) \in mutex_map)

CallCondDestroy(t, c) ==
    /\ InUser(t, "cond_destroy")
    /\ CallDestroy(ExtPtr(c, process[t]) \in cond_map)

CallCondWait(t, c, m) ==
    /\ InUser(t, "wait")
    /\ LET k == ExtPtr(m, process[t])
           v == ExtPtr(c, process[t])
       IN  /\ EnsureMutex(k, "default")
           /\ EnsureCond(v)
           /\ Enter(t, Act("ATOMIC_WAIT", NoThread, k, v))

CallCondTimedWait(t, c, m) ==
    /\ InUser(t, "timedwait")
    /\ LET k == ExtPtr(m, process[t])
           v == ExtPtr(c, process[t])
       IN  /\ EnsureMutex(k, "default")
           /\ EnsureCond(v)
           /\ Enter(t, Act("ATOMIC_TIMEDWAIT", NoThread, k, v))

CallNotify(t, c, call, type) ==
    /\ InUser(t, call)
    /\ EnsureCond(ExtPtr(c, process[t]))
    /\ Enter(t, Act(type, NoThread, NoKey, ExtPtr(c, process[t])))
    /\ UNCHANGED <<lockVars, mutex_map>>

CallCondSignal(t, c)    == CallNotify(t, c, "signal", "ATOMIC_NOTIFY_ONE")
CallCondBroadcast(t, c) == CallNotify(t, c, "broadcast", "ATOMIC_NOTIFY_ALL")

(* ConditionVariable::wait, its second action: lock->lock().               *)
Relock(t) ==
    /\ Running(t)
    /\ pc[t] = "relock"
    /\ Enter(t, LockAct(pending[t].mutex))
    /\ UNCHANGED <<lockVars, mapVars, progVars>>

-----------------------------------------------------------------------------
(* Model::execute, once the token is back.                                 *)

Executes(t, type) ==
    /\ Running(t)
    /\ pc[t] = "yield"
    /\ pending[t].type = type

(* The action is over; the evictions of process_store_buffer follow.       *)
Executed(t) ==
    /\ pc' = [pc EXCEPT ![t] = "evict"]
    /\ UNCHANGED <<active_thread, pending, progVars>>

Dies(how) ==
    /\ outcome' = how
    /\ UNCHANGED <<tokVars, thrVars, lockVars, mapVars, crashes, completed_procs,
                   exited, irregular, progVars>>

ExecYield(t) ==
    /\ Executes(t, "THREAD_START") \/ Executes(t, "THREAD_YIELD")
    /\ Executed(t)
    /\ UNCHANGED <<thread_count, process, state, lockVars, mapVars, procVars>>

ExecThreadFinish_MutantNoWake(t) ==
    /\ Executes(t, "THREAD_FINISH")
    /\ LET st == [state EXCEPT ![t] = "COMPLETED"]
       IN  /\ state' = st
           /\ LastYield(st, "assert_finalize")
    /\ pc' = [pc EXCEPT ![t] = "gone"]
    /\ irregular' = IF t < NProc THEN irregular \cup {process[t]} ELSE irregular
    /\ UNCHANGED <<thread_count, process, pending, lockVars, mapVars, crashes,
                   completed_procs, exited, progVars>>

(* THREAD_FINISH and THREADONLY_FINISH: joiners are woken, then finalize   *)
(* gives the token away; if nobody takes it, wait() returns.               *)
ExecThreadFinish(t) ==
    /\ Executes(t, "THREAD_FINISH")
    /\ LET st == [WakeAll("PTHREAD_JOIN", t) EXCEPT ![t] = "COMPLETED"]
       IN  /\ state' = st
           /\ LastYield(st, "assert_finalize")
    /\ pc' = [pc EXCEPT ![t] = "gone"]
    /\ irregular' = IF t < NProc THEN irregular \cup {process[t]} ELSE irregular
    /\ UNCHANGED <<thread_count, process, pending, lockVars, mapVars, crashes,
                   completed_procs, exited, progVars>>

(* Scheduler::new_thread: it belongs to its creator's process.             *)
NewThread(t) ==
    /\ thread_count' = thread_count + 1
    /\ process' = [process EXCEPT ![thread_count] = process[t]]
    /\ state' = [state EXCEPT ![thread_count] = "RUNNING"]

(* The store of the new identifier to the caller's pthread_t is            *)
(* CXLMemory!ExecCreate.                                                   *)
ExecCreate(t) ==
    /\ Executes(t, "PTHREAD_CREATE")
    /\ thread_count < MaxThreads
    /\ NewThread(t)
    /\ pc' = [pc EXCEPT ![thread_count] = "new", ![t] = "evict"]
    /\ UNCHANGED <<active_thread, pending, lockVars, mapVars, procVars, progVars>>

(* thread_wait: the caller blocks and passes the token.                    *)
ThreadWait(t, st) ==
    /\ Yield(t, [u \in Thread |-> IF u = t THEN "BLOCKED" ELSE st[u]], "blocked")
    /\ UNCHANGED <<thread_count, process, pending, crashes, completed_procs,
                   irregular, progVars>>

ExecJoin(t) ==
    /\ Executes(t, "PTHREAD_JOIN")
    /\ UNCHANGED <<lockVars, mapVars>>
    /\ \/ /\ state[pending[t].thread] = "COMPLETED"
          /\ Executed(t)
          /\ UNCHANGED <<thread_count, process, state, procVars>>
       \/ /\ state[pending[t].thread] # "COMPLETED"
          /\ ThreadWait(t, state)

(* A join that waited returns as soon as it is woken.                      *)
JoinWoken(t) ==
    /\ Running(t)
    /\ pc[t] = "blocked"
    /\ pending[t].type = "PTHREAD_JOIN"
    /\ Executed(t)
    /\ UNCHANGED <<thread_count, process, state, lockVars, mapVars, procVars>>

OwnerCrashed(k) == owner[k] # NoThread /\ state[owner[k]] = "CRASHED"
Free(k) == owner[k] = NoThread \/ OwnerCrashed(k)

(* Mutex::set_owner for a new owner t.  Both assertions compare owner with *)
(* owned_mutexes; NoThread stands for nullptr.                             *)
SetOwnerOK(k, t) ==
    /\ owner[k] # NoThread /\ ~OwnerCrashed(k) => k \in owned_mutexes[owner[k]]
    /\ t # NoThread => k \notin owned_mutexes[t]

SetOwner_MutantKeepOwned(k, t) ==
    /\ owner' = [owner EXCEPT ![k] = t]
    /\ recursive_lock_count' = [recursive_lock_count EXCEPT ![k] = 0]
    /\ owned_mutexes' = [u \in Thread |->
          IF u = t THEN owned_mutexes[u] \cup {k} ELSE owned_mutexes[u]]
    /\ UNCHANGED mutex_type

SetOwner(k, t) ==
    /\ owner' = [owner EXCEPT ![k] = t]
    /\ recursive_lock_count' = [recursive_lock_count EXCEPT ![k] = 0]
    /\ owned_mutexes' = [u \in Thread |->
          IF u = t THEN owned_mutexes[u] \cup {k}
          ELSE IF u = owner[k] /\ ~OwnerCrashed(k) THEN owned_mutexes[u] \ {k}
          ELSE owned_mutexes[u]]
    /\ UNCHANGED mutex_type

(* SetOwner to t at the end of a lock call: t is told that it has k.       *)
TakesLock(t, k) ==
    \/ /\ SetOwnerOK(k, t)
       /\ SetOwner(k, t)
       /\ holding' = [holding EXCEPT ![t] = @ \cup {k}]
       /\ Executed(t)
       /\ UNCHANGED <<thread_count, process, state, mapVars, procVars>>
    \/ /\ ~SetOwnerOK(k, t)
       /\ Dies("assert_owner")

ExecTryLock(t) ==
    /\ Executes(t, "ATOMIC_TRYLOCK")
    /\ LET k == pending[t].mutex
       IN  \/ Free(k) /\ TakesLock(t, k)
           \/ /\ ~Free(k)
              /\ Executed(t)
              /\ UNCHANGED <<thread_count, process, state, lockVars, mapVars, procVars>>

(* ATOMIC_LOCK by the owner itself.                                        *)
LockAgain(t, k) ==
    \/ /\ mutex_type[k] = "recursive"
       /\ recursive_lock_count' = [recursive_lock_count EXCEPT ![k] = @ + 1]
       /\ Executed(t)
       /\ UNCHANGED <<thread_count, process, state, owned_mutexes, mutex_type,
                      owner, holding, mapVars, procVars>>
    \/ /\ mutex_type[k] = "errorcheck"
       /\ Executed(t)
       /\ UNCHANGED <<thread_count, process, state, lockVars, mapVars, procVars>>
    \/ /\ mutex_type[k] \notin {"recursive", "errorcheck"}
       /\ Dies("self_deadlock")

LockWaits(t) ==
    /\ ThreadWait(t, state)
    /\ UNCHANGED <<lockVars, mapVars>>

ExecLock(t) ==
    /\ Executes(t, "ATOMIC_LOCK")
    /\ LET k == pending[t].mutex
       IN  \/ Free(k) /\ TakesLock(t, k)
           \/ owner[k] = t /\ LockAgain(t, k)
           \/ ~Free(k) /\ owner[k] # t /\ LockWaits(t)

LockWoken_MutantNoRetest(t) ==
    /\ Running(t)
    /\ pc[t] = "blocked"
    /\ pending[t].type = "ATOMIC_LOCK"
    /\ TakesLock(t, pending[t].mutex)

(* The loop of ATOMIC_LOCK: a woken waiter looks at the owner again.       *)
LockWoken(t) ==
    /\ Running(t)
    /\ pc[t] = "blocked"
    /\ pending[t].type = "ATOMIC_LOCK"
    /\ LET k == pending[t].mutex
       IN  \/ Free(k) /\ TakesLock(t, k)
           \/ ~Free(k) /\ LockWaits(t)

(* ATOMIC_UNLOCK and ATOMIC_WAIT of a thread that is not the owner, or     *)
(* that has locked a recursive mutex more than once.                       *)
Unlocks(t, k) ==
    \/ /\ owner[k] # t
       /\ UNCHANGED lockVars
    \/ /\ owner[k] = t
       /\ mutex_type[k] = "recursive"
       /\ recursive_lock_count[k] > 0
       /\ recursive_lock_count' = [recursive_lock_count EXCEPT ![k] = @ - 1]
       /\ UNCHANGED <<owned_mutexes, mutex_type, owner, holding>>

(* The mutex really becomes free.                                          *)
LastUnlock(t, k) ==
    /\ owner[k] = t
    /\ ~(mutex_type[k] = "recursive" /\ recursive_lock_count[k] > 0)

ExecUnlock_MutantNoOwnerTest(t) ==
    /\ Executes(t, "ATOMIC_UNLOCK")
    /\ LET k == pending[t].mutex
       IN  /\ owner[k] # NoThread
           /\ SetOwner(k, NoThread)
           /\ holding' = [holding EXCEPT ![t] = @ \ {k}]
           /\ state' = WakeAll("ATOMIC_LOCK", k)
           /\ Executed(t)
           /\ UNCHANGED <<thread_count, process, mapVars, procVars>>

ExecUnlock(t) ==
    /\ Executes(t, "ATOMIC_UNLOCK")
    /\ LET k == pending[t].mutex
       IN  \/ /\ ~LastUnlock(t, k)
              /\ Unlocks(t, k)
              /\ Executed(t)
              /\ UNCHANGED <<thread_count, process, state, mapVars, procVars>>
           \/ /\ LastUnlock(t, k)
              /\ SetOwnerOK(k, NoThread)
              /\ SetOwner(k, NoThread)
              /\ holding' = [holding EXCEPT ![t] = @ \ {k}]
              /\ state' = WakeAll("ATOMIC_LOCK", k)
              /\ Executed(t)
              /\ UNCHANGED <<thread_count, process, mapVars, procVars>>
           \/ /\ LastUnlock(t, k)
              /\ ~SetOwnerOK(k, NoThread)
              /\ Dies("assert_owner")

(* ATOMIC_WAIT: unlock, wake, and block on the condition in one go.        *)
ExecWait(t) ==
    /\ Executes(t, "ATOMIC_WAIT")
    /\ UNCHANGED mapVars
    /\ LET k == pending[t].mutex
       IN  \/ /\ ~LastUnlock(t, k)
              /\ Unlocks(t, k)
              /\ Executed(t)
              /\ UNCHANGED <<thread_count, process, state, procVars>>
           \/ /\ LastUnlock(t, k)
              /\ SetOwnerOK(k, NoThread)
              /\ SetOwner(k, NoThread)
              /\ holding' = [holding EXCEPT ![t] = @ \ {k}]
              /\ ThreadWait(t, WakeAll("ATOMIC_LOCK", k))
           \/ /\ LastUnlock(t, k)
              /\ ~SetOwnerOK(k, NoThread)
              /\ Dies("assert_owner")

CondWoken(t) ==
    /\ Running(t)
    /\ pc[t] = "blocked"
    /\ pending[t].type = "ATOMIC_WAIT"
    /\ Executed(t)
    /\ UNCHANGED <<thread_count, process, state, lockVars, mapVars, procVars>>

(* ATOMIC_TIMEDWAIT: ModelAction::get_mutex has no case for it.            *)
ExecTimedWait(t) ==
    /\ Executes(t, "ATOMIC_TIMEDWAIT")
    /\ Dies("assert_get_mutex")

ExecNotifyOne(t) ==
    /\ Executes(t, "ATOMIC_NOTIFY_ONE")
    /\ state' = WakeOne(t, pending[t].cond)
    /\ Executed(t)
    /\ UNCHANGED <<thread_count, process, lockVars, mapVars, procVars>>

ExecNotifyAll(t) ==
    /\ Executes(t, "ATOMIC_NOTIFY_ALL")
    /\ state' = WakeAll("ATOMIC_WAIT", pending[t].cond)
    /\ Executed(t)
    /\ UNCHANGED <<thread_count, process, lockVars, mapVars, procVars>>

-----------------------------------------------------------------------------
(* Crashes and the end of a process.                                       *)

is_live(p) == p \notin crashes /\ p \notin completed_procs

(* Model::should_crash, for some choice of its decision point.             *)
MayCrash ==
    /\ Cardinality(crashes) < MaxCrashes
    /\ Cardinality(crashes) + 1 < NProc

(* An eviction or a read crashes another process.                          *)
CrashOther(t, q) ==
    /\ Running(t)
    /\ pc[t] = "evict"
    /\ q # process[t]
    /\ is_live(q)
    /\ MayCrash
    /\ crashes' = crashes \cup {q}
    /\ UNCHANGED <<tokVars, thrVars, lockVars, mapVars, completed_procs, exited,
                   outcome, irregular, progVars>>

(* Model::insert_crash of the own process, by an eviction or by the        *)
(* program: it ends here.                                                  *)
CrashSelf(t) ==
    /\ Running(t)
    /\ \/ pc[t] = "evict"
       \/ pc[t] = "user" /\ "crash_self" \in program[t].calls
    /\ pc[t] = "evict" => is_live(process[t])
    /\ MayCrash
    /\ crashes' = crashes \cup {process[t]}
    /\ ProcessExit(t, CrashState(process[t]))
    /\ UNCHANGED <<thread_count, process, pending, lockVars, mapVars,
                   completed_procs, irregular, progVars>>

(* process_store_buffer is done; Model::action returns.  Inside            *)
(* ConditionVariable::wait the mutex to lock again is kept in pending.     *)
Return(t) ==
    /\ Running(t)
    /\ pc[t] = "evict"
    /\ IF pending[t].type = "ATOMIC_WAIT"
       THEN /\ pc' = [pc EXCEPT ![t] = "relock"]
            /\ pending' = [pending EXCEPT ![t] = Act("none", NoThread, pending[t].mutex, NoKey)]
       ELSE /\ pc' = [pc EXCEPT ![t] = "user"]
            /\ pending' = [pending EXCEPT ![t] = NoAct]
    /\ UNCHANGED <<tokVars, state, lockVars, mapVars, procVars, progVars>>

(* main returned: user_done calls process_shutdown, which first yields.    *)
CallShutdown(t) ==
    /\ Running(t)
    /\ pc[t] = "user"
    /\ t < NProc
    /\ Yield(t, state, "shutdown")
    /\ UNCHANGED <<thread_count, process, pending, lockVars, mapVars, crashes,
                   completed_procs, irregular, progVars>>

(* The rest of process_shutdown: the threads are completed and drained one *)
(* by one; the drains may crash other processes, or the own one after      *)
(* thread i was completed.                                                 *)
ShutdownState(p) ==
    [u \in Thread |-> IF u \in Existing /\ process[u] = p /\ ~is_completed(state, u)
                      THEN "COMPLETED" ELSE state[u]]

Shutdown_MutantKeepThreads(t) ==
    /\ Running(t)
    /\ pc[t] = "shutdown"
    /\ completed_procs' = completed_procs \cup {process[t]}
    /\ UNCHANGED crashes
    /\ ProcessExit(t, state)
    /\ UNCHANGED <<thread_count, process, pending, lockVars, mapVars, irregular, progVars>>

Shutdown(t) ==
    /\ Running(t)
    /\ pc[t] = "shutdown"
    /\ completed_procs' = completed_procs \cup {process[t]}
    /\ \/ UNCHANGED crashes
       \/ \E q \in Proc \ {process[t]} :
             /\ is_live(q)
             /\ MayCrash
             /\ crashes' = crashes \cup {q}
    /\ ProcessExit(t, ShutdownState(process[t]))
    /\ UNCHANGED <<thread_count, process, pending, lockVars, mapVars, irregular, progVars>>

(* The own process crashes while thread i is drained: the threads up to i  *)
(* are completed already, process_crash marks the others.                  *)
ShutdownCrash(t, i) ==
    /\ Running(t)
    /\ pc[t] = "shutdown"
    /\ i \in Existing
    /\ process[i] = process[t]
    /\ is_live(process[t])
    /\ MayCrash
    /\ crashes' = crashes \cup {process[t]}
    /\ ProcessExit(t, [u \in Thread |->
                         IF u <= i /\ u \in Existing /\ process[u] = process[t]
                         THEN ShutdownState(process[t])[u]
                         ELSE IF u \in Existing /\ process[u] = process[t]
                         THEN CrashState(process[t])[u]
                         ELSE IF \E v \in Existing : \E k \in owned_mutexes[v] :
                                    /\ v > i
                                    /\ process[v] = process[t]
                                    /\ ~is_completed(state, v)
                                    /\ WaitingOn(u, "ATOMIC_LOCK", k)
                         THEN "RUNNING" ELSE state[u]])
    /\ UNCHANGED <<thread_count, process, pending, lockVars, mapVars,
                   completed_procs, irregular, progVars>>

(* The program calls exit(): the handler passes the token, but the other   *)
(* threads of the process keep their state.                                *)
UserExit(t) ==
    /\ InUser(t, "exit")
    /\ irregular' = irregular \cup {process[t]}
    /\ ProcessExit(t, state)
    /\ UNCHANGED <<thread_count, process, pending, lockVars, mapVars, crashes,
                   completed_procs>>

-----------------------------------------------------------------------------
Init ==
    /\ thread_count = NProc
    /\ active_thread = 0
    /\ process = [t \in Thread |-> IF t < NProc THEN t ELSE 0]
    /\ state = [t \in Thread |-> IF t < NProc THEN "RUNNING" ELSE "NONE"]
    /\ pending = [t \in Thread |-> NoAct]
    /\ owned_mutexes = [t \in Thread |-> {}]
    /\ pc = [t \in Thread |-> IF t < NProc THEN "user" ELSE "none"]
    /\ mutex_map = {}
    /\ cond_map = {}
    /\ mutex_type = [k \in MutexKey |-> "none"]
    /\ owner = [k \in MutexKey |-> NoThread]
    /\ recursive_lock_count = [k \in MutexKey |-> 0]
    /\ crashes = {}
    /\ completed_procs = {}
    /\ exited = {}
    /\ outcome = "running"
    /\ program \in Programs
    /\ calls = [t \in Thread |-> 0]
    /\ holding = [t \in Thread |-> {}]
    /\ irregular = {}

UserCall(t) ==
    \/ ThreadStart(t) \/ CallYield(t) \/ CallSleep(t) \/ CallAccess(t)
    \/ CallCreate(t) \/ CallThreadFinish(t)
    \/ \E u \in Thread : CallJoin(t, u)
    \/ \E m \in program[t].mutexes :
          \/ CallMutexInit(t, m) \/ CallLock(t, m) \/ CallLockCrashed(t, m)
          \/ CallTryLock(t, m)
          \/ CallUnlock(t, m) \/ CallMutexDestroy(t, m)
    \/ \E c \in Conds : \/ CallCondSignal(t, c) \/ CallCondBroadcast(t, c)
                        \/ CallCondDestroy(t, c)
    \/ \E c \in Conds, m \in program[t].mutexes : CallCondWait(t, c, m) \/ CallCondTimedWait(t, c, m)
    \/ Relock(t)

Execute(t) ==
    \/ ExecYield(t) \/ ExecThreadFinish(t) \/ ExecCreate(t)
    \/ ExecJoin(t) \/ JoinWoken(t)
    \/ ExecTryLock(t) \/ ExecLock(t) \/ LockWoken(t) \/ ExecUnlock(t)
    \/ ExecWait(t) \/ CondWoken(t) \/ ExecTimedWait(t)
    \/ ExecNotifyOne(t) \/ ExecNotifyAll(t)

EndOfAction(t) ==
    \/ \E q \in Proc : CrashOther(t, q)
    \/ CrashSelf(t) \/ Return(t)

EndOfProcess(t) ==
    \/ CallShutdown(t) \/ Shutdown(t) \/ UserExit(t)
    \/ \E i \in Thread : ShutdownCrash(t, i)

Step(t) == UserCall(t) \/ Execute(t) \/ EndOfAction(t) \/ EndOfProcess(t)

(* A process whose main thread ended by pthread_exit is completed for the  *)
(* scheduler, but it has not left: it goes round in Scheduler::wait.       *)
Lingers(p) == p \in irregular \ exited

(* Scheduler::reset gives the token to thread 0.  A process 0 that lingers *)
(* takes it: in its main thread wait() returns, in a worker it switches to *)
(* the new record of thread 0, which has no context.                       *)
ResetWakes ==
    /\ outcome = "finished"
    /\ Lingers(0)
    /\ \/ outcome' = "assert_finalize"
       \/ /\ \E t \in Existing : t >= NProc /\ process[t] = 0
          /\ outcome' = "stale_context"
    /\ UNCHANGED <<tokVars, thrVars, lockVars, mapVars, crashes, completed_procs, exited,
                   irregular, progVars>>

(* An execution that is over stays as it is.                               *)
Over ==
    /\ outcome # "running"
    /\ UNCHANGED vars

Next == (\E t \in Thread : Step(t)) \/ ResetWakes \/ Over

(* A thread that has the token goes on: the program calls again, returns,  *)
(* or ends.                                                                *)
Spec == Init /\ [][Next]_vars /\ WF_vars(Next)

-----------------------------------------------------------------------------
(* Every variable has its type (the fields of Scheduler, Thread, Mutex and *)
(* Model).                                                                 *)
TypeOK ==
    /\ thread_count \in NProc .. MaxThreads
    /\ active_thread \in Existing
    /\ process \in [Thread -> Proc]
    /\ state \in [Thread -> ThreadState]
    /\ pending \in [Thread -> Action]
    /\ owned_mutexes \in [Thread -> SUBSET MutexKey]
    /\ pc \in [Thread -> PC]
    /\ mutex_map \subseteq MutexKey
    /\ cond_map \subseteq CondKey
    /\ mutex_type \in [MutexKey -> {"none", "default", "recursive", "errorcheck"}]
    /\ owner \in [MutexKey -> Thread \cup {NoThread}]
    /\ recursive_lock_count \in [MutexKey -> Nat]
    /\ crashes \subseteq Proc
    /\ completed_procs \subseteq Proc
    /\ exited \subseteq Proc
    /\ outcome \in Outcome
    /\ program \in Program
    /\ calls \in [Thread -> Nat]
    /\ holding \in [Thread -> SUBSET MutexKey]
    /\ irregular \subseteq Proc

(* No two threads that have not crashed were both told that they hold a    *)
(* mutex and have not given it back: the loop of ATOMIC_LOCK, the owner    *)
(* test of ATOMIC_UNLOCK and the hand-over from crashed owners together.   *)
MutualExclusion ==
    \A t, u \in Thread :
       t # u /\ state[t] # "CRASHED" /\ state[u] # "CRASHED"
          => holding[t] \cap holding[u] = {}

(* The assertions of Mutex::set_owner hold: owner and owned_mutexes agree  *)
(* whenever a mutex changes hands, also after crashes and hand-overs.      *)
SetOwnerAsserts == outcome # "assert_owner"

(* No thread sleeps in ATOMIC_LOCK on a mutex that it could have: every    *)
(* unlock, and process_crash for every mutex of a dead thread, woke it.    *)
NoLostWakeUp ==
    \A t \in Thread :
       state[t] = "BLOCKED" /\ pending[t].type = "ATOMIC_LOCK"
          => ~Free(pending[t].mutex)

(* pthread_join: a joiner sleeps only while its target is unfinished, and  *)
(* one that was woken has a completed target (executor.cc waits once,      *)
(* without a loop).                                                        *)
JoinSound ==
    \A t \in Existing :
       pc[t] = "blocked" /\ pending[t].type = "PTHREAD_JOIN"
          => /\ state[t] = "BLOCKED" => state[pending[t].thread] \in {"RUNNING", "BLOCKED"}
             /\ state[t] = "RUNNING" => state[pending[t].thread] = "COMPLETED"

(* The token is never left with a thread that cannot run, unless the       *)
(* program called exit() or its main thread pthread_exit(): yield and      *)
(* last_yield hand it to running threads, of processes that still exist.   *)
TokenAlive ==
    outcome = "running" /\ process[active_thread] \notin irregular
       => /\ state[active_thread] = "RUNNING"
          /\ pc[active_thread] # "gone"
          /\ process[active_thread] \notin exited

(* finish_execution resets the shared state (isLast) only when every       *)
(* thread is completed or crashed and every process has left, but for the  *)
(* processes that linger in Scheduler::wait because their main thread      *)
(* called pthread_exit: those still read the data that is being reset.     *)
ResetAfterAll ==
    outcome = "finished"
       => /\ \A t \in Existing : is_completed(state, t)
          /\ \A p \in Proc : p \in exited \/ Lingers(p)

(* The holder of the token, another thread than t, does nothing but plain  *)
(* or volatile accesses, which do not yield.                               *)
KeptFrom(t) ==
    /\ active_thread # t
    /\ pc[active_thread] = "user" \/ pending[active_thread].type = "NONATOMIC"

(* The round-robin of yield is fair: a running thread gets the token, even *)
(* if the others spin for ever on calls that yield.  It does not only if   *)
(* from some time on the holder makes nothing but plain or volatile        *)
(* accesses (api.cc:14, 26, 38, 50), as a thread that spins on one does.   *)
RunningGetsToken ==
    \A t \in Thread :
       (state[t] = "RUNNING" /\ irregular = {}) ~>
          (\/ active_thread = t \/ state[t] # "RUNNING"
           \/ outcome # "running" \/ irregular # {}
           \/ []KeptFrom(t))

(* Ownership as the code keeps it implements the abstract robust mutex.    *)
Robust == INSTANCE RobustMutex WITH
    Key <- MutexKey, crashed <- {t \in Thread : state[t] = "CRASHED"}

(* Every change of an owner is an acquisition of a free or orphaned mutex  *)
(* or a release by the owner: Mutex::set_owner is called in no other way.  *)
MutexRefinement == Robust!Spec
=============================================================================
