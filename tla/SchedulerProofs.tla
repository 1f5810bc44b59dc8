-------------------------- MODULE SchedulerProofs --------------------------
(***************************************************************************)
(* What holds of CXLMC's scheduler and locks for every number of processes *)
(* and threads, every set of mutexes and conditions, and every program.    *)
(***************************************************************************)
EXTENDS Scheduler, TLAPS

\* TypeOK, in two parts: the variables that the invariants relate, and the
\* bookkeeping.
CoreType ==
    /\ thread_count \in NProc .. MaxThreads
    /\ active_thread \in Existing
    /\ process \in [Thread -> Proc]
    /\ state \in [Thread -> ThreadState]
    /\ pending \in [Thread -> Action]
    /\ owned_mutexes \in [Thread -> SUBSET MutexKey]
    /\ pc \in [Thread -> PC]
    /\ owner \in [MutexKey -> Thread \cup {NoThread}]
    /\ exited \subseteq Proc
    /\ outcome \in Outcome
    /\ holding \in [Thread -> SUBSET MutexKey]
    /\ irregular \subseteq Proc

BookType ==
    /\ mutex_map \subseteq MutexKey
    /\ cond_map \subseteq CondKey
    /\ mutex_type \in [MutexKey -> {"none", "default", "recursive", "errorcheck"}]
    /\ recursive_lock_count \in [MutexKey -> Nat]
    /\ crashes \subseteq Proc
    /\ completed_procs \subseteq Proc
    /\ program \in Program
    /\ calls \in [Thread -> Nat]

\* Threads that were not created are in no state, do and own nothing, the others are
\* somewhere; the main threads are the first ones.
Born ==
    /\ \A t \in Existing : state[t] # "NONE" /\ pc[t] # "none"
    /\ \A t \in Thread \ Existing :
          /\ state[t] = "NONE" /\ pc[t] = "none" /\ pending[t].type = "none"
          /\ owned_mutexes[t] = {} /\ holding[t] = {}
    /\ \A p \in Proc : process[p] = p

\* An action on a mutex, and a wait that has to lock again, name a mutex; a join
\* names a thread of the same process.
Named ==
    \A t \in Thread :
       /\ pending[t].type \in {"ATOMIC_LOCK", "ATOMIC_TRYLOCK", "ATOMIC_UNLOCK", "ATOMIC_WAIT"}
             \/ pc[t] = "relock"
          => pending[t].mutex \in MutexKey
       /\ pending[t].type = "PTHREAD_JOIN"
          => pending[t].thread \in Existing /\ process[pending[t].thread] = process[t]

\* The holder of the token is running.
TokenRuns == outcome = "running" => state[active_thread] = "RUNNING"

\* Whoever will not run again is marked so: all threads of a process that has
\* left are gone, a crashed thread's process has left, and a thread that is gone
\* is completed or crashed unless its process left irregularly.
Left ==
    /\ \A t \in Existing : process[t] \in exited => pc[t] = "gone"
    /\ \A t \in Thread : state[t] = "CRASHED" => process[t] \in exited
    /\ outcome = "running" =>
          \A t \in Existing : pc[t] = "gone" => is_completed(state, t) \/ process[t] \in irregular
    /\ \A p \in Proc : is_completed(state, p) => p \in exited \cup irregular

\* owner, owned_mutexes and what the threads were told agree, except that a
\* crashed thread may still list what was taken over from it.
Agree ==
    \A t \in Thread, k \in MutexKey :
       /\ owner[k] = t => k \in owned_mutexes[t]
       /\ k \in owned_mutexes[t] \cup holding[t] /\ state[t] # "CRASHED" => owner[k] = t

IInv ==
    /\ CoreType
    /\ Born
    /\ Named
    /\ TokenRuns
    /\ Left
    /\ Agree
    /\ SetOwnerAsserts
    /\ NoLostWakeUp
    /\ JoinSound
    /\ ResetAfterAll

-----------------------------------------------------------------------------
\* What a step of the token's holder t does to the core variables.  Every action
\* of Scheduler is of one of these kinds (StepKind); each invariant is shown for
\* the kinds.

Same == UNCHANGED <<thread_count, process, owned_mutexes, owner, holding>>

NamedAct(t, a) ==
    /\ a.type \in {"ATOMIC_LOCK", "ATOMIC_TRYLOCK", "ATOMIC_UNLOCK", "ATOMIC_WAIT"}
          => a.mutex \in MutexKey
    /\ a.type = "PTHREAD_JOIN" => a.thread \in Existing /\ process[a.thread] = process[t]

\* The token went to a thread that is running in st, or nobody runs.
TokenGoes(st, ifLast) ==
    \/ /\ active_thread' \in Existing
       /\ st[active_thread'] = "RUNNING"
       /\ outcome' = outcome
    \/ /\ active_thread' = active_thread
       /\ outcome' \in {"deadlock", ifLast}
       /\ outcome' = ifLast =>
             \A u \in Existing \ {active_thread} : st[u] \notin {"RUNNING", "BLOCKED"}

\* t waits in a yield, with action a, or goes on with one that does not yield.
Passes(t, w, a) ==
    /\ Same
    /\ UNCHANGED <<state, exited, outcome, irregular>>
    /\ pc' = [pc EXCEPT ![t] = w]
    /\ pending' = [pending EXCEPT ![t] = a]
    /\ active_thread' \in Existing
    /\ state[active_thread'] = "RUNNING"

\* Process p of t ends in states st: its threads are completed or crashed, and
\* who waits for a mutex of one that has just crashed is woken.
EndState(p, st) ==
    /\ st \in [Thread -> ThreadState]
    /\ \A u \in Existing : process[u] = p => st[u] \in {"COMPLETED", "CRASHED"}
    /\ \A u \in Thread : st[u] # state[u] =>
          \/ u \in Existing /\ process[u] = p /\ ~is_completed(state, u)
          \/ state[u] = "BLOCKED" /\ pending[u].type = "ATOMIC_LOCK" /\ st[u] = "RUNNING"
    /\ \A u, v \in Thread : \A k \in owned_mutexes[v] :
          /\ st[v] = "CRASHED" /\ state[v] # "CRASHED"
          /\ pending[u].type = "ATOMIC_LOCK" /\ pending[u].mutex = k
          => st[u] # "BLOCKED"

Leaves(t, st) ==
    /\ Same
    /\ UNCHANGED <<pending, irregular>>
    /\ EndState(process[t], st)
    /\ state' = st
    /\ exited' = exited \cup {process[t]}
    /\ pc' = [u \in Thread |-> IF u \in Existing /\ process[u] = process[t]
                               THEN "gone" ELSE pc[u]]
    /\ TokenGoes(st, "finished")

\* t calls exit() with its process still running.
LeavesIrregularly(t) ==
    /\ Same
    /\ UNCHANGED pending
    /\ irregular' = irregular \cup {process[t]}
    /\ state' = [state EXCEPT ![t] = "COMPLETED"]
    /\ exited' = exited \cup {process[t]}
    /\ pc' = [u \in Thread |-> IF u \in Existing /\ process[u] = process[t]
                               THEN "gone" ELSE pc[u]]
    /\ TokenGoes([state EXCEPT ![t] = "COMPLETED"], "finished")

\* t executes an action that changes no owner and wakes the waiters in W.
Runs(t, W) ==
    /\ Same
    /\ UNCHANGED <<active_thread, pending, exited, outcome, irregular>>
    /\ \A u \in W : state[u] = "BLOCKED" /\ pending[u].type = "ATOMIC_WAIT"
    /\ state' = [u \in Thread |-> IF u \in W THEN "RUNNING" ELSE state[u]]
    /\ pc' = [pc EXCEPT ![t] = "evict"]

\* t gets mutex k.
Takes(t, k) ==
    /\ UNCHANGED <<thread_count, process, active_thread, state, pending, exited, outcome,
                   irregular>>
    /\ k \in MutexKey
    /\ Free(k)
    /\ SetOwner(k, t)
    /\ holding' = [holding EXCEPT ![t] = @ \cup {k}]
    /\ pc' = [pc EXCEPT ![t] = "evict"]

\* The owner t lets k go, and wakes who waits for it.
LetsGo(t, k) ==
    /\ k \in MutexKey
    /\ owner[k] = t
    /\ SetOwner(k, NoThread)
    /\ holding' = [holding EXCEPT ![t] = @ \ {k}]

Releases(t, k) ==
    /\ UNCHANGED <<thread_count, process, active_thread, pending, exited, outcome, irregular>>
    /\ LetsGo(t, k)
    /\ state' = WakeAll("ATOMIC_LOCK", k)
    /\ pc' = [pc EXCEPT ![t] = "evict"]

\* t blocks, the other threads being in states st; or DEADLOCK is printed.
Blocks(t, st) ==
    /\ UNCHANGED <<thread_count, process, pending, irregular>>
    /\ \/ /\ state' = [st EXCEPT ![t] = "BLOCKED"]
          /\ pc' = [pc EXCEPT ![t] = "blocked"]
          /\ active_thread' \in Existing \ {t}
          /\ st[active_thread'] = "RUNNING"
          /\ UNCHANGED <<outcome, exited>>
       \/ /\ state' = [st EXCEPT ![t] = "COMPLETED"]
          /\ exited' = exited \cup {process[t]}
          /\ pc' = [u \in Thread |-> IF u \in Existing /\ process[u] = process[t]
                                     THEN "gone" ELSE pc[u]]
          /\ active_thread' = active_thread
          /\ outcome' \in {"deadlock", "finished"}
          /\ outcome' = "finished" =>
                \A u \in Existing \ {t} : st[u] \notin {"RUNNING", "BLOCKED"}

\* t blocks because it has to: its join or its lock is not yet possible.
WaitsFor(t) ==
    /\ UNCHANGED <<owned_mutexes, owner, holding>>
    /\ Blocks(t, state)
    /\ \/ pending[t].type = "PTHREAD_JOIN" /\ state[pending[t].thread] # "COMPLETED"
       \/ pending[t].type = "ATOMIC_LOCK" /\ ~Free(pending[t].mutex)

\* t lets k go and waits for a condition.
Sleeps(t, k) ==
    /\ LetsGo(t, k)
    /\ Blocks(t, WakeAll("ATOMIC_LOCK", k))
    /\ pending[t].type = "ATOMIC_WAIT"

\* CXLMC ends at an assertion or in abort().
Aborts ==
    /\ Same
    /\ UNCHANGED <<active_thread, state, pending, pc, exited, irregular>>
    /\ outcome' \in {"self_deadlock", "no_mutex", "null_iterator", "assert_get_mutex"}

Kind(t) ==
    \/ \E w \in {"yield", "shutdown", "evict"}, a \in Action : NamedAct(t, a) /\ Passes(t, w, a)
    \/ \E st \in [Thread -> ThreadState] : Leaves(t, st)
    \/ LeavesIrregularly(t)
    \/ \E W \in SUBSET Thread : Runs(t, W)
    \/ \E k \in MutexKey : Takes(t, k) \/ Releases(t, k) \/ Sleeps(t, k)
    \/ WaitsFor(t)
    \/ Aborts
    \/ ExecCreate(t)
    \/ ExecThreadFinish(t)
    \/ Return(t)
    \/ /\ Same
       /\ UNCHANGED <<active_thread, state, pending, pc, exited, outcome, irregular>>

\* t has the token and has not left.
Acts(t) == Running(t) /\ pc[t] # "gone"

-----------------------------------------------------------------------------
\* The parts of an action.

\* Main threads are threads, and the state of the token's holder.
LEMMA TokenFacts ==
    ASSUME CoreType, TokenRuns, NEW t \in Thread, Running(t)
    PROVE  /\ state[t] = "RUNNING" /\ t \in Existing /\ active_thread = t
           /\ outcome = "running" /\ Existing \subseteq Thread /\ Proc \subseteq Thread
  BY SizeAssumption DEF CoreType, TokenRuns, Running, Existing, Thread, Proc

\* An address is a key.
LEMMA KeyFacts ==
    /\ \A m \in Mutexes, p \in Proc : ExtPtr(m, p) \in MutexKey
    /\ \A c \in Conds, p \in Proc : ExtPtr(c, p) \in CondKey
  BY DEF MutexKey, CondKey

\* The actions the calls create are actions.
LEMMA ActTypes ==
    /\ NoAct \in Action
    /\ \A ty \in ActionType : NewAct(ty) \in Action /\ NewAct(ty).type = ty
    /\ \A u \in Thread : LET a == Act("PTHREAD_JOIN", u, NoKey, NoKey)
                         IN  a \in Action /\ a.type = "PTHREAD_JOIN" /\ a.thread = u
    /\ \A k \in MutexKey :
         /\ LockAct(k) \in Action /\ LockAct(k).type = "ATOMIC_LOCK" /\ LockAct(k).mutex = k
         /\ TryLockAct(k) \in Action /\ TryLockAct(k).type = "ATOMIC_TRYLOCK" /\ TryLockAct(k).mutex = k
         /\ UnlockAct(k) \in Action /\ UnlockAct(k).type = "ATOMIC_UNLOCK" /\ UnlockAct(k).mutex = k
  BY DEF NoAct, Act, Action, NewAct, ActionType, LockAct, TryLockAct, UnlockAct

LEMMA LastYieldGoes ==
    ASSUME CoreType, TokenRuns, NEW t \in Thread, Running(t),
           NEW st \in [Thread -> ThreadState], NEW ifLast, ifLast # "deadlock",
           LastYield(st, ifLast)
    PROVE  TokenGoes(st, ifLast)
  BY TokenFacts DEF LastYield, TokenGoes, NextInRing, OthersRunning, OthersBlocked, Existing

\* A yield of a running thread passes the token.
LEMMA YieldPasses ==
    ASSUME CoreType, TokenRuns, NEW t \in Thread, Running(t), NEW w, Yield(t, state, w)
    PROVE  /\ UNCHANGED <<state, exited, outcome>>
           /\ pc' = [pc EXCEPT ![t] = w]
           /\ active_thread' \in Existing
           /\ state[active_thread'] = "RUNNING"
  BY TokenFacts DEF Yield, NextInRing

\* Threads that exist are threads.
LEMMA ExistingThreads ==
    ASSUME CoreType PROVE Existing \subseteq Thread /\ Proc \subseteq Existing
  BY SizeAssumption DEF CoreType, Existing, Thread, Proc

\* process_crash leaves nobody of the process running and wakes its waiters.
LEMMA CrashEnds ==
    ASSUME CoreType, NEW p \in Proc
    PROVE  EndState(p, CrashState(p))
<1> DEFINE st == CrashState(p)
<1>1. state \in [Thread -> ThreadState] /\ Existing \subseteq Thread
  BY ExistingThreads DEF CoreType
<1>2. st \in [Thread -> ThreadState]
  BY <1>1 DEF CrashState, ThreadState
<1>3. ASSUME NEW u \in Existing, process[u] = p PROVE st[u] \in {"COMPLETED", "CRASHED"}
  <2>1. u \in Thread
    BY <1>1
  <2>2. CASE is_completed(state, u)
    <3>1. st[u] # "CRASHED" => ~ \E t \in Existing : \E k \in owned_mutexes[t] :
                                     WaitingOn(u, "ATOMIC_LOCK", k)
      BY <2>2 DEF WaitingOn, is_completed
    <3>2. QED
      BY <2>1, <2>2, <3>1 DEF CrashState, is_completed
  <2>3. CASE ~is_completed(state, u)
    BY <1>3, <2>1, <2>3 DEF CrashState
  <2>4. QED
    BY <2>2, <2>3
<1>4. ASSUME NEW u \in Thread, st[u] # state[u]
      PROVE  \/ u \in Existing /\ process[u] = p /\ ~is_completed(state, u)
             \/ state[u] = "BLOCKED" /\ pending[u].type = "ATOMIC_LOCK" /\ st[u] = "RUNNING"
  BY <1>1, <1>4 DEF CrashState, WaitingOn
<1>5. ASSUME NEW u \in Thread, NEW v \in Thread, NEW k \in owned_mutexes[v],
             st[v] = "CRASHED", state[v] # "CRASHED",
             pending[u].type = "ATOMIC_LOCK", pending[u].mutex = k
      PROVE  st[u] # "BLOCKED"
  <2>1. v \in Existing /\ process[v] = p /\ ~is_completed(state, v)
    BY <1>4, <1>5
  <2>2. state[u] = "BLOCKED" => WaitingOn(u, "ATOMIC_LOCK", k)
    BY <1>5 DEF WaitingOn, Target
  <2>3. QED
    BY <1>1, <1>5, <2>1, <2>2 DEF CrashState
<1>6. QED
  BY <1>2, <1>3, <1>4, <1>5 DEF EndState

\* So does process_shutdown.
LEMMA ShutdownEnds ==
    ASSUME CoreType, NEW p \in Proc
    PROVE  EndState(p, ShutdownState(p))
<1>1. state \in [Thread -> ThreadState] /\ Existing \subseteq Thread
  BY ExistingThreads DEF CoreType
<1>2. ShutdownState(p) \in [Thread -> ThreadState]
  BY <1>1 DEF ShutdownState, ThreadState
<1>3. \A u \in Thread :
         ShutdownState(p)[u] = IF u \in Existing /\ process[u] = p /\ ~is_completed(state, u)
                               THEN "COMPLETED" ELSE state[u]
  BY DEF ShutdownState
<1>4. QED
  BY <1>1, <1>2, <1>3 DEF EndState, is_completed

\* And a crash in the middle of process_shutdown, after thread i was completed.
LEMMA ShutdownCrashEnds ==
    ASSUME CoreType, NEW p \in Proc, NEW i \in Existing,
           NEW st, st = [u \in Thread |->
                         IF u <= i /\ u \in Existing /\ process[u] = p
                         THEN ShutdownState(p)[u]
                         ELSE IF u \in Existing /\ process[u] = p
                         THEN CrashState(p)[u]
                         ELSE IF \E v \in Existing : \E k \in owned_mutexes[v] :
                                    /\ v > i
                                    /\ process[v] = p
                                    /\ ~is_completed(state, v)
                                    /\ WaitingOn(u, "ATOMIC_LOCK", k)
                         THEN "RUNNING" ELSE state[u]]
    PROVE  EndState(p, st)
<1>1. state \in [Thread -> ThreadState] /\ Existing \subseteq Thread
  BY ExistingThreads DEF CoreType
<1>2. EndState(p, ShutdownState(p)) /\ EndState(p, CrashState(p))
  BY CrashEnds, ShutdownEnds
<1>3. st \in [Thread -> ThreadState]
  BY <1>1, <1>2 DEF EndState, ThreadState
<1>4. ASSUME NEW u \in Existing, process[u] = p PROVE st[u] \in {"COMPLETED", "CRASHED"}
  BY <1>1, <1>2, <1>4 DEF EndState
<1>5. ASSUME NEW u \in Thread, st[u] # state[u]
      PROVE  \/ u \in Existing /\ process[u] = p /\ ~is_completed(state, u)
             \/ state[u] = "BLOCKED" /\ pending[u].type = "ATOMIC_LOCK" /\ st[u] = "RUNNING"
  <2>1. CASE u \in Existing /\ process[u] = p
    <3>1. st[u] = ShutdownState(p)[u] \/ st[u] = CrashState(p)[u]
      BY <2>1
    <3>2. QED
      BY <1>2, <1>5, <3>1 DEF EndState
  <2>2. CASE ~(u \in Existing /\ process[u] = p)
    BY <1>1, <1>5, <2>2 DEF WaitingOn
  <2>3. QED
    BY <2>1, <2>2
<1>6. ASSUME NEW u \in Thread, NEW v \in Thread, NEW k \in owned_mutexes[v],
             st[v] = "CRASHED", state[v] # "CRASHED",
             pending[u].type = "ATOMIC_LOCK", pending[u].mutex = k
      PROVE  st[u] # "BLOCKED"
  <2>1. v \in Existing /\ process[v] = p /\ ~is_completed(state, v)
    BY <1>5, <1>6
  <2>2. v > i
    <3>1. ShutdownState(p)[v] = "COMPLETED"
      BY <2>1 DEF ShutdownState
    <3>2. i \in Int /\ v \in Int
      BY <2>1, SizeAssumption DEF Existing, CoreType
    <3>3. QED
      BY <1>6, <2>1, <3>1, <3>2
  <2>3. state[u] = "BLOCKED" => WaitingOn(u, "ATOMIC_LOCK", k)
    BY <1>6 DEF WaitingOn, Target
  <2>4. CASE u \in Existing /\ process[u] = p
    BY <1>4, <2>4
  <2>5. CASE ~(u \in Existing /\ process[u] = p)
    BY <1>6, <2>1, <2>2, <2>3, <2>5
  <2>6. QED
    BY <2>4, <2>5
<1>7. QED
  BY <1>3, <1>4, <1>5, <1>6 DEF EndState

\* finish_execution of a process whose threads all ended.
LEMMA ExitLeaves ==
    ASSUME CoreType, TokenRuns, NEW t \in Thread, Running(t),
           NEW st, EndState(process[t], st), ProcessExit(t, st),
           Same, UNCHANGED <<pending, irregular>>
    PROVE  \E s2 \in [Thread -> ThreadState] : Leaves(t, s2)
<1>1. st \in [Thread -> ThreadState] /\ t \in Existing
  BY TokenFacts DEF EndState
<1>2. Finalized(st, t) = st
  BY <1>1 DEF EndState, Finalized, is_completed
<1>3. TokenGoes(st, "finished")
  BY <1>1, <1>2, LastYieldGoes DEF ProcessExit
<1>4. Leaves(t, st)
  BY <1>2, <1>3 DEF Leaves, ProcessExit
<1>5. QED
  BY <1>1, <1>4

\* Model::action up to its yield: the token is passed, or the process ends.
LEMMA EnterKind ==
    ASSUME CoreType, TokenRuns, NEW t \in Thread, Running(t), NEW a \in Action,
           NamedAct(t, a), Enter(t, a), UNCHANGED <<owned_mutexes, owner, holding>>
    PROVE  Kind(t)
<1>1. CASE process[t] \notin crashes
  <2>1. Passes(t, "yield", a)
    <3>1. Yield(t, state, "yield") /\ pending' = [pending EXCEPT ![t] = a]
      BY <1>1 DEF Enter
    <3>2. QED
      BY <3>1, YieldPasses DEF Enter, Passes, Same
  <2>2. QED
    BY <2>1 DEF Kind
<1>2. CASE process[t] \in crashes
  <2>1. ProcessExit(t, CrashState(process[t])) /\ UNCHANGED <<pending, irregular>> /\ Same
    BY <1>2 DEF Enter, Same
  <2>2. process[t] \in Proc
    BY DEF CoreType
  <2>3. QED
    BY <2>1, <2>2, CrashEnds, ExitLeaves DEF Kind
<1>3. QED
  BY <1>1, <1>2

\* thread_wait: the token is passed, or nobody can run.
LEMMA WaitBlocks ==
    ASSUME CoreType, TokenRuns, NEW t \in Thread, Running(t),
           NEW st \in [Thread -> ThreadState], ThreadWait(t, st)
    PROVE  Blocks(t, st)
<1> DEFINE s2 == [u \in Thread |-> IF u = t THEN "BLOCKED" ELSE st[u]]
           s3 == [st EXCEPT ![t] = "COMPLETED"]
<1>1. s2 = [st EXCEPT ![t] = "BLOCKED"] /\ s2 \in [Thread -> ThreadState] /\ s2[t] = "BLOCKED"
  BY DEF ThreadState
<1>2. /\ t \in Existing /\ active_thread = t /\ Existing \subseteq Thread
      /\ UNCHANGED <<thread_count, process, pending, irregular>> /\ Yield(t, s2, "blocked")
  BY TokenFacts DEF ThreadWait
<1>3. CASE \E u \in Existing : NextInRing(s2, u) /\ active_thread' = u
  <2>1. /\ state' = s2 /\ pc' = [pc EXCEPT ![t] = "blocked"] /\ UNCHANGED <<outcome, exited>>
        /\ active_thread' \in Existing /\ s2[active_thread'] = "RUNNING"
    <3>1. PICK u \in Existing : NextInRing(s2, u) /\ active_thread' = u
      BY <1>3
    <3>2. s2[u] = "RUNNING" /\ OthersRunning(s2)
      BY <1>1, <1>2, <3>1 DEF NextInRing, OthersRunning
    <3>3. QED
      BY <1>2, <3>1, <3>2 DEF Yield
  <2>2. QED
    BY <1>1, <1>2, <2>1 DEF Blocks
<1>4. CASE ~ \E u \in Existing : NextInRing(s2, u) /\ active_thread' = u
  <2>1. ~OthersRunning(s2) /\ ProcessExit(t, s2)
    BY <1>1, <1>2, <1>4 DEF Yield
  <2>2. Finalized(s2, t) = s3
    BY <1>1 DEF Finalized, is_completed
  <2>3. s3 \in [Thread -> ThreadState] /\ s3[t] = "COMPLETED"
    BY DEF ThreadState
  <2>4. TokenGoes(s3, "finished")
    BY <2>1, <2>2, <2>3, LastYieldGoes DEF ProcessExit
  <2>5. \A u \in Existing : s3[u] # "RUNNING"
    BY <1>2, <2>1, <2>3 DEF OthersRunning
  <2>6. /\ active_thread' = active_thread
        /\ outcome' \in {"deadlock", "finished"}
        /\ outcome' = "finished" =>
             \A u \in Existing \ {t} : s3[u] \notin {"RUNNING", "BLOCKED"}
    BY <1>2, <2>4, <2>5 DEF TokenGoes
  <2>7. \A u \in Existing \ {t} : s3[u] = st[u]
    BY <1>2
  <2>8. QED
    BY <1>2, <2>1, <2>2, <2>6, <2>7 DEF Blocks, ProcessExit
<1>5. QED
  BY <1>3, <1>4

-----------------------------------------------------------------------------
\* The kinds of the actions.

\* The assertions of Mutex::set_owner, where a mutex is taken and released.
LEMMA SetOwnerHolds ==
    ASSUME CoreType, TokenRuns, Agree, NEW t \in Thread, Running(t), NEW k \in MutexKey
    PROVE  /\ Free(k) => SetOwnerOK(k, t)
           /\ owner[k] = t => SetOwnerOK(k, NoThread)
<1>1. state[t] = "RUNNING" /\ t # NoThread
  BY TokenFacts DEF Thread, NoThread
<1>2. Free(k) => SetOwnerOK(k, t)
  BY <1>1 DEF Agree, Free, OwnerCrashed, SetOwnerOK
<1>3. owner[k] = t => SetOwnerOK(k, NoThread)
  BY <1>1 DEF Agree, SetOwnerOK
<1>4. QED
  BY <1>2, <1>3

\* A thread that gets a mutex.
LEMMA TakesKind ==
    ASSUME CoreType, TokenRuns, Agree, NEW t \in Thread, Running(t), NEW k \in MutexKey,
           Free(k), TakesLock(t, k)
    PROVE  Kind(t)
<1>1. SetOwnerOK(k, t)
  BY SetOwnerHolds
<1>2. Takes(t, k)
  BY <1>1 DEF TakesLock, Takes, Executed, procVars
<1>3. QED
  BY <1>2 DEF Kind

\* A step that executes and leaves states and owners as they are.
LEMMA ExecutedKind ==
    ASSUME CoreType, NEW t \in Thread, Executed(t), UNCHANGED <<state, procVars>>, Same
    PROVE  Kind(t)
<1>1. state \in [Thread -> ThreadState]
  BY DEF CoreType
<1>2. Runs(t, {})
  BY <1>1 DEF Runs, Executed, procVars
<1>3. QED
  BY <1>2 DEF Kind

\* ATOMIC_UNLOCK and ATOMIC_WAIT that do not free the mutex change no owner.
LEMMA UnlocksSame ==
    ASSUME NEW t \in Thread, NEW k \in MutexKey, Unlocks(t, k)
    PROVE  UNCHANGED <<owned_mutexes, owner, holding>>
  BY DEF Unlocks, lockVars

\* The calls of the program.
LEMMA UserCallKind ==
    ASSUME CoreType, BookType, TokenRuns, Named, NEW t \in Thread, UserCall(t)
    PROVE  Kind(t) /\ Acts(t)
<1> USE DEF Acts
<1>1. process[t] \in Proc /\ pending[t] \in Action /\ program[t].mutexes \subseteq Mutexes
  BY DEF CoreType, BookType, Program
<1>2. ASSUME NEW ty \in ActionType \ {"PTHREAD_JOIN", "ATOMIC_LOCK", "ATOMIC_TRYLOCK",
                                      "ATOMIC_UNLOCK", "ATOMIC_WAIT"}
      PROVE  NewAct(ty) \in Action /\ NamedAct(t, NewAct(ty))
  <2>1. NewAct(ty) \in Action /\ NewAct(ty).type = ty
    BY ActTypes
  <2>2. QED
    BY <2>1 DEF NamedAct
<1>3. ASSUME NEW m \in Mutexes
      PROVE  LET k == ExtPtr(m, process[t])
             IN  /\ k \in MutexKey
                 /\ LockAct(k) \in Action /\ NamedAct(t, LockAct(k))
                 /\ TryLockAct(k) \in Action /\ NamedAct(t, TryLockAct(k))
                 /\ UnlockAct(k) \in Action /\ NamedAct(t, UnlockAct(k))
  <2> DEFINE k == ExtPtr(m, process[t])
  <2>1. k \in MutexKey
    BY <1>1, KeyFacts
  <2>2. QED
    BY <2>1, ActTypes DEF NamedAct
<1>4. CASE ThreadStart(t) \/ CallYield(t) \/ CallSleep(t) \/ CallCreate(t) \/ CallThreadFinish(t)
  <2>1. \E ty \in {"THREAD_START", "THREAD_YIELD", "PTHREAD_CREATE", "THREAD_FINISH"} :
          /\ Running(t) /\ pc[t] # "gone" /\ Enter(t, NewAct(ty))
          /\ UNCHANGED <<owned_mutexes, owner, holding>>
    BY <1>4 DEF ThreadStart, CallYield, CallSleep, YieldBy, CallCreate, CallThreadFinish,
                InUser, lockVars
  <2>2. QED
    BY <1>2, <2>1, EnterKind DEF ActionType
<1>5. ASSUME NEW u \in Thread, CallJoin(t, u) PROVE Kind(t) /\ Acts(t)
  <2> DEFINE a == Act("PTHREAD_JOIN", u, NoKey, NoKey)
  <2>1. a \in Action /\ a.type = "PTHREAD_JOIN" /\ a.thread = u
    BY ActTypes
  <2>2. u \in Existing /\ process[u] = process[t]
    BY <1>5 DEF CallJoin
  <2>3. NamedAct(t, a)
    BY <2>1, <2>2 DEF NamedAct
  <2>4. Running(t) /\ pc[t] # "gone" /\ Enter(t, a) /\ UNCHANGED <<owned_mutexes, owner, holding>>
    BY <1>5 DEF CallJoin, InUser, lockVars
  <2>5. QED
    BY <2>1, <2>3, <2>4, EnterKind
<1>6. ASSUME NEW m \in program[t].mutexes, CallMutexInit(t, m) PROVE Kind(t) /\ Acts(t)
  BY <1>6 DEF CallMutexInit, InUser, EnsureMutex, tokVars, thrVars, procVars, Kind, Same
<1>7. ASSUME NEW m \in program[t].mutexes,
             CallLock(t, m) \/ CallLockCrashed(t, m) \/ CallTryLock(t, m)
      PROVE  Kind(t) /\ Acts(t)
  <2>1. \E a \in {LockAct(ExtPtr(m, process[t])), TryLockAct(ExtPtr(m, process[t]))} :
          /\ Running(t) /\ pc[t] # "gone" /\ Enter(t, a)
          /\ UNCHANGED <<owned_mutexes, owner, holding>>
    BY <1>7 DEF CallLock, CallLockCrashed, CallTryLock, LockBy, InUser, EnsureMutex
  <2>2. m \in Mutexes
    BY <1>1
  <2>3. QED
    BY <1>3, <2>1, <2>2, EnterKind
<1>8. ASSUME NEW m \in program[t].mutexes, CallUnlock(t, m) PROVE Kind(t) /\ Acts(t)
  <2> DEFINE k == ExtPtr(m, process[t])
  <2>1. Running(t) /\ pc[t] # "gone" /\ UNCHANGED <<owned_mutexes, owner, holding>>
    BY <1>8 DEF CallUnlock, InUser, lockVars
  <2>2. m \in Mutexes
    BY <1>1
  <2>3. CASE Enter(t, UnlockAct(k))
    BY <1>3, <2>1, <2>2, <2>3, EnterKind
  <2>4. CASE ~Enter(t, UnlockAct(k))
    <3>1. Aborts
      BY <1>8, <2>1, <2>4 DEF CallUnlock, Aborts, Same, tokVars, thrVars
    <3>2. QED
      BY <2>1, <3>1 DEF Kind
  <2>5. QED
    BY <2>3, <2>4
<1>9. ASSUME /\ outcome' \in {outcome, "null_iterator"} /\ Running(t) /\ pc[t] # "gone"
             /\ UNCHANGED <<tokVars, thrVars, lockVars, exited, irregular>>
      PROVE  Kind(t) /\ Acts(t)
  BY <1>9 DEF tokVars, thrVars, lockVars, Kind, Aborts, Same
<1>10. ASSUME NEW m \in program[t].mutexes, CallMutexDestroy(t, m) PROVE Kind(t) /\ Acts(t)
  BY <1>9, <1>10 DEF CallMutexDestroy, CallDestroy, InUser
<1>11. ASSUME NEW c \in Conds, CallCondDestroy(t, c) PROVE Kind(t) /\ Acts(t)
  BY <1>9, <1>11 DEF CallCondDestroy, CallDestroy, InUser
<1>12. ASSUME NEW c \in Conds, NEW m \in program[t].mutexes,
              CallCondWait(t, c, m) \/ CallCondTimedWait(t, c, m)
       PROVE  Kind(t) /\ Acts(t)
  <2> DEFINE k == ExtPtr(m, process[t])
             v == ExtPtr(c, process[t])
  <2>1. k \in MutexKey /\ v \in CondKey
    BY <1>1, KeyFacts
  <2>2. PICK ty \in {"ATOMIC_WAIT", "ATOMIC_TIMEDWAIT"} :
          /\ Running(t) /\ pc[t] # "gone" /\ Enter(t, Act(ty, NoThread, k, v))
          /\ UNCHANGED <<owned_mutexes, owner, holding>>
    BY <1>12 DEF CallCondWait, CallCondTimedWait, InUser, EnsureMutex
  <2>3. Act(ty, NoThread, k, v) \in Action /\ NamedAct(t, Act(ty, NoThread, k, v))
    BY <2>1 DEF Act, Action, ActionType, NamedAct
  <2>4. QED
    BY <2>2, <2>3, EnterKind
<1>13. ASSUME NEW c \in Conds, CallCondSignal(t, c) \/ CallCondBroadcast(t, c)
       PROVE  Kind(t) /\ Acts(t)
  <2> DEFINE v == ExtPtr(c, process[t])
  <2>1. v \in CondKey
    BY <1>1, KeyFacts
  <2>2. PICK ty \in {"ATOMIC_NOTIFY_ONE", "ATOMIC_NOTIFY_ALL"} :
          /\ Running(t) /\ pc[t] # "gone" /\ Enter(t, Act(ty, NoThread, NoKey, v))
          /\ UNCHANGED <<owned_mutexes, owner, holding>>
    BY <1>13 DEF CallCondSignal, CallCondBroadcast, CallNotify, InUser, lockVars
  <2>3. Act(ty, NoThread, NoKey, v) \in Action /\ NamedAct(t, Act(ty, NoThread, NoKey, v))
    BY <2>1 DEF Act, Action, ActionType, NamedAct
  <2>4. QED
    BY <2>2, <2>3, EnterKind
<1>14. CASE Relock(t)
  <2>1. pending[t].mutex \in MutexKey
    BY <1>14 DEF Relock, Named
  <2>2. LockAct(pending[t].mutex) \in Action /\ NamedAct(t, LockAct(pending[t].mutex))
    BY <2>1, ActTypes DEF NamedAct
  <2>3. QED
    BY <1>14, <2>2, EnterKind DEF Relock, lockVars
<1>15. CASE CallAccess(t)
  <2>1. /\ Running(t) /\ pc[t] # "gone" /\ Same
        /\ UNCHANGED <<thread_count, process, irregular>>
    BY <1>15 DEF CallAccess, Same, lockVars
  <2>2. CASE process[t] \notin crashes
    <3>1. Passes(t, "evict", NewAct("NONATOMIC"))
      BY <1>15, <2>1, <2>2, TokenFacts DEF CallAccess, Passes
    <3>2. NewAct("NONATOMIC") \in Action /\ NamedAct(t, NewAct("NONATOMIC"))
      BY <1>2 DEF ActionType
    <3>3. QED
      BY <2>1, <3>1, <3>2 DEF Kind
  <2>3. CASE process[t] \in crashes
    <3>1. ProcessExit(t, CrashState(process[t])) /\ UNCHANGED <<pending, irregular>>
      BY <1>15, <2>1, <2>3 DEF CallAccess
    <3>2. QED
      BY <1>1, <2>1, <3>1, CrashEnds, ExitLeaves DEF Kind
  <2>4. QED
    BY <2>2, <2>3
<1>16. QED
  BY <1>4, <1>5, <1>6, <1>7, <1>8, <1>10, <1>11, <1>12, <1>13, <1>14, <1>15 DEF UserCall

\* The cases of execute.
LEMMA ExecuteKind ==
    ASSUME CoreType, TokenRuns, Named, Agree, NEW t \in Thread, Execute(t)
    PROVE  Kind(t) /\ Acts(t)
<1> DEFINE k == pending[t].mutex
<1>1. Acts(t)
  BY DEF Execute, Acts, Executes, ExecYield, ExecThreadFinish, ExecCreate, ExecJoin, JoinWoken,
         ExecTryLock, ExecLock, LockWoken, ExecUnlock, ExecWait, CondWoken, ExecTimedWait,
         ExecNotifyOne, ExecNotifyAll
<1> SUFFICES Kind(t)
  BY <1>1
<1>2. Running(t) /\ state \in [Thread -> ThreadState]
  BY <1>1 DEF Acts, CoreType
<1>3. pending[t].type \in {"ATOMIC_LOCK", "ATOMIC_TRYLOCK", "ATOMIC_UNLOCK", "ATOMIC_WAIT"}
        => k \in MutexKey
  BY DEF Named
<1>4. CASE ExecYield(t) \/ JoinWoken(t) \/ CondWoken(t)
  BY <1>4, ExecutedKind DEF ExecYield, JoinWoken, CondWoken, Same, lockVars, procVars
<1>5. CASE ExecThreadFinish(t) \/ ExecCreate(t)
  BY <1>1, <1>5 DEF Kind
<1>6. ASSUME ThreadWait(t, state), UNCHANGED lockVars,
             \/ pending[t].type = "PTHREAD_JOIN" /\ state[pending[t].thread] # "COMPLETED"
             \/ pending[t].type = "ATOMIC_LOCK" /\ ~Free(k)
      PROVE  Kind(t)
  <2>1. Blocks(t, state)
    BY <1>2, <1>6, WaitBlocks
  <2>2. WaitsFor(t)
    BY <1>6, <2>1 DEF WaitsFor, lockVars
  <2>3. QED
    BY <2>2 DEF Kind
<1>7. CASE ExecJoin(t)
  <2>1. CASE state[pending[t].thread] = "COMPLETED"
    BY <1>7, <2>1, ExecutedKind DEF ExecJoin, Same, lockVars
  <2>2. CASE state[pending[t].thread] # "COMPLETED"
    BY <1>6, <1>7, <2>2 DEF ExecJoin, Executes
  <2>3. QED
    BY <1>1, <2>1, <2>2
<1>8. CASE ExecTryLock(t)
  <2>1. k \in MutexKey
    BY <1>3, <1>8 DEF ExecTryLock, Executes
  <2>2. CASE Free(k)
    BY <1>2, <1>8, <2>1, <2>2, TakesKind DEF ExecTryLock
  <2>3. CASE ~Free(k)
    BY <1>8, <2>3, ExecutedKind DEF ExecTryLock, Same, lockVars
  <2>4. QED
    BY <1>1, <2>2, <2>3
<1>9. CASE ExecLock(t)
  <2>1. k \in MutexKey
    BY <1>3, <1>9 DEF ExecLock, Executes
  <2>2. CASE Free(k) /\ TakesLock(t, k)
    BY <1>2, <2>1, <2>2, TakesKind
  <2>3. CASE LockAgain(t, k)
    <3>1. CASE mutex_type[k] \in {"recursive", "errorcheck"}
      <4>1. Executed(t) /\ UNCHANGED <<state, procVars>> /\ Same
        BY <2>3, <3>1 DEF LockAgain, Same, lockVars
      <4>2. QED
        BY <4>1, ExecutedKind
    <3>2. CASE mutex_type[k] \notin {"recursive", "errorcheck"}
      <4>1. Aborts
        BY <2>3, <3>2 DEF LockAgain, Dies, Aborts, Same, tokVars, thrVars, lockVars
      <4>2. QED
        BY <4>1 DEF Kind
    <3>3. QED
      BY <3>1, <3>2
  <2>4. CASE ~Free(k) /\ LockWaits(t)
    BY <1>6, <1>9, <2>4 DEF ExecLock, Executes, LockWaits
  <2>5. QED
    BY <1>1, <1>9, <2>2, <2>3, <2>4 DEF ExecLock
<1>10. CASE LockWoken(t)
  <2>1. k \in MutexKey
    BY <1>3, <1>10 DEF LockWoken
  <2>2. CASE Free(k) /\ TakesLock(t, k)
    BY <1>2, <2>1, <2>2, TakesKind
  <2>3. CASE ~Free(k) /\ LockWaits(t)
    BY <1>6, <1>10, <2>3 DEF LockWoken, LockWaits
  <2>4. QED
    BY <1>1, <1>10, <2>2, <2>3 DEF LockWoken
<1>11. CASE ExecUnlock(t)
  <2>1. k \in MutexKey
    BY <1>3, <1>11 DEF ExecUnlock, Executes
  <2>2. CASE ~LastUnlock(t, k)
    BY <1>11, <2>1, <2>2, UnlocksSame, ExecutedKind DEF ExecUnlock, Same
  <2>3. CASE LastUnlock(t, k)
    <3>1. owner[k] = t /\ SetOwnerOK(k, NoThread)
      BY <1>2, <2>1, <2>3, SetOwnerHolds DEF LastUnlock
    <3>2. Releases(t, k)
      BY <1>11, <2>1, <2>3, <3>1 DEF ExecUnlock, Releases, LetsGo, Executed, procVars
    <3>3. QED
      BY <2>1, <3>2 DEF Kind
  <2>4. QED
    BY <1>1, <2>2, <2>3
<1>12. CASE ExecWait(t)
  <2>1. k \in MutexKey
    BY <1>3, <1>12 DEF ExecWait, Executes
  <2>2. CASE ~LastUnlock(t, k)
    BY <1>12, <2>1, <2>2, UnlocksSame, ExecutedKind DEF ExecWait, Same
  <2>3. CASE LastUnlock(t, k)
    <3>1. owner[k] = t /\ SetOwnerOK(k, NoThread)
      BY <1>2, <2>1, <2>3, SetOwnerHolds DEF LastUnlock
    <3>2. WakeAll("ATOMIC_LOCK", k) \in [Thread -> ThreadState]
      BY <1>2 DEF WakeAll, ThreadState
    <3>3. ThreadWait(t, WakeAll("ATOMIC_LOCK", k)) /\ LetsGo(t, k)
      BY <1>12, <2>1, <2>3, <3>1 DEF ExecWait, LetsGo
    <3>4. Sleeps(t, k)
      BY <1>2, <1>12, <3>2, <3>3, WaitBlocks DEF Sleeps, ExecWait, Executes
    <3>5. QED
      BY <2>1, <3>4 DEF Kind
  <2>4. QED
    BY <1>1, <2>2, <2>3
<1>13. CASE ExecTimedWait(t)
  <2>1. Aborts
    BY <1>13 DEF ExecTimedWait, Dies, Aborts, Same, tokVars, thrVars, lockVars
  <2>2. QED
    BY <1>1, <2>1 DEF Kind
<1>14. CASE ExecNotifyOne(t) \/ ExecNotifyAll(t)
  <2> DEFINE W == {u \in Thread : state'[u] # state[u]}
  <2>1. \A u \in Thread :
          \/ state'[u] = state[u]
          \/ state[u] = "BLOCKED" /\ pending[u].type = "ATOMIC_WAIT" /\ state'[u] = "RUNNING"
    BY <1>14 DEF ExecNotifyOne, ExecNotifyAll, WakeOne, WakeAll, Wakes, WaitingOn
  <2>2. state' = [u \in Thread |-> IF u \in W THEN "RUNNING" ELSE state[u]]
    <3>1. state' = [u \in Thread |-> state'[u]]
      BY <1>14 DEF ExecNotifyOne, ExecNotifyAll, WakeOne, WakeAll
    <3>2. QED
      BY <2>1, <3>1
  <2>3. Runs(t, W)
    BY <1>14, <2>1, <2>2 DEF Runs, Same, ExecNotifyOne, ExecNotifyAll, Executed, lockVars, procVars
  <2>4. QED
    BY <1>1, <2>3 DEF Kind
<1>15. QED
  BY <1>4, <1>5, <1>7, <1>8, <1>9, <1>10, <1>11, <1>12, <1>13, <1>14, <1>1 DEF Execute

\* Evictions and the end of a process.
LEMMA EndKind ==
    ASSUME CoreType, TokenRuns, Named, NEW t \in Thread, EndOfAction(t) \/ EndOfProcess(t)
    PROVE  Kind(t) /\ Acts(t)
<1>1. Acts(t)
  BY DEF EndOfAction, EndOfProcess, Acts, CrashOther, CrashSelf, Return, CallShutdown, Shutdown,
         UserExit, ShutdownCrash, InUser
<1> SUFFICES Kind(t)
  BY <1>1
<1>2. Running(t) /\ process[t] \in Proc /\ pending[t] \in Action
  BY <1>1 DEF Acts, CoreType
<1>3. CASE \E q \in Proc : CrashOther(t, q)
  BY <1>1, <1>3 DEF CrashOther, Kind, Same, tokVars, thrVars, lockVars
<1>4. CASE Return(t)
  BY <1>1, <1>4 DEF Kind
<1>5. ASSUME NEW st, EndState(process[t], st), ProcessExit(t, st),
             UNCHANGED <<thread_count, process, pending, lockVars, irregular>>
      PROVE  Kind(t)
  BY <1>2, <1>5, ExitLeaves DEF Kind, Same, lockVars
<1>6. CASE CrashSelf(t)
  BY <1>1, <1>2, <1>5, <1>6, CrashEnds DEF CrashSelf
<1>7. CASE Shutdown(t)
  BY <1>1, <1>2, <1>5, <1>7, ShutdownEnds DEF Shutdown
<1>8. ASSUME NEW i \in Thread, ShutdownCrash(t, i) PROVE Kind(t)
  <2> DEFINE st == [u \in Thread |->
                         IF u <= i /\ u \in Existing /\ process[u] = process[t]
                         THEN ShutdownState(process[t])[u]
                         ELSE IF u \in Existing /\ process[u] = process[t]
                         THEN CrashState(process[t])[u]
                         ELSE IF \E v \in Existing : \E k \in owned_mutexes[v] :
                                    /\ v > i
                                    /\ process[v] = process[t]
                                    /\ ~is_completed(state, v)
                                    /\ WaitingOn(u, "ATOMIC_LOCK", k)
                         THEN "RUNNING" ELSE state[u]]
  <2>1. /\ ProcessExit(t, st) /\ i \in Existing
        /\ UNCHANGED <<thread_count, process, pending, lockVars, irregular>>
    BY <1>8 DEF ShutdownCrash
  <2>2. EndState(process[t], st)
    <3> HIDE DEF st
    <3>1. QED
      BY <1>2, <2>1, ShutdownCrashEnds DEF st
  <2>3. QED
    <3> HIDE DEF st
    <3>1. QED
      BY <1>1, <1>5, <2>1, <2>2
<1>9. CASE CallShutdown(t)
  <2>1. Yield(t, state, "shutdown") /\ Same /\ UNCHANGED <<pending, irregular>>
    BY <1>9 DEF CallShutdown, Same, lockVars
  <2>2. pending' = [pending EXCEPT ![t] = pending[t]]
    BY <2>1 DEF CoreType
  <2>3. Passes(t, "shutdown", pending[t])
    BY <1>2, <2>1, <2>2, YieldPasses DEF Passes
  <2>4. NamedAct(t, pending[t])
    BY DEF Named, NamedAct
  <2>5. QED
    BY <1>2, <2>3, <2>4 DEF Kind
<1>10. CASE UserExit(t)
  <2> DEFINE s3 == [state EXCEPT ![t] = "COMPLETED"]
  <2>1. ProcessExit(t, state) /\ Same /\ UNCHANGED pending /\ irregular' = irregular \cup {process[t]}
    BY <1>10 DEF UserExit, Same, lockVars
  <2>2. Finalized(state, t) = s3
    BY <1>2, TokenFacts DEF Finalized, is_completed
  <2>3. s3 \in [Thread -> ThreadState]
    BY DEF CoreType, ThreadState
  <2>4. TokenGoes(s3, "finished")
    BY <1>2, <2>1, <2>2, <2>3, LastYieldGoes DEF ProcessExit
  <2>5. LeavesIrregularly(t)
    BY <2>1, <2>2, <2>4 DEF LeavesIrregularly, ProcessExit
  <2>6. QED
    BY <1>1, <2>5 DEF Kind
<1>11. QED
  BY <1>3, <1>4, <1>6, <1>7, <1>8, <1>9, <1>10, <1>1 DEF EndOfAction, EndOfProcess

LEMMA StepKind ==
    ASSUME IInv, BookType, NEW t \in Thread, Step(t)
    PROVE  Kind(t) /\ Acts(t)
  BY UserCallKind, ExecuteKind, EndKind DEF Step, IInv

\* The bookkeeping keeps its types.
LEMMA BookStep ==
    ASSUME CoreType, Named, BookType, NEW t \in Thread, Step(t)
    PROVE  BookType'
<1>1. /\ process[t] \in Proc /\ program[t].mutexes \subseteq Mutexes
      /\ \A m \in Mutexes : ExtPtr(m, process[t]) \in MutexKey
      /\ \A c \in Conds : ExtPtr(c, process[t]) \in CondKey
  BY KeyFacts DEF CoreType, BookType, Program
<1>2. ASSUME NEW k \in MutexKey, NEW ty \in {"none", "default", "recursive", "errorcheck"},
             EnsureMutex(k, ty)
      PROVE  /\ mutex_map' \subseteq MutexKey
             /\ mutex_type' \in [MutexKey -> {"none", "default", "recursive", "errorcheck"}]
             /\ UNCHANGED recursive_lock_count
  BY <1>2 DEF EnsureMutex, BookType
<1>3. ASSUME NEW call, InUser(t, call) PROVE calls' \in [Thread -> Nat] /\ program' = program
  BY <1>3 DEF InUser, BookType
<1>4. ASSUME NEW a, Enter(t, a) PROVE UNCHANGED <<crashes, completed_procs>>
  BY <1>4 DEF Enter
<1>5. CASE UserCall(t)
  <2>1. UNCHANGED <<crashes, completed_procs>>
    BY <1>4, <1>5
       DEF UserCall, ThreadStart, CallYield, CallSleep, CallAccess, YieldBy, CallCreate, CallThreadFinish,
           CallJoin, CallMutexInit, CallLock, CallLockCrashed, CallTryLock, LockBy, CallUnlock,
           CallMutexDestroy, CallCondDestroy, CallDestroy, CallCondSignal, CallCondBroadcast,
           CallNotify, CallCondWait, CallCondTimedWait, Relock, procVars
  <2>2. calls' \in [Thread -> Nat] /\ program' = program
    <3>1. UNCHANGED progVars => calls' \in [Thread -> Nat] /\ program' = program
      BY DEF progVars, BookType
    <3>2. UNCHANGED progVars \/ \E call \in CallNames : InUser(t, call)
      BY <1>5
         DEF UserCall, ThreadStart, CallYield, CallSleep, CallAccess, YieldBy, CallCreate, CallThreadFinish,
             CallJoin, CallMutexInit, CallLock, CallLockCrashed, CallTryLock, LockBy, CallUnlock,
             CallMutexDestroy, CallCondDestroy, CallCondSignal, CallCondBroadcast,
             CallNotify, CallCondWait, CallCondTimedWait, Relock, CallNames
    <3>3. QED
      BY <1>3, <3>1, <3>2
  <2>3. cond_map' \subseteq CondKey
    <3>1. \/ cond_map' = cond_map
          \/ \E c \in Conds : cond_map' = cond_map \cup {ExtPtr(c, process[t])}
      BY <1>5
         DEF UserCall, ThreadStart, CallYield, CallSleep, CallAccess, YieldBy, CallCreate, CallThreadFinish,
             CallJoin, CallMutexInit, CallLock, CallLockCrashed, CallTryLock, LockBy, CallUnlock,
             CallMutexDestroy, CallCondDestroy, CallDestroy, CallCondSignal, CallCondBroadcast,
             CallNotify, CallCondWait, CallCondTimedWait, Relock, mapVars, EnsureCond
    <3>2. QED
      BY <1>1, <3>1 DEF BookType
  <2>4. /\ mutex_map' \subseteq MutexKey
        /\ mutex_type' \in [MutexKey -> {"none", "default", "recursive", "errorcheck"}]
        /\ UNCHANGED recursive_lock_count
    <3>1. \/ UNCHANGED <<mutex_map, mutex_type, recursive_lock_count>>
          \/ \E m \in program[t].mutexes : \E ty \in {"default", MutexType[m]} :
                EnsureMutex(ExtPtr(m, process[t]), ty)
      BY <1>5
         DEF UserCall, ThreadStart, CallYield, CallSleep, CallAccess, YieldBy, CallCreate, CallThreadFinish,
             CallJoin, CallMutexInit, CallLock, CallLockCrashed, CallTryLock, LockBy, CallUnlock,
             CallMutexDestroy, CallCondDestroy, CallDestroy, CallCondSignal, CallCondBroadcast,
             CallNotify, CallCondWait, CallCondTimedWait, Relock, mapVars, lockVars
    <3>2. CASE UNCHANGED <<mutex_map, mutex_type, recursive_lock_count>>
      BY <3>2 DEF BookType
    <3>3. ASSUME NEW m \in program[t].mutexes, NEW ty \in {"default", MutexType[m]},
                 EnsureMutex(ExtPtr(m, process[t]), ty)
          PROVE  <2>4!1 /\ <2>4!2 /\ <2>4!3
      <4>1. ty \in {"none", "default", "recursive", "errorcheck"}
        BY <1>1, ProgramAssumption
      <4>2. QED
        BY <1>1, <1>2, <3>3, <4>1
    <3>4. QED
      BY <3>1, <3>2, <3>3
  <2>5. QED
    BY <2>1, <2>2, <2>3, <2>4 DEF BookType
<1>6. CASE Execute(t)
  <2>1. UNCHANGED <<mutex_map, cond_map, crashes, completed_procs, program, calls, mutex_type>>
    BY <1>6
       DEF Execute, ExecYield, ExecThreadFinish, ExecCreate, ExecJoin, JoinWoken, ExecTryLock,
           ExecLock, LockWoken, ExecUnlock, ExecWait, CondWoken, ExecTimedWait, ExecNotifyOne,
           ExecNotifyAll, Executed, TakesLock, LockAgain, LockWaits, ThreadWait, Dies, Unlocks,
           SetOwner, mapVars, procVars, progVars, lockVars
  <2>2. \/ UNCHANGED recursive_lock_count
        \/ \E k \in MutexKey : recursive_lock_count' = [recursive_lock_count EXCEPT ![k] = 0]
        \/ \E k \in MutexKey : recursive_lock_count' = [recursive_lock_count EXCEPT ![k] = @ + 1]
        \/ \E k \in MutexKey :
             /\ recursive_lock_count[k] > 0
             /\ recursive_lock_count' = [recursive_lock_count EXCEPT ![k] = @ - 1]
    <3>1. CASE ExecTryLock(t) \/ ExecLock(t) \/ LockWoken(t) \/ ExecUnlock(t) \/ ExecWait(t)
      <4>1. pending[t].mutex \in MutexKey
        BY <3>1 DEF Named, ExecTryLock, ExecLock, LockWoken, ExecUnlock, ExecWait, Executes
      <4>2. QED
        BY <3>1, <4>1
           DEF ExecTryLock, ExecLock, LockWoken, ExecUnlock, ExecWait, TakesLock, LockAgain,
               LockWaits, Dies, Unlocks, SetOwner, lockVars
    <3>2. CASE ~(ExecTryLock(t) \/ ExecLock(t) \/ LockWoken(t) \/ ExecUnlock(t) \/ ExecWait(t))
      BY <1>6, <3>2
         DEF Execute, ExecYield, ExecThreadFinish, ExecCreate, ExecJoin, JoinWoken, CondWoken,
             ExecTimedWait, ExecNotifyOne, ExecNotifyAll, Dies, lockVars
    <3>3. QED
      BY <3>1, <3>2
  <2>3. recursive_lock_count' \in [MutexKey -> Nat]
    <3>1. recursive_lock_count \in [MutexKey -> Nat]
      BY DEF BookType
    <3>2. QED
      BY <2>2, <3>1
  <2>4. QED
    BY <2>1, <2>3 DEF BookType
<1>7. CASE EndOfAction(t) \/ EndOfProcess(t)
  <2>1. UNCHANGED <<mutex_map, cond_map, mutex_type, recursive_lock_count>>
    BY <1>7
       DEF EndOfAction, EndOfProcess, CrashOther, CrashSelf, Return, CallShutdown, Shutdown,
           UserExit, ShutdownCrash, mapVars, lockVars
  <2>2. crashes' \subseteq Proc
    <3>1. UNCHANGED crashes \/ \E q \in Proc : crashes' = crashes \cup {q}
      BY <1>1, <1>7
         DEF EndOfAction, EndOfProcess, CrashOther, CrashSelf, Return, CallShutdown, Shutdown,
             UserExit, ShutdownCrash, procVars
    <3>2. QED
      BY <3>1 DEF BookType
  <2>3. completed_procs' \subseteq Proc
    BY <1>1, <1>7
       DEF EndOfAction, EndOfProcess, CrashOther, CrashSelf, Return, CallShutdown, Shutdown,
           UserExit, ShutdownCrash, procVars, BookType
  <2>4. calls' \in [Thread -> Nat] /\ program' = program
    <3>1. UNCHANGED progVars \/ InUser(t, "exit")
      BY <1>7
         DEF EndOfAction, EndOfProcess, CrashOther, CrashSelf, Return, CallShutdown, Shutdown,
             UserExit, ShutdownCrash
    <3>2. QED
      BY <1>3, <3>1 DEF progVars, BookType
  <2>5. QED
    BY <2>1, <2>2, <2>3, <2>4 DEF BookType
<1>8. QED
  BY <1>5, <1>6, <1>7 DEF Step

-----------------------------------------------------------------------------
\* Each kind of step preserves the invariant.

\* The token is passed in a yield.
LEMMA PassesInv ==
    ASSUME IInv, NEW t \in Thread, Acts(t), NEW w \in {"yield", "shutdown", "evict"}, NEW a \in Action,
           NamedAct(t, a), Passes(t, w, a)
    PROVE  IInv'
<1>1. /\ state[t] = "RUNNING" /\ t \in Existing /\ active_thread = t /\ outcome = "running"
      /\ Existing \subseteq Thread /\ Proc \subseteq Thread /\ pc[t] # "gone"
      /\ pc \in [Thread -> PC] /\ pending \in [Thread -> Action]
  BY TokenFacts DEF IInv, Acts, CoreType
<1>2. /\ UNCHANGED <<thread_count, process, owned_mutexes, owner, holding, state, exited,
                     outcome, irregular>>
      /\ Existing' = Existing
      /\ pc' = [pc EXCEPT ![t] = w] /\ pending' = [pending EXCEPT ![t] = a]
      /\ active_thread' \in Existing /\ state[active_thread'] = "RUNNING"
  BY DEF Passes, Same, Existing
<1>3. CoreType'
  BY <1>1, <1>2 DEF IInv, CoreType, PC
<1>4. Born'
  BY <1>1, <1>2 DEF IInv, Born
<1>5. Named'
  BY <1>1, <1>2 DEF IInv, Named, NamedAct
<1>6. TokenRuns'
  BY <1>2 DEF TokenRuns
<1>7. Left'
  BY <1>1, <1>2 DEF IInv, Left, is_completed
<1>8. Agree' /\ SetOwnerAsserts'
  BY <1>2 DEF IInv, Agree, SetOwnerAsserts
<1>9. NoLostWakeUp'
  BY <1>1, <1>2 DEF IInv, NoLostWakeUp, Free, OwnerCrashed
<1>10. JoinSound'
  BY <1>1, <1>2 DEF IInv, JoinSound
<1>11. ResetAfterAll'
  BY <1>1, <1>2 DEF ResetAfterAll
<1>12. QED
  BY <1>3, <1>4, <1>5, <1>6, <1>7, <1>8, <1>9, <1>10, <1>11 DEF IInv

\* The process of t ends.
LEMMA LeavesInv ==
    ASSUME IInv, NEW t \in Thread, Acts(t), NEW st \in [Thread -> ThreadState], Leaves(t, st)
    PROVE  IInv'
<1>1. /\ state[t] = "RUNNING" /\ t \in Existing /\ active_thread = t /\ outcome = "running"
      /\ Existing \subseteq Thread /\ Proc \subseteq Existing /\ pc[t] # "gone"
      /\ pc \in [Thread -> PC] /\ state \in [Thread -> ThreadState]
      /\ process \in [Thread -> Proc]
  BY TokenFacts, ExistingThreads DEF IInv, Acts, CoreType
<1>2. /\ UNCHANGED <<thread_count, process, owned_mutexes, owner, holding, pending, irregular>>
      /\ Existing' = Existing
      /\ state' = st /\ exited' = exited \cup {process[t]}
      /\ pc' = [u \in Thread |-> IF u \in Existing /\ process[u] = process[t]
                               THEN "gone" ELSE pc[u]]
      /\ EndState(process[t], st) /\ TokenGoes(st, "finished")
  BY DEF Leaves, Same, Existing
<1>3. \A u \in Thread : u \in Existing /\ process[u] = process[t] =>
                            pc'[u] = "gone" /\ is_completed(st, u)
  BY <1>2 DEF EndState, is_completed
<1>4. \A u \in Thread : ~(u \in Existing /\ process[u] = process[t]) =>
         /\ pc'[u] = pc[u]
         /\ \/ st[u] = state[u]
            \/ state[u] = "BLOCKED" /\ st[u] = "RUNNING" /\ pending[u].type = "ATOMIC_LOCK"
  BY <1>2 DEF EndState
<1>5. \A u \in Thread : is_completed(state, u) => st[u] = state[u]
  BY <1>2 DEF EndState, is_completed
<1>6. CoreType'
  BY <1>1, <1>2 DEF IInv, CoreType, PC, TokenGoes, Outcome, Existing
<1>7. Born'
  <2>1. \A u \in Existing : st[u] # "NONE" /\ pc'[u] # "none"
    BY <1>1, <1>3, <1>4 DEF IInv, Born, is_completed
  <2>2. \A u \in Thread \ Existing : st[u] = "NONE" /\ pc'[u] = "none"
    BY <1>4 DEF IInv, Born
  <2>3. QED
    BY <1>2, <2>1, <2>2 DEF IInv, Born
<1>8. Named'
  BY <1>2, <1>3, <1>4 DEF IInv, Named
<1>9. TokenRuns'
  BY <1>2 DEF TokenRuns, TokenGoes
<1>10. Left'
  <2>1. \A u \in Existing : process[u] \in exited' => pc'[u] = "gone"
    BY <1>1, <1>2, <1>3, <1>4 DEF IInv, Left
  <2>2. \A u \in Thread : st[u] = "CRASHED" => process[u] \in exited'
    BY <1>2, <1>4 DEF IInv, Left
  <2>3. \A u \in Existing : pc'[u] = "gone" => is_completed(st, u) \/ process[u] \in irregular
    <3> SUFFICES ASSUME NEW u \in Existing, pc'[u] = "gone", process[u] # process[t]
                 PROVE  is_completed(st, u) \/ process[u] \in irregular
      BY <1>1, <1>3
    <3>1. pc[u] = "gone"
      BY <1>1, <1>4
    <3>2. is_completed(state, u) \/ process[u] \in irregular
      BY <1>1, <3>1 DEF IInv, Left
    <3>3. QED
      BY <1>1, <1>5, <3>2 DEF is_completed
  <2>4. \A p \in Proc : is_completed(st, p) => p \in exited' \cup irregular
    <3> SUFFICES ASSUME NEW p \in Proc, is_completed(st, p), p # process[t]
                 PROVE  p \in exited \cup irregular
      BY <1>2
    <3>1. p \in Thread /\ process[p] = p
      BY <1>1 DEF IInv, Born
    <3>2. is_completed(state, p)
      BY <1>4, <3>1 DEF is_completed
    <3>3. QED
      BY <3>2 DEF IInv, Left
  <2>5. QED
    BY <1>2, <2>1, <2>2, <2>3, <2>4 DEF Left, is_completed
<1>11. Agree'
  BY <1>2, <1>5 DEF IInv, Agree, is_completed
<1>12. SetOwnerAsserts'
  BY <1>1, <1>2 DEF SetOwnerAsserts, TokenGoes
<1>13. NoLostWakeUp'
  <2> SUFFICES ASSUME NEW u \in Thread, st[u] = "BLOCKED", pending[u].type = "ATOMIC_LOCK"
               PROVE  ~Free(pending[u].mutex)'
    BY <1>2 DEF NoLostWakeUp
  <2> DEFINE k == pending[u].mutex
  <2>1. state[u] = "BLOCKED"
    BY <1>3, <1>4 DEF is_completed
  <2>2. ~Free(k) /\ k \in MutexKey
    BY <2>1 DEF IInv, NoLostWakeUp, Named
  <2>3. owner[k] \in Thread /\ state[owner[k]] # "CRASHED"
    BY <2>2 DEF IInv, CoreType, Free, OwnerCrashed
  <2>4. k \in owned_mutexes[owner[k]]
    BY <2>2, <2>3 DEF IInv, Agree
  <2>5. st[owner[k]] # "CRASHED"
    BY <1>2, <2>3, <2>4 DEF EndState
  <2>6. owner[k] # NoThread
    BY <2>2 DEF Free
  <2>7. QED
    BY <1>2, <2>5, <2>6 DEF Free, OwnerCrashed
<1>14. JoinSound'
  <2> SUFFICES ASSUME NEW u \in Existing, pc'[u] = "blocked", pending[u].type = "PTHREAD_JOIN"
               PROVE  /\ st[u] = "BLOCKED" => st[pending[u].thread] \in {"RUNNING", "BLOCKED"}
                      /\ st[u] = "RUNNING" => st[pending[u].thread] = "COMPLETED"
    BY <1>2 DEF JoinSound
  <2> DEFINE v == pending[u].thread
  <2>1. u \in Thread /\ process[u] # process[t] /\ pc[u] = "blocked"
    BY <1>1, <1>3, <1>4
  <2>2. v \in Existing /\ process[v] = process[u] /\ v \in Thread
    BY <1>1, <2>1 DEF IInv, Named
  <2>3. st[u] = state[u]
    BY <1>4, <2>1
  <2>4. st[v] = state[v] \/ (state[v] = "BLOCKED" /\ st[v] = "RUNNING")
    BY <1>4, <2>1, <2>2
  <2>5. QED
    BY <2>1, <2>2, <2>3, <2>4 DEF IInv, JoinSound
<1>15. ResetAfterAll'
  <2> SUFFICES ASSUME outcome' = "finished"
               PROVE  /\ Proc \subseteq exited' \cup irregular
                      /\ \A u \in Existing : is_completed(st, u)
    BY <1>2 DEF ResetAfterAll, Lingers, is_completed
  <2>1. \A u \in Existing \ {t} : st[u] \notin {"RUNNING", "BLOCKED"}
    BY <1>1, <1>2 DEF TokenGoes
  <2>2. \A u \in Existing : is_completed(st, u)
    <3>1. \A u \in Existing : st[u] # "NONE" /\ st[u] \in ThreadState
      BY <1>1, <1>2, <1>7 DEF Born
    <3>2. QED
      BY <1>1, <1>3, <2>1, <3>1 DEF is_completed, ThreadState
  <2>3. QED
    BY <1>1, <1>2, <1>10, <2>2 DEF Left, is_completed
<1>16. QED
  BY <1>6, <1>7, <1>8, <1>9, <1>10, <1>11, <1>12, <1>13, <1>14, <1>15 DEF IInv

\* t calls exit() and leaves the other threads of its process behind.
LEMMA LeavesIrregularlyInv ==
    ASSUME IInv, NEW t \in Thread, Acts(t), LeavesIrregularly(t)
    PROVE  IInv'
<1> DEFINE st == [state EXCEPT ![t] = "COMPLETED"]
<1>1. /\ state[t] = "RUNNING" /\ t \in Existing /\ active_thread = t /\ outcome = "running"
      /\ Existing \subseteq Thread /\ Proc \subseteq Existing /\ pc[t] # "gone"
      /\ pc \in [Thread -> PC] /\ state \in [Thread -> ThreadState]
      /\ process \in [Thread -> Proc]
  BY TokenFacts, ExistingThreads DEF IInv, Acts, CoreType
<1>2. /\ UNCHANGED <<thread_count, process, owned_mutexes, owner, holding, pending>>
      /\ Existing' = Existing
      /\ irregular' = irregular \cup {process[t]}
      /\ state' = st /\ exited' = exited \cup {process[t]}
      /\ pc' = [u \in Thread |-> IF u \in Existing /\ process[u] = process[t]
                               THEN "gone" ELSE pc[u]]
      /\ TokenGoes(st, "finished")
  BY DEF LeavesIrregularly, Same, Existing
<1>3. /\ st \in [Thread -> ThreadState] /\ st[t] = "COMPLETED"
      /\ \A u \in Thread \ {t} : st[u] = state[u]
  BY <1>1 DEF ThreadState
<1>4. \A u \in Thread : u \in Existing /\ process[u] = process[t] =>
                            pc'[u] = "gone" /\ process[u] \in irregular'
  BY <1>2
<1>5. \A u \in Thread : ~(u \in Existing /\ process[u] = process[t]) =>
         pc'[u] = pc[u] /\ st[u] = state[u]
  BY <1>1, <1>2, <1>3
<1> HIDE DEF st
<1>6. CoreType'
  BY <1>1, <1>2, <1>3 DEF IInv, CoreType, PC, TokenGoes, Outcome, Existing
<1>7. Born'
  BY <1>1, <1>2, <1>3 DEF IInv, Born
<1>8. Named'
  BY <1>2, <1>4, <1>5 DEF IInv, Named
<1>9. TokenRuns'
  BY <1>2 DEF TokenRuns, TokenGoes
<1>10. Left'
  <2>1. \A u \in Existing : process[u] \in exited' => pc'[u] = "gone"
    BY <1>1, <1>2, <1>4, <1>5 DEF IInv, Left
  <2>2. \A u \in Thread : st[u] = "CRASHED" => process[u] \in exited'
    BY <1>2, <1>3 DEF IInv, Left
  <2>3. \A u \in Existing : pc'[u] = "gone" => is_completed(st, u) \/ process[u] \in irregular'
    BY <1>1, <1>2, <1>3, <1>4, <1>5 DEF IInv, Left, is_completed
  <2>4. \A p \in Proc : is_completed(st, p) => p \in exited' \cup irregular'
    <3> SUFFICES ASSUME NEW p \in Proc, is_completed(st, p), p # process[t]
                 PROVE  p \in exited \cup irregular
      BY <1>2
    <3>1. p \in Thread /\ process[p] = p
      BY <1>1 DEF IInv, Born
    <3>2. is_completed(state, p)
      BY <1>5, <3>1 DEF is_completed
    <3>3. QED
      BY <3>2 DEF IInv, Left
  <2>5. QED
    BY <1>2, <2>1, <2>2, <2>3, <2>4 DEF Left, is_completed
<1>11. Agree'
  BY <1>1, <1>2, <1>3 DEF IInv, Agree
<1>12. SetOwnerAsserts'
  BY <1>1, <1>2 DEF SetOwnerAsserts, TokenGoes
<1>13. NoLostWakeUp'
  <2> SUFFICES ASSUME NEW u \in Thread, st[u] = "BLOCKED", pending[u].type = "ATOMIC_LOCK"
               PROVE  ~Free(pending[u].mutex)'
    BY <1>2 DEF NoLostWakeUp
  <2> DEFINE k == pending[u].mutex
  <2>1. state[u] = "BLOCKED"
    BY <1>3
  <2>2. ~Free(k) /\ k \in MutexKey
    BY <2>1 DEF IInv, NoLostWakeUp, Named
  <2>3. owner[k] \in Thread /\ owner[k] # NoThread /\ state[owner[k]] # "CRASHED"
    BY <2>2 DEF IInv, CoreType, Free, OwnerCrashed
  <2>4. st[owner[k]] # "CRASHED"
    BY <1>3, <2>3
  <2>5. QED
    BY <1>2, <2>3, <2>4 DEF Free, OwnerCrashed
<1>14. JoinSound'
  <2> SUFFICES ASSUME NEW u \in Existing, pc'[u] = "blocked", pending[u].type = "PTHREAD_JOIN"
               PROVE  /\ st[u] = "BLOCKED" => st[pending[u].thread] \in {"RUNNING", "BLOCKED"}
                      /\ st[u] = "RUNNING" => st[pending[u].thread] = "COMPLETED"
    BY <1>2 DEF JoinSound
  <2> DEFINE v == pending[u].thread
  <2>1. u \in Thread /\ process[u] # process[t] /\ pc[u] = "blocked"
    BY <1>1, <1>4, <1>5
  <2>2. v \in Existing /\ process[v] = process[u] /\ v \in Thread
    BY <1>1, <2>1 DEF IInv, Named
  <2>3. st[u] = state[u] /\ st[v] = state[v]
    BY <1>5, <2>1, <2>2
  <2>4. QED
    BY <2>1, <2>2, <2>3 DEF IInv, JoinSound
<1>15. ResetAfterAll'
  <2> SUFFICES ASSUME outcome' = "finished"
               PROVE  /\ Proc \subseteq exited' \cup irregular'
                      /\ \A u \in Existing : is_completed(st, u)
    BY <1>2 DEF ResetAfterAll, Lingers, is_completed
  <2>1. \A u \in Existing \ {t} : st[u] \notin {"RUNNING", "BLOCKED"}
    BY <1>1, <1>2 DEF TokenGoes
  <2>2. \A u \in Existing : is_completed(st, u)
    <3>1. \A u \in Existing : st[u] # "NONE" /\ st[u] \in ThreadState
      BY <1>1, <1>2, <1>3, <1>7 DEF Born
    <3>2. QED
      BY <1>1, <1>3, <2>1, <3>1 DEF is_completed, ThreadState
  <2>3. QED
    BY <1>1, <1>2, <1>10, <2>2 DEF Left, is_completed
<1>16. QED
  BY <1>6, <1>7, <1>8, <1>9, <1>10, <1>11, <1>12, <1>13, <1>14, <1>15 DEF IInv

\* An action that changes no owner, and may wake who waits for a condition.
LEMMA RunsInv ==
    ASSUME IInv, NEW t \in Thread, Acts(t), NEW W \in SUBSET Thread, Runs(t, W)
    PROVE  IInv'
<1>1. /\ state[t] = "RUNNING" /\ t \in Existing /\ active_thread = t /\ outcome = "running"
      /\ Existing \subseteq Thread /\ Proc \subseteq Thread /\ pc[t] # "gone"
      /\ pc \in [Thread -> PC] /\ state \in [Thread -> ThreadState]
  BY TokenFacts DEF IInv, Acts, CoreType
<1>2. /\ UNCHANGED <<thread_count, process, owned_mutexes, owner, holding, active_thread,
                     pending, exited, outcome, irregular>>
      /\ Existing' = Existing
      /\ pc' = [pc EXCEPT ![t] = "evict"]
      /\ \A u \in Thread : \/ state'[u] = state[u]
                           \/ /\ state[u] = "BLOCKED" /\ state'[u] = "RUNNING"
                              /\ pending[u].type = "ATOMIC_WAIT"
      /\ state' \in [Thread -> ThreadState]
  BY <1>1 DEF Runs, Same, Existing, ThreadState
<1>3. CoreType'
  BY <1>1, <1>2 DEF IInv, CoreType, PC
<1>4. Born'
  BY <1>1, <1>2 DEF IInv, Born
<1>5. Named'
  BY <1>1, <1>2 DEF IInv, Named
<1>6. TokenRuns'
  BY <1>1, <1>2 DEF TokenRuns
<1>7. Left'
  BY <1>1, <1>2 DEF IInv, Left, is_completed
<1>8. Agree' /\ SetOwnerAsserts'
  BY <1>2 DEF IInv, Agree, SetOwnerAsserts
<1>9. NoLostWakeUp'
  BY <1>1, <1>2 DEF IInv, NoLostWakeUp, Free, OwnerCrashed, CoreType, Named
<1>10. JoinSound'
  BY <1>1, <1>2 DEF IInv, JoinSound, Named
<1>11. ResetAfterAll'
  BY <1>1, <1>2 DEF ResetAfterAll
<1>12. QED
  BY <1>3, <1>4, <1>5, <1>6, <1>7, <1>8, <1>9, <1>10, <1>11 DEF IInv

\* A thread gets a mutex that was free or whose owner has crashed.
LEMMA TakesInv ==
    ASSUME IInv, NEW t \in Thread, Acts(t), NEW k \in MutexKey, Takes(t, k)
    PROVE  IInv'
<1>1. /\ state[t] = "RUNNING" /\ t \in Existing /\ active_thread = t /\ outcome = "running"
      /\ Existing \subseteq Thread /\ Proc \subseteq Thread /\ pc[t] # "gone"
      /\ pc \in [Thread -> PC] /\ owner \in [MutexKey -> Thread \cup {NoThread}]
      /\ owned_mutexes \in [Thread -> SUBSET MutexKey]
      /\ holding \in [Thread -> SUBSET MutexKey] /\ NoThread \notin Thread
  BY TokenFacts DEF IInv, Acts, CoreType, NoThread, Thread
<1>2. /\ UNCHANGED <<thread_count, process, active_thread, state, pending, exited, outcome,
                     irregular>>
      /\ Existing' = Existing
      /\ pc' = [pc EXCEPT ![t] = "evict"]
      /\ owner' = [owner EXCEPT ![k] = t]
      /\ holding' = [holding EXCEPT ![t] = @ \cup {k}]
      /\ owned_mutexes' = [u \in Thread |->
           IF u = t THEN owned_mutexes[u] \cup {k}
           ELSE IF u = owner[k] /\ ~OwnerCrashed(k) THEN owned_mutexes[u] \ {k}
           ELSE owned_mutexes[u]]
      /\ Free(k)
  BY DEF Takes, SetOwner, Existing
<1>3. owned_mutexes' = [owned_mutexes EXCEPT ![t] = @ \cup {k}]
  BY <1>1, <1>2 DEF Free
<1>4. CoreType'
  BY <1>1, <1>2, <1>3 DEF IInv, CoreType, PC
<1>5. Born'
  BY <1>1, <1>2, <1>3 DEF IInv, Born
<1>6. Named'
  BY <1>1, <1>2 DEF IInv, Named
<1>7. TokenRuns' /\ SetOwnerAsserts'
  BY <1>1, <1>2 DEF TokenRuns, SetOwnerAsserts
<1>8. Left'
  BY <1>1, <1>2 DEF IInv, Left, is_completed
<1>9. Agree'
  <2> SUFFICES ASSUME NEW u \in Thread, NEW l \in MutexKey
               PROVE  /\ owner'[l] = u => l \in owned_mutexes'[u]
                      /\ l \in owned_mutexes'[u] \cup holding'[u] /\ state[u] # "CRASHED"
                            => owner'[l] = u
    BY <1>2 DEF Agree
  <2>1. /\ owner[l] = u => l \in owned_mutexes[u]
        /\ l \in owned_mutexes[u] \cup holding[u] /\ state[u] # "CRASHED" => owner[l] = u
    BY DEF IInv, Agree
  <2>2. CASE l = k
    <3>1. u # t /\ state[u] # "CRASHED" => owner[k] # u
      BY <1>1, <1>2 DEF Free, OwnerCrashed
    <3>2. QED
      BY <1>1, <1>2, <1>3, <2>1, <2>2, <3>1
  <2>3. CASE l # k
    BY <1>1, <1>2, <1>3, <2>1, <2>3
  <2>4. QED
    BY <2>2, <2>3
<1>10. NoLostWakeUp'
  BY <1>1, <1>2 DEF IInv, NoLostWakeUp, Free, OwnerCrashed, CoreType, Named
<1>11. JoinSound'
  BY <1>1, <1>2 DEF IInv, JoinSound
<1>12. ResetAfterAll'
  BY <1>1, <1>2 DEF ResetAfterAll
<1>13. QED
  BY <1>4, <1>5, <1>6, <1>7, <1>8, <1>9, <1>10, <1>11, <1>12 DEF IInv

\* What an owner that lets a mutex go leaves behind.
LEMMA LetsGoFacts ==
    ASSUME IInv, NEW t \in Thread, Acts(t), NEW k \in MutexKey, LetsGo(t, k)
    PROVE  /\ owner' = [owner EXCEPT ![k] = NoThread]
           /\ owned_mutexes' = [owned_mutexes EXCEPT ![t] = @ \ {k}]
           /\ holding' = [holding EXCEPT ![t] = @ \ {k}]
           /\ owner[k] = t
           /\ \A u \in Thread :
                 \/ /\ state[u] = "BLOCKED" /\ WakeAll("ATOMIC_LOCK", k)[u] = "RUNNING"
                    /\ pending[u].type = "ATOMIC_LOCK" /\ pending[u].mutex = k
                 \/ /\ WakeAll("ATOMIC_LOCK", k)[u] = state[u]
                    /\ ~(state[u] = "BLOCKED" /\ pending[u].type = "ATOMIC_LOCK"
                                              /\ pending[u].mutex = k)
           /\ WakeAll("ATOMIC_LOCK", k) \in [Thread -> ThreadState]
<1>1. /\ state[t] = "RUNNING" /\ state \in [Thread -> ThreadState] /\ NoThread \notin Thread
      /\ owned_mutexes \in [Thread -> SUBSET MutexKey]
  BY TokenFacts DEF IInv, Acts, CoreType, NoThread, Thread
<1>2. /\ owner' = [owner EXCEPT ![k] = NoThread]
      /\ owned_mutexes' = [u \in Thread |->
           IF u = NoThread THEN owned_mutexes[u] \cup {k}
           ELSE IF u = owner[k] /\ ~OwnerCrashed(k) THEN owned_mutexes[u] \ {k}
           ELSE owned_mutexes[u]]
      /\ holding' = [holding EXCEPT ![t] = @ \ {k}]
      /\ owner[k] = t
  BY DEF LetsGo, SetOwner
<1>3. ~OwnerCrashed(k)
  BY <1>1, <1>2 DEF OwnerCrashed
<1>4. owned_mutexes' = [owned_mutexes EXCEPT ![t] = @ \ {k}]
  BY <1>1, <1>2, <1>3
<1>5. \A u \in Thread : WaitingOn(u, "ATOMIC_LOCK", k) <=>
         state[u] = "BLOCKED" /\ pending[u].type = "ATOMIC_LOCK" /\ pending[u].mutex = k
  BY DEF WaitingOn, Target
<1>6. \A u \in Thread : WakeAll("ATOMIC_LOCK", k)[u] =
         IF WaitingOn(u, "ATOMIC_LOCK", k) THEN "RUNNING" ELSE state[u]
  BY DEF WakeAll
<1>7. WakeAll("ATOMIC_LOCK", k) \in [Thread -> ThreadState]
  BY <1>1 DEF WakeAll, ThreadState
<1>8. QED
  BY <1>2, <1>4, <1>5, <1>6, <1>7

\* Letting go keeps the books of the mutexes straight and nobody asleep on k.
LEMMA LetsGoAgrees ==
    ASSUME IInv, NEW t \in Thread, Acts(t), NEW k \in MutexKey, LetsGo(t, k),
           UNCHANGED pending,
           \A u \in Thread : /\ state'[u] = "CRASHED" <=> state[u] = "CRASHED"
                             /\ state'[u] = "BLOCKED" /\ u # t => WakeAll("ATOMIC_LOCK", k)[u] = "BLOCKED",
           state'[t] = "BLOCKED" => pending[t].type # "ATOMIC_LOCK"
    PROVE  Agree' /\ NoLostWakeUp'
<1>1. /\ owner' = [owner EXCEPT ![k] = NoThread]
      /\ owned_mutexes' = [owned_mutexes EXCEPT ![t] = @ \ {k}]
      /\ holding' = [holding EXCEPT ![t] = @ \ {k}]
      /\ owner[k] = t
  BY LetsGoFacts
<1>2. /\ owner \in [MutexKey -> Thread \cup {NoThread}] /\ NoThread \notin Thread
      /\ owned_mutexes \in [Thread -> SUBSET MutexKey]
      /\ holding \in [Thread -> SUBSET MutexKey]
      /\ state[t] = "RUNNING"
  BY TokenFacts DEF IInv, Acts, CoreType, NoThread, Thread
<1>3. Agree'
  <2> SUFFICES ASSUME NEW u \in Thread, NEW l \in MutexKey
               PROVE  /\ owner'[l] = u => l \in owned_mutexes'[u]
                      /\ l \in owned_mutexes'[u] \cup holding'[u] /\ state'[u] # "CRASHED"
                            => owner'[l] = u
    BY DEF Agree
  <2>1. /\ owner[l] = u => l \in owned_mutexes[u]
        /\ l \in owned_mutexes[u] \cup holding[u] /\ state'[u] # "CRASHED" => owner[l] = u
    BY DEF IInv, Agree
  <2>2. CASE l = k
    <3>1. CASE u = t
      BY <1>1, <1>2, <2>2, <3>1
    <3>2. CASE u # t
      BY <1>1, <1>2, <2>1, <2>2, <3>2
    <3>3. QED
      BY <3>1, <3>2
  <2>3. CASE l # k
    BY <1>1, <1>2, <2>1, <2>3
  <2>4. QED
    BY <2>2, <2>3
<1>4. NoLostWakeUp'
  <2> SUFFICES ASSUME NEW u \in Thread, state'[u] = "BLOCKED", pending[u].type = "ATOMIC_LOCK"
               PROVE  ~Free(pending[u].mutex)'
    BY DEF NoLostWakeUp
  <2> DEFINE l == pending[u].mutex
  <2>1. u # t /\ WakeAll("ATOMIC_LOCK", k)[u] = "BLOCKED"
    OBVIOUS
  <2>2. state[u] = "BLOCKED" /\ l # k
    BY <2>1, LetsGoFacts
  <2>3. ~Free(l) /\ l \in MutexKey
    BY <2>2 DEF IInv, NoLostWakeUp, Named
  <2>4. owner'[l] = owner[l] /\ owner[l] \in Thread
    BY <1>1, <1>2, <2>2, <2>3 DEF Free
  <2>5. state[owner[l]] # "CRASHED" /\ owner[l] # NoThread
    BY <2>3 DEF Free, OwnerCrashed
  <2>6. state'[owner[l]] # "CRASHED"
    BY <2>4, <2>5
  <2>7. QED
    BY <2>4, <2>5, <2>6 DEF Free, OwnerCrashed
<1>5. QED
  BY <1>3, <1>4

\* The owner unlocks.
LEMMA ReleasesInv ==
    ASSUME IInv, NEW t \in Thread, Acts(t), NEW k \in MutexKey, Releases(t, k)
    PROVE  IInv'
<1>1. /\ state[t] = "RUNNING" /\ t \in Existing /\ active_thread = t /\ outcome = "running"
      /\ Existing \subseteq Thread /\ Proc \subseteq Thread /\ pc[t] # "gone"
      /\ pc \in [Thread -> PC] /\ owner \in [MutexKey -> Thread \cup {NoThread}]
      /\ owned_mutexes \in [Thread -> SUBSET MutexKey]
      /\ holding \in [Thread -> SUBSET MutexKey]
  BY TokenFacts DEF IInv, Acts, CoreType
<1>2. /\ UNCHANGED <<thread_count, process, active_thread, pending, exited, outcome, irregular>>
      /\ Existing' = Existing
      /\ pc' = [pc EXCEPT ![t] = "evict"]
      /\ state' = WakeAll("ATOMIC_LOCK", k)
      /\ LetsGo(t, k)
  BY DEF Releases, Existing
<1>3. /\ owner' = [owner EXCEPT ![k] = NoThread]
      /\ owned_mutexes' = [owned_mutexes EXCEPT ![t] = @ \ {k}]
      /\ holding' = [holding EXCEPT ![t] = @ \ {k}]
      /\ state' \in [Thread -> ThreadState]
      /\ \A u \in Thread : \/ state'[u] = state[u]
                           \/ /\ state[u] = "BLOCKED" /\ state'[u] = "RUNNING"
                              /\ pending[u].type = "ATOMIC_LOCK"
  BY <1>2, LetsGoFacts
<1>4. CoreType'
  BY <1>1, <1>2, <1>3 DEF IInv, CoreType, PC
<1>5. Born'
  BY <1>1, <1>2, <1>3 DEF IInv, Born
<1>6. Named'
  BY <1>1, <1>2 DEF IInv, Named
<1>7. TokenRuns' /\ SetOwnerAsserts'
  BY <1>1, <1>2, <1>3 DEF TokenRuns, SetOwnerAsserts
<1>8. Left'
  BY <1>1, <1>2, <1>3 DEF IInv, Left, is_completed
<1>9. Agree' /\ NoLostWakeUp'
  BY <1>1, <1>2, <1>3, LetsGoAgrees
<1>10. JoinSound'
  BY <1>1, <1>2, <1>3 DEF IInv, JoinSound, Named
<1>11. ResetAfterAll'
  BY <1>1, <1>2 DEF ResetAfterAll
<1>12. QED
  BY <1>4, <1>5, <1>6, <1>7, <1>8, <1>9, <1>10, <1>11 DEF IInv

\* Whatever a thread that blocks does with its mutexes, the rest of the invariant
\* holds: it waits for an unfinished thread, and DEADLOCK ends the execution.
LEMMA BlocksInv ==
    ASSUME IInv, NEW t \in Thread, Acts(t), NEW st \in [Thread -> ThreadState], Blocks(t, st),
           \A u \in Thread : \/ st[u] = state[u]
                             \/ /\ state[u] = "BLOCKED" /\ st[u] = "RUNNING"
                                /\ pending[u].type = "ATOMIC_LOCK",
           pending[t].type = "PTHREAD_JOIN" => state[pending[t].thread] # "COMPLETED",
           owner' \in [MutexKey -> Thread \cup {NoThread}],
           owned_mutexes' \in [Thread -> SUBSET MutexKey],
           holding' \in [Thread -> SUBSET MutexKey],
           \A u \in Thread \ {t} : owned_mutexes'[u] = owned_mutexes[u] /\ holding'[u] = holding[u]
    PROVE  /\ CoreType' /\ Born' /\ Named' /\ TokenRuns' /\ Left'
           /\ SetOwnerAsserts' /\ JoinSound' /\ ResetAfterAll'
           /\ UNCHANGED pending
           /\ \A u \in Thread : /\ state'[u] = "CRASHED" <=> state[u] = "CRASHED"
                                /\ u # t => state'[u] = st[u]
<1>1. /\ state[t] = "RUNNING" /\ t \in Existing /\ active_thread = t /\ outcome = "running"
      /\ Existing \subseteq Thread /\ Proc \subseteq Existing /\ pc[t] # "gone"
      /\ pc \in [Thread -> PC] /\ state \in [Thread -> ThreadState]
      /\ process \in [Thread -> Proc]
  BY TokenFacts, ExistingThreads DEF IInv, Acts, CoreType
<1>2. UNCHANGED <<thread_count, process, pending, irregular>> /\ Existing' = Existing
  BY DEF Blocks, Existing
<1>3. pending[t].type = "PTHREAD_JOIN" =>
         state[pending[t].thread] \in {"RUNNING", "BLOCKED"}
  <2> SUFFICES ASSUME pending[t].type = "PTHREAD_JOIN"
               PROVE  state[pending[t].thread] \in {"RUNNING", "BLOCKED"}
    OBVIOUS
  <2> DEFINE v == pending[t].thread
  <2>1. v \in Existing /\ process[v] = process[t]
    BY DEF IInv, Named
  <2>2. process[t] \notin exited
    BY <1>1 DEF IInv, Left
  <2>3. state[v] # "CRASHED"
    BY <1>1, <2>1, <2>2 DEF IInv, Left
  <2>4. state[v] # "NONE" /\ state[v] \in ThreadState
    BY <1>1, <2>1 DEF IInv, Born
  <2>5. QED
    BY <2>3, <2>4 DEF ThreadState
<1>4. CASE /\ state' = [st EXCEPT ![t] = "BLOCKED"]
           /\ pc' = [pc EXCEPT ![t] = "blocked"]
           /\ active_thread' \in Existing \ {t}
           /\ st[active_thread'] = "RUNNING"
           /\ UNCHANGED <<outcome, exited>>
  <2>1. /\ state' \in [Thread -> ThreadState] /\ state'[t] = "BLOCKED"
        /\ \A u \in Thread \ {t} : state'[u] = st[u]
    BY <1>4 DEF ThreadState
  <2>2. /\ pc' \in [Thread -> PC] /\ pc'[t] = "blocked"
        /\ \A u \in Thread \ {t} : pc'[u] = pc[u]
    BY <1>1, <1>4 DEF PC
  <2>3. CoreType'
    BY <1>2, <1>4, <2>1, <2>2 DEF IInv, CoreType
  <2>4. Born'
    BY <1>1, <1>2, <2>1, <2>2 DEF IInv, Born
  <2>5. Named'
    BY <1>2, <2>2 DEF IInv, Named
  <2>6. TokenRuns' /\ SetOwnerAsserts' /\ ResetAfterAll'
    BY <1>1, <1>4, <2>1 DEF TokenRuns, SetOwnerAsserts, ResetAfterAll
  <2>7. Left'
    BY <1>1, <1>2, <1>4, <2>1, <2>2 DEF IInv, Left, is_completed
  <2>8. JoinSound'
    <3> SUFFICES ASSUME NEW u \in Existing, pc'[u] = "blocked", pending[u].type = "PTHREAD_JOIN"
                 PROVE  /\ state'[u] = "BLOCKED" => state'[pending[u].thread] \in {"RUNNING", "BLOCKED"}
                        /\ state'[u] = "RUNNING" => state'[pending[u].thread] = "COMPLETED"
      BY <1>2 DEF JoinSound
    <3> DEFINE v == pending[u].thread
    <3>1. v \in Thread
      BY <1>1 DEF IInv, Named
    <3>2. CASE u = t
      BY <1>3, <2>1, <3>1, <3>2
    <3>3. CASE u # t
      <4>1. state'[u] = state[u] /\ pc[u] = "blocked"
        BY <1>1, <2>1, <2>2, <3>3
      <4>2. /\ state[u] = "BLOCKED" => state[v] \in {"RUNNING", "BLOCKED"}
            /\ state[u] = "RUNNING" => state[v] = "COMPLETED"
        BY <4>1 DEF IInv, JoinSound
      <4>3. v = t \/ state'[v] = state[v] \/ (state[v] = "BLOCKED" /\ state'[v] = "RUNNING")
        BY <2>1, <3>1
      <4>4. QED
        BY <1>1, <2>1, <4>1, <4>2, <4>3
    <3>4. QED
      BY <3>2, <3>3
  <2>9. QED
    BY <1>1, <1>2, <2>1, <2>3, <2>4, <2>5, <2>6, <2>7, <2>8
<1>5. CASE /\ state' = [st EXCEPT ![t] = "COMPLETED"]
           /\ exited' = exited \cup {process[t]}
           /\ pc' = [u \in Thread |-> IF u \in Existing /\ process[u] = process[t]
                                      THEN "gone" ELSE pc[u]]
           /\ active_thread' = active_thread
           /\ outcome' \in {"deadlock", "finished"}
           /\ outcome' = "finished" =>
                 \A u \in Existing \ {t} : st[u] \notin {"RUNNING", "BLOCKED"}
  <2>1. /\ state' \in [Thread -> ThreadState] /\ state'[t] = "COMPLETED"
        /\ \A u \in Thread \ {t} : state'[u] = st[u]
    BY <1>5 DEF ThreadState
  <2>2. /\ pc' \in [Thread -> PC]
        /\ \A u \in Thread : pc'[u] = IF u \in Existing /\ process[u] = process[t]
                                      THEN "gone" ELSE pc[u]
    BY <1>1, <1>5 DEF PC
  <2>3. CoreType'
    BY <1>1, <1>2, <1>5, <2>1, <2>2 DEF IInv, CoreType, Outcome
  <2>4. Born'
    BY <1>1, <1>2, <2>1, <2>2 DEF IInv, Born
  <2>5. Named'
    BY <1>2, <2>2 DEF IInv, Named
  <2>6. TokenRuns' /\ SetOwnerAsserts'
    BY <1>5 DEF TokenRuns, SetOwnerAsserts
  <2>7. Left'
    <3>1. \A u \in Existing : process[u] \in exited' => pc'[u] = "gone"
      BY <1>1, <1>5, <2>2 DEF IInv, Left
    <3>2. \A u \in Thread : state'[u] = "CRASHED" => process[u] \in exited'
      BY <1>1, <1>5, <2>1 DEF IInv, Left
    <3>3. \A p \in Proc : is_completed(state', p) => p \in exited' \cup irregular
      <4> SUFFICES ASSUME NEW p \in Proc, is_completed(state', p)
                   PROVE  p \in exited' \cup irregular
        OBVIOUS
      <4>1. p \in Thread /\ process[p] = p
        BY <1>1 DEF IInv, Born
      <4>2. CASE p = t
        BY <1>5, <4>1, <4>2
      <4>3. CASE p # t
        <5>1. is_completed(state, p)
          BY <2>1, <4>1, <4>3 DEF is_completed
        <5>2. QED
          BY <1>5, <5>1 DEF IInv, Left
      <4>4. QED
        BY <4>2, <4>3
    <3>4. QED
      BY <1>2, <1>5, <3>1, <3>2, <3>3 DEF Left, is_completed
  <2>8. JoinSound'
    <3> SUFFICES ASSUME NEW u \in Existing, pc'[u] = "blocked", pending[u].type = "PTHREAD_JOIN"
                 PROVE  /\ state'[u] = "BLOCKED" => state'[pending[u].thread] \in {"RUNNING", "BLOCKED"}
                        /\ state'[u] = "RUNNING" => state'[pending[u].thread] = "COMPLETED"
      BY <1>2 DEF JoinSound
    <3> DEFINE v == pending[u].thread
    <3>1. u \in Thread /\ process[u] # process[t] /\ pc[u] = "blocked"
      BY <1>1, <2>2
    <3>2. v \in Thread /\ process[v] = process[u]
      BY <1>1, <3>1 DEF IInv, Named
    <3>3. u # t /\ v # t
      BY <3>1, <3>2
    <3>4. /\ state[u] = "BLOCKED" => state[v] \in {"RUNNING", "BLOCKED"}
          /\ state[u] = "RUNNING" => state[v] = "COMPLETED"
      BY <3>1 DEF IInv, JoinSound
    <3>5. /\ state'[u] = state[u]
          /\ state'[v] = state[v] \/ (state[v] = "BLOCKED" /\ state'[v] = "RUNNING")
      BY <2>1, <3>1, <3>2, <3>3
    <3>6. QED
      BY <3>4, <3>5
  <2>9. ResetAfterAll'
    <3> SUFFICES ASSUME outcome' = "finished"
                 PROVE  /\ Proc \subseteq exited' \cup irregular
                        /\ \A u \in Existing : is_completed(state', u)
      BY <1>2 DEF ResetAfterAll, Lingers, is_completed
    <3>1. \A u \in Existing \ {t} : state'[u] \notin {"RUNNING", "BLOCKED"}
      BY <1>1, <1>5, <2>1
    <3>2. \A u \in Existing : is_completed(state', u)
      <4>1. \A u \in Existing : state'[u] # "NONE" /\ state'[u] \in ThreadState
        BY <1>1, <1>2, <2>1, <2>4 DEF Born
      <4>2. QED
        BY <2>1, <3>1, <4>1 DEF is_completed, ThreadState
    <3>3. QED
      BY <1>1, <1>2, <2>7, <3>2 DEF Left, is_completed
  <2>10. QED
    BY <1>1, <1>2, <2>1, <2>3, <2>4, <2>5, <2>6, <2>7, <2>8, <2>9
<1>6. QED
  BY <1>4, <1>5 DEF Blocks

\* A join or a lock that has to wait.
LEMMA WaitsForInv ==
    ASSUME IInv, NEW t \in Thread, Acts(t), WaitsFor(t)
    PROVE  IInv'
<1>1. UNCHANGED <<owned_mutexes, owner, holding>> /\ Blocks(t, state)
  BY DEF WaitsFor
<1>2. /\ owner \in [MutexKey -> Thread \cup {NoThread}]
      /\ owned_mutexes \in [Thread -> SUBSET MutexKey]
      /\ holding \in [Thread -> SUBSET MutexKey]
      /\ state \in [Thread -> ThreadState]
  BY DEF IInv, CoreType
<1>3. pending[t].type = "PTHREAD_JOIN" => state[pending[t].thread] # "COMPLETED"
  BY DEF WaitsFor
<1>4. /\ CoreType' /\ Born' /\ Named' /\ TokenRuns' /\ Left'
      /\ SetOwnerAsserts' /\ JoinSound' /\ ResetAfterAll'
      /\ UNCHANGED pending
      /\ \A u \in Thread : /\ state'[u] = "CRASHED" <=> state[u] = "CRASHED"
                           /\ u # t => state'[u] = state[u]
  BY <1>1, <1>2, <1>3, BlocksInv
<1>5. Agree'
  BY <1>1, <1>4 DEF IInv, Agree
<1>6. NoLostWakeUp'
  <2> SUFFICES ASSUME NEW u \in Thread, state'[u] = "BLOCKED", pending[u].type = "ATOMIC_LOCK"
               PROVE  ~Free(pending[u].mutex)'
    BY <1>4 DEF NoLostWakeUp
  <2> DEFINE k == pending[u].mutex
  <2>1. ~Free(k)
    <3>1. CASE u = t
      BY <3>1 DEF WaitsFor
    <3>2. CASE u # t
      BY <1>4, <3>2 DEF IInv, NoLostWakeUp
    <3>3. QED
      BY <3>1, <3>2
  <2>2. k \in MutexKey
    BY DEF IInv, Named
  <2>3. owner[k] \in Thread /\ owner[k] # NoThread /\ state[owner[k]] # "CRASHED"
    BY <1>2, <2>1, <2>2 DEF Free, OwnerCrashed
  <2>4. QED
    BY <1>1, <1>4, <2>3 DEF Free, OwnerCrashed
<1>7. QED
  BY <1>4, <1>5, <1>6 DEF IInv

\* A wait for a condition: the mutex is let go and its waiters are woken before the
\* thread sleeps.
LEMMA SleepsInv ==
    ASSUME IInv, NEW t \in Thread, Acts(t), NEW k \in MutexKey, Sleeps(t, k)
    PROVE  IInv'
<1> DEFINE st == WakeAll("ATOMIC_LOCK", k)
<1>1. LetsGo(t, k) /\ Blocks(t, st) /\ pending[t].type = "ATOMIC_WAIT"
  BY DEF Sleeps
<1>2. /\ owner' = [owner EXCEPT ![k] = NoThread]
      /\ owned_mutexes' = [owned_mutexes EXCEPT ![t] = @ \ {k}]
      /\ holding' = [holding EXCEPT ![t] = @ \ {k}]
      /\ \A u \in Thread : \/ st[u] = state[u]
                           \/ /\ state[u] = "BLOCKED" /\ st[u] = "RUNNING"
                              /\ pending[u].type = "ATOMIC_LOCK"
      /\ st \in [Thread -> ThreadState]
  BY <1>1, LetsGoFacts
<1>3. /\ owner' \in [MutexKey -> Thread \cup {NoThread}]
      /\ owned_mutexes' \in [Thread -> SUBSET MutexKey]
      /\ holding' \in [Thread -> SUBSET MutexKey]
      /\ \A u \in Thread \ {t} : owned_mutexes'[u] = owned_mutexes[u] /\ holding'[u] = holding[u]
  BY <1>2 DEF IInv, CoreType
<1> HIDE DEF st
<1>4. /\ CoreType' /\ Born' /\ Named' /\ TokenRuns' /\ Left'
      /\ SetOwnerAsserts' /\ JoinSound' /\ ResetAfterAll'
      /\ UNCHANGED pending
      /\ \A u \in Thread : /\ state'[u] = "CRASHED" <=> state[u] = "CRASHED"
                           /\ u # t => state'[u] = st[u]
  BY <1>1, <1>2, <1>3, BlocksInv
<1>5. Agree' /\ NoLostWakeUp'
  BY <1>1, <1>4, LetsGoAgrees DEF st
<1>6. QED
  BY <1>4, <1>5 DEF IInv

\* Steps that leave the core variables alone, and the ends in an assertion or abort().
LEMMA StandsStillInv ==
    ASSUME IInv, Same, UNCHANGED <<active_thread, state, pending, pc, exited, irregular>>,
           outcome' = outcome \/ outcome' \in {"self_deadlock", "no_mutex", "null_iterator",
                                              "assert_get_mutex", "assert_finalize",
                                              "stale_context"}
    PROVE  IInv'
<1>1. /\ UNCHANGED <<thread_count, process, owned_mutexes, owner, holding, active_thread,
                     state, pending, pc, exited, irregular>>
      /\ Existing' = Existing
  BY DEF Same, Existing
<1>2. CoreType' /\ Born' /\ Named'
  BY <1>1 DEF IInv, CoreType, Born, Named, Outcome
<1>3. TokenRuns' /\ Left' /\ Agree'
  BY <1>1 DEF IInv, TokenRuns, Left, Agree, is_completed
<1>4. SetOwnerAsserts' /\ NoLostWakeUp' /\ JoinSound' /\ ResetAfterAll'
  BY <1>1 DEF IInv, SetOwnerAsserts, NoLostWakeUp, JoinSound, ResetAfterAll, is_completed,
              Free, OwnerCrashed, Lingers
<1>5. QED
  BY <1>2, <1>3, <1>4 DEF IInv

\* Model::action returns.
LEMMA ReturnInv ==
    ASSUME IInv, NEW t \in Thread, Acts(t), Return(t)
    PROVE  IInv'
<1>1. /\ state[t] = "RUNNING" /\ t \in Existing /\ active_thread = t /\ outcome = "running"
      /\ Existing \subseteq Thread /\ Proc \subseteq Thread /\ pc[t] # "gone"
      /\ pc \in [Thread -> PC] /\ pending \in [Thread -> Action]
  BY TokenFacts DEF IInv, Acts, CoreType
<1>2. /\ UNCHANGED <<thread_count, process, owned_mutexes, owner, holding, active_thread, state,
                     exited, outcome, irregular>>
      /\ Existing' = Existing
  BY DEF Return, tokVars, lockVars, procVars, Existing
<1>3. PICK w \in {"relock", "user"}, a \in Action :
         /\ pc' = [pc EXCEPT ![t] = w] /\ pending' = [pending EXCEPT ![t] = a]
         /\ a.type = "none"
         /\ w = "relock" => a.mutex \in MutexKey
  <2>1. CASE pending[t].type = "ATOMIC_WAIT"
    <3> DEFINE a == Act("none", NoThread, pending[t].mutex, NoKey)
    <3>1. pending[t].mutex \in MutexKey
      BY <2>1 DEF IInv, Named
    <3>2. a \in Action /\ a.type = "none" /\ a.mutex \in MutexKey
      BY <3>1 DEF Act, Action
    <3>3. pc' = [pc EXCEPT ![t] = "relock"] /\ pending' = [pending EXCEPT ![t] = a]
      BY <2>1 DEF Return
    <3>4. QED
      BY <3>2, <3>3
  <2>2. CASE pending[t].type # "ATOMIC_WAIT"
    <3>1. NoAct \in Action /\ NoAct.type = "none"
      BY ActTypes DEF NoAct, Act
    <3>2. pc' = [pc EXCEPT ![t] = "user"] /\ pending' = [pending EXCEPT ![t] = NoAct]
      BY <2>2 DEF Return
    <3>3. QED
      BY <3>1, <3>2
  <2>3. QED
    BY <2>1, <2>2
<1>4. CoreType'
  BY <1>1, <1>2, <1>3 DEF IInv, CoreType, PC
<1>5. Born'
  BY <1>1, <1>2, <1>3 DEF IInv, Born
<1>6. Named'
  BY <1>1, <1>2, <1>3 DEF IInv, Named
<1>7. TokenRuns' /\ SetOwnerAsserts' /\ ResetAfterAll'
  BY <1>1, <1>2 DEF TokenRuns, SetOwnerAsserts, ResetAfterAll
<1>8. Left'
  BY <1>1, <1>2, <1>3 DEF IInv, Left, is_completed
<1>9. Agree'
  BY <1>2 DEF IInv, Agree
<1>10. NoLostWakeUp'
  BY <1>1, <1>2, <1>3 DEF IInv, NoLostWakeUp, Free, OwnerCrashed
<1>11. JoinSound'
  BY <1>1, <1>2, <1>3 DEF IInv, JoinSound
<1>12. QED
  BY <1>4, <1>5, <1>6, <1>7, <1>8, <1>9, <1>10, <1>11 DEF IInv

\* pthread_create.
LEMMA CreateInv ==
    ASSUME IInv, NEW t \in Thread, Acts(t), ExecCreate(t)
    PROVE  IInv'
<1> DEFINE n == thread_count
<1>1. /\ state[t] = "RUNNING" /\ t \in Existing /\ active_thread = t /\ outcome = "running"
      /\ Existing \subseteq Thread /\ Proc \subseteq Thread /\ pc[t] # "gone"
      /\ pc \in [Thread -> PC] /\ state \in [Thread -> ThreadState]
      /\ process \in [Thread -> Proc] /\ Proc \subseteq Existing
  BY TokenFacts, ExistingThreads DEF IInv, Acts, CoreType
<1>2. /\ UNCHANGED <<owned_mutexes, owner, holding, active_thread, pending, exited, outcome,
                     irregular>>
      /\ thread_count' = n + 1 /\ n < MaxThreads
      /\ process' = [process EXCEPT ![n] = process[t]]
      /\ state' = [state EXCEPT ![n] = "RUNNING"]
      /\ pc' = [pc EXCEPT ![n] = "new", ![t] = "evict"]
  BY DEF ExecCreate, NewThread, lockVars, procVars
<1>3. /\ n \in Thread \ Existing /\ Existing' = Existing \cup {n}
      /\ thread_count' \in NProc .. MaxThreads
  BY <1>2, SizeAssumption DEF IInv, CoreType, Existing, Thread
<1>4. /\ state[n] = "NONE" /\ pending[n].type = "none" /\ n # t /\ n \notin Proc
      /\ owned_mutexes[n] = {} /\ holding[n] = {}
  BY <1>1, <1>3 DEF IInv, Born
<1>5. /\ state' \in [Thread -> ThreadState] /\ state'[n] = "RUNNING"
      /\ \A u \in Thread \ {n} : state'[u] = state[u]
  BY <1>1, <1>2, <1>3 DEF ThreadState
<1>6. /\ pc' \in [Thread -> PC] /\ pc'[n] = "new" /\ pc'[t] = "evict"
      /\ \A u \in Thread \ {n, t} : pc'[u] = pc[u]
  BY <1>1, <1>2, <1>3, <1>4 DEF PC
<1>7. /\ process' \in [Thread -> Proc] /\ process'[n] = process[t]
      /\ \A u \in Thread \ {n} : process'[u] = process[u]
  BY <1>1, <1>2, <1>3
<1>8. process[t] \notin exited
  BY <1>1 DEF IInv, Left
<1> HIDE DEF n
<1>9. CoreType'
  BY <1>2, <1>3, <1>5, <1>6, <1>7 DEF IInv, CoreType
<1>10. Born'
  BY <1>1, <1>2, <1>3, <1>4, <1>5, <1>6, <1>7 DEF IInv, Born
<1>11. Named'
  BY <1>1, <1>2, <1>3, <1>4, <1>6, <1>7 DEF IInv, Named
<1>12. TokenRuns' /\ SetOwnerAsserts' /\ ResetAfterAll'
  BY <1>1, <1>2, <1>4, <1>5 DEF TokenRuns, SetOwnerAsserts, ResetAfterAll
<1>13. Left'
  <2>1. \A u \in Existing' : process'[u] \in exited => pc'[u] = "gone"
    BY <1>1, <1>3, <1>6, <1>7, <1>8 DEF IInv, Left
  <2>2. \A u \in Thread : state'[u] = "CRASHED" => process'[u] \in exited
    BY <1>5, <1>7 DEF IInv, Left
  <2>3. \A u \in Existing' : pc'[u] = "gone" => is_completed(state', u) \/ process'[u] \in irregular
    BY <1>1, <1>3, <1>5, <1>6, <1>7 DEF IInv, Left, is_completed
  <2>4. \A p \in Proc : is_completed(state', p) => p \in exited \cup irregular
    BY <1>1, <1>4, <1>5 DEF IInv, Left, is_completed
  <2>5. QED
    BY <1>2, <2>1, <2>2, <2>3, <2>4 DEF Left, is_completed
<1>14. Agree'
  BY <1>2, <1>4, <1>5 DEF IInv, Agree
<1>15. NoLostWakeUp'
  <2> SUFFICES ASSUME NEW u \in Thread, state'[u] = "BLOCKED", pending[u].type = "ATOMIC_LOCK"
               PROVE  ~Free(pending[u].mutex)'
    BY <1>2 DEF NoLostWakeUp
  <2> DEFINE k == pending[u].mutex
  <2>1. ~Free(k) /\ k \in MutexKey
    BY <1>5 DEF IInv, NoLostWakeUp, Named
  <2>2. owner[k] \in Thread /\ owner[k] # NoThread /\ state[owner[k]] # "CRASHED"
    BY <2>1 DEF IInv, CoreType, Free, OwnerCrashed
  <2>3. QED
    BY <1>2, <1>5, <2>2 DEF Free, OwnerCrashed
<1>16. JoinSound'
  <2> SUFFICES ASSUME NEW u \in Existing', pc'[u] = "blocked", pending[u].type = "PTHREAD_JOIN"
               PROVE  /\ state'[u] = "BLOCKED" => state'[pending[u].thread] \in {"RUNNING", "BLOCKED"}
                      /\ state'[u] = "RUNNING" => state'[pending[u].thread] = "COMPLETED"
    BY <1>2 DEF JoinSound
  <2>1. u \in Existing /\ pc[u] = "blocked" /\ u # n
    BY <1>1, <1>3, <1>4, <1>6
  <2>2. pending[u].thread \in Existing
    BY <1>1, <2>1 DEF IInv, Named
  <2>3. state'[u] = state[u] /\ state'[pending[u].thread] = state[pending[u].thread]
    BY <1>1, <1>3, <1>5, <2>1, <2>2
  <2>4. QED
    BY <2>1, <2>3 DEF IInv, JoinSound
<1>17. QED
  BY <1>9, <1>10, <1>11, <1>12, <1>13, <1>14, <1>15, <1>16 DEF IInv

\* A thread ends: whoever joins it is woken.
LEMMA FinishInv ==
    ASSUME IInv, NEW t \in Thread, Acts(t), ExecThreadFinish(t)
    PROVE  IInv'
<1>1. /\ state[t] = "RUNNING" /\ t \in Existing /\ active_thread = t /\ outcome = "running"
      /\ Existing \subseteq Thread /\ Proc \subseteq Existing /\ pc[t] # "gone"
      /\ pc \in [Thread -> PC] /\ state \in [Thread -> ThreadState]
      /\ process \in [Thread -> Proc] /\ Running(t)
  BY TokenFacts, ExistingThreads DEF IInv, Acts, CoreType
<1> DEFINE st == [WakeAll("PTHREAD_JOIN", t) EXCEPT ![t] = "COMPLETED"]
<1>2. /\ UNCHANGED <<thread_count, process, owned_mutexes, owner, holding, pending, exited>>
      /\ Existing' = Existing
      /\ pc' = [pc EXCEPT ![t] = "gone"]
      /\ state' = st
      /\ LastYield(st, "assert_finalize")
      /\ irregular' = IF t < NProc THEN irregular \cup {process[t]} ELSE irregular
  BY DEF ExecThreadFinish, lockVars, Existing
<1>3. /\ st \in [Thread -> ThreadState] /\ st[t] = "COMPLETED"
      /\ \A u \in Thread \ {t} :
            \/ /\ state[u] = "BLOCKED" /\ st[u] = "RUNNING"
               /\ pending[u].type = "PTHREAD_JOIN" /\ pending[u].thread = t
            \/ /\ st[u] = state[u]
               /\ ~(state[u] = "BLOCKED" /\ pending[u].type = "PTHREAD_JOIN" /\ pending[u].thread = t)
  BY <1>1 DEF WakeAll, WaitingOn, Target, ThreadState
<1> HIDE DEF st
<1>4. TokenGoes(st, "assert_finalize")
  BY <1>1, <1>2, <1>3, LastYieldGoes DEF IInv
<1>5. /\ outcome' \in {"running", "deadlock", "assert_finalize"}
      /\ active_thread' \in Existing
      /\ outcome' = "running" => st[active_thread'] = "RUNNING"
  BY <1>1, <1>4 DEF TokenGoes
<1>6. /\ pc' \in [Thread -> PC] /\ pc'[t] = "gone"
      /\ \A u \in Thread \ {t} : pc'[u] = pc[u]
  BY <1>1, <1>2 DEF PC
<1>7. irregular \subseteq irregular' /\ irregular' \subseteq Proc
  BY <1>1, <1>2 DEF IInv, CoreType
<1>8. CoreType'
  BY <1>2, <1>3, <1>5, <1>6, <1>7 DEF IInv, CoreType, Outcome
<1>9. Born'
  BY <1>1, <1>2, <1>3, <1>6 DEF IInv, Born
<1>10. Named'
  BY <1>2, <1>6 DEF IInv, Named
<1>11. TokenRuns' /\ SetOwnerAsserts' /\ ResetAfterAll'
  BY <1>2, <1>5 DEF TokenRuns, SetOwnerAsserts, ResetAfterAll
<1>12. Left'
  <2>1. \A u \in Existing : process[u] \in exited => pc'[u] = "gone"
    BY <1>1, <1>6 DEF IInv, Left
  <2>2. \A u \in Thread : st[u] = "CRASHED" => process[u] \in exited
    BY <1>3 DEF IInv, Left
  <2>3. \A u \in Existing : pc'[u] = "gone" => is_completed(st, u) \/ process[u] \in irregular'
    BY <1>1, <1>3, <1>6, <1>7 DEF IInv, Left, is_completed
  <2>4. \A p \in Proc : is_completed(st, p) => p \in exited \cup irregular'
    <3> SUFFICES ASSUME NEW p \in Proc, is_completed(st, p)
                 PROVE  p \in exited \cup irregular'
      OBVIOUS
    <3>1. p \in Thread /\ process[p] = p /\ p < NProc
      BY <1>1, SizeAssumption DEF IInv, Born, Proc
    <3>2. CASE p = t
      BY <1>2, <3>1, <3>2
    <3>3. CASE p # t
      <4>1. is_completed(state, p)
        BY <1>3, <3>1, <3>3 DEF is_completed
      <4>2. QED
        BY <1>7, <4>1 DEF IInv, Left
    <3>4. QED
      BY <3>2, <3>3
  <2>5. QED
    BY <1>2, <2>1, <2>2, <2>3, <2>4 DEF Left, is_completed
<1>13. Agree'
  BY <1>1, <1>2, <1>3 DEF IInv, Agree
<1>14. NoLostWakeUp'
  <2> SUFFICES ASSUME NEW u \in Thread, st[u] = "BLOCKED", pending[u].type = "ATOMIC_LOCK"
               PROVE  ~Free(pending[u].mutex)'
    BY <1>2 DEF NoLostWakeUp
  <2> DEFINE k == pending[u].mutex
  <2>1. ~Free(k) /\ k \in MutexKey
    BY <1>3 DEF IInv, NoLostWakeUp, Named
  <2>2. owner[k] \in Thread /\ owner[k] # NoThread /\ state[owner[k]] # "CRASHED"
    BY <2>1 DEF IInv, CoreType, Free, OwnerCrashed
  <2>3. st[owner[k]] # "CRASHED"
    BY <1>3, <2>2
  <2>4. QED
    BY <1>2, <2>2, <2>3 DEF Free, OwnerCrashed
<1>15. JoinSound'
  <2> SUFFICES ASSUME NEW u \in Existing, pc'[u] = "blocked", pending[u].type = "PTHREAD_JOIN"
               PROVE  /\ st[u] = "BLOCKED" => st[pending[u].thread] \in {"RUNNING", "BLOCKED"}
                      /\ st[u] = "RUNNING" => st[pending[u].thread] = "COMPLETED"
    BY <1>2 DEF JoinSound
  <2> DEFINE v == pending[u].thread
  <2>1. u \in Thread /\ u # t /\ pc[u] = "blocked"
    BY <1>1, <1>6
  <2>2. v \in Thread
    BY <1>1, <2>1 DEF IInv, Named
  <2>3. /\ state[u] = "BLOCKED" => state[v] \in {"RUNNING", "BLOCKED"}
        /\ state[u] = "RUNNING" => state[v] = "COMPLETED"
    BY <2>1 DEF IInv, JoinSound
  <2>4. CASE v = t
    BY <1>1, <1>3, <2>1, <2>3, <2>4
  <2>5. CASE v # t
    BY <1>3, <2>1, <2>2, <2>3, <2>5
  <2>6. QED
    BY <2>4, <2>5
<1>16. QED
  BY <1>8, <1>9, <1>10, <1>11, <1>12, <1>13, <1>14, <1>15 DEF IInv

-----------------------------------------------------------------------------
\* The invariant is inductive.

LEMMA InitInv ==
    ASSUME Init
    PROVE  IInv /\ BookType
<1>1. /\ Existing = 0 .. NProc - 1 /\ Proc = Existing /\ Existing \subseteq Thread
      /\ 0 \in Existing /\ NProc \in NProc .. MaxThreads /\ NoThread \notin Thread
  BY SizeAssumption DEF Init, Existing, Proc, Thread, NoThread
<1>2. \A t \in Thread : t \in Existing <=> t < NProc
  BY <1>1, SizeAssumption DEF Thread
<1>3. /\ \A t \in Thread : t \in Existing => process[t] = t /\ state[t] = "RUNNING" /\ pc[t] = "user"
      /\ \A t \in Thread : t \notin Existing => state[t] = "NONE" /\ pc[t] = "none"
      /\ \A t \in Thread : pending[t] = NoAct /\ owned_mutexes[t] = {} /\ holding[t] = {}
  BY <1>2 DEF Init
<1>4. NoAct \in Action /\ NoAct.type = "none"
  BY ActTypes DEF NoAct, Act
<1>5. CoreType
  <2>1. process \in [Thread -> Proc] /\ state \in [Thread -> ThreadState] /\ pc \in [Thread -> PC]
    BY <1>1, <1>2 DEF Init, ThreadState, PC
  <2>2. pending \in [Thread -> Action]
    BY <1>4 DEF Init
  <2>3. QED
    BY <1>1, <2>1, <2>2 DEF Init, CoreType, Outcome
<1>6. BookType
  BY ProgramsAssumption DEF Init, BookType
<1>7. Born /\ Named
  BY <1>1, <1>3, <1>4 DEF Born, Named
<1>8. TokenRuns /\ Left
  BY <1>1, <1>3 DEF Init, TokenRuns, Left, is_completed
<1>9. Agree /\ SetOwnerAsserts /\ NoLostWakeUp /\ JoinSound /\ ResetAfterAll
  BY <1>1, <1>3, <1>4 DEF Init, Agree, SetOwnerAsserts, NoLostWakeUp, JoinSound, ResetAfterAll
<1>10. QED
  BY <1>5, <1>6, <1>7, <1>8, <1>9 DEF IInv

LEMMA KindInv ==
    ASSUME IInv, NEW t \in Thread, Acts(t), Kind(t)
    PROVE  IInv'
<1>1. CASE \E w \in {"yield", "shutdown", "evict"}, a \in Action : NamedAct(t, a) /\ Passes(t, w, a)
  BY <1>1, PassesInv
<1>2. CASE \E st \in [Thread -> ThreadState] : Leaves(t, st)
  BY <1>2, LeavesInv
<1>3. CASE LeavesIrregularly(t)
  BY <1>3, LeavesIrregularlyInv
<1>4. CASE \E W \in SUBSET Thread : Runs(t, W)
  BY <1>4, RunsInv
<1>5. CASE \E k \in MutexKey : Takes(t, k) \/ Releases(t, k) \/ Sleeps(t, k)
  BY <1>5, TakesInv, ReleasesInv, SleepsInv
<1>6. CASE WaitsFor(t)
  BY <1>6, WaitsForInv
<1>7. CASE Aborts
  BY <1>7, StandsStillInv DEF Aborts
<1>8. CASE ExecCreate(t)
  BY <1>8, CreateInv
<1>9. CASE ExecThreadFinish(t)
  BY <1>9, FinishInv
<1>10. CASE Return(t)
  BY <1>10, ReturnInv
<1>11. CASE Same /\ UNCHANGED <<active_thread, state, pending, pc, exited, outcome, irregular>>
  BY <1>11, StandsStillInv
<1>12. QED
  BY <1>1, <1>2, <1>3, <1>4, <1>5, <1>6, <1>7, <1>8, <1>9, <1>10, <1>11 DEF Kind

LEMMA NextInv ==
    ASSUME IInv, BookType, [Next]_vars
    PROVE  IInv' /\ BookType'
<1>1. CASE \E t \in Thread : Step(t)
  <2>1. PICK t \in Thread : Step(t)
    BY <1>1
  <2>2. Kind(t) /\ Acts(t)
    BY <2>1, StepKind
  <2>3. BookType'
    BY <2>1, BookStep DEF IInv
  <2>4. QED
    BY <2>2, <2>3, KindInv
<1>2. CASE UNCHANGED vars
  <2>1. /\ Same /\ UNCHANGED <<active_thread, state, pending, pc, exited, outcome, irregular>>
        /\ UNCHANGED <<mutex_map, cond_map, mutex_type, recursive_lock_count, crashes,
                       completed_procs, program, calls>>
    BY <1>2 DEF vars, tokVars, thrVars, lockVars, mapVars, procVars, progVars, Same
  <2>2. QED
    BY <2>1, StandsStillInv DEF BookType
<1>3. CASE ResetWakes
  <2>1. /\ Same /\ UNCHANGED <<active_thread, state, pending, pc, exited, irregular>>
        /\ UNCHANGED <<mutex_map, cond_map, mutex_type, recursive_lock_count, crashes,
                       completed_procs, program, calls>>
        /\ outcome' \in {"assert_finalize", "stale_context"}
    BY <1>3 DEF ResetWakes, tokVars, thrVars, lockVars, mapVars, progVars, Same
  <2>2. QED
    BY <2>1, StandsStillInv DEF BookType
<1>4. QED
  BY <1>1, <1>2, <1>3 DEF Next, Over

LEMMA Inductive == Spec => [](IInv /\ BookType)
<1>1. Init => IInv /\ BookType
  BY InitInv
<1>2. (IInv /\ BookType) /\ [Next]_vars => (IInv /\ BookType)'
  BY NextInv
<1>3. QED
  BY <1>1, <1>2, PTL DEF Spec

-----------------------------------------------------------------------------
\* Results.

\* The fields of Scheduler, Thread, Mutex and Model keep their types: the token
\* is always with an existing thread and threads.size() stays in its bounds.
THEOREM TypeCorrect == Spec => []TypeOK
<1>1. IInv /\ BookType => TypeOK
  BY DEF IInv, CoreType, BookType, TypeOK
<1>2. QED
  BY <1>1, Inductive, PTL

\* Two threads that have not crashed never both hold a mutex (ATOMIC_LOCK,
\* ATOMIC_UNLOCK and the hand-over from crashed owners).
THEOREM LocksExclude == Spec => []MutualExclusion
<1>1. IInv => MutualExclusion
  <2> SUFFICES ASSUME IInv, NEW t \in Thread, NEW u \in Thread, t # u,
                      state[t] # "CRASHED", state[u] # "CRASHED",
                      NEW k \in holding[t] \cap holding[u]
               PROVE  FALSE
    BY DEF MutualExclusion
  <2>1. k \in MutexKey
    BY DEF IInv, CoreType
  <2>2. owner[k] = t /\ owner[k] = u
    BY <2>1 DEF IInv, Agree
  <2>3. QED
    BY <2>2
<1>2. QED
  BY <1>1, Inductive, PTL

\* No execution ends at an assertion of Mutex::set_owner.
THEOREM SetOwnerSafe == Spec => []SetOwnerAsserts
<1>1. IInv => SetOwnerAsserts
  BY DEF IInv
<1>2. QED
  BY <1>1, Inductive, PTL

\* No thread sleeps in ATOMIC_LOCK on a mutex that is free or whose owner has
\* crashed: unlock, wait and process_crash wake everybody they should.
THEOREM NobodyForgotten == Spec => []NoLostWakeUp
<1>1. IInv => NoLostWakeUp
  BY DEF IInv
<1>2. QED
  BY <1>1, Inductive, PTL

\* pthread_join sleeps only on an unfinished thread, and its single wait is enough:
\* a woken joiner's target is completed.
THEOREM JoinWaitsOnce == Spec => []JoinSound
<1>1. IInv => JoinSound
  BY DEF IInv
<1>2. QED
  BY <1>1, Inductive, PTL

\* yield and last_yield hand the token to running threads of processes that still
\* exist, unless a program called exit() or ended its main thread alone.
THEOREM TokenSafe == Spec => []TokenAlive
<1>1. IInv => TokenAlive
  <2> SUFFICES ASSUME IInv, outcome = "running", process[active_thread] \notin irregular
               PROVE  /\ state[active_thread] = "RUNNING"
                      /\ pc[active_thread] # "gone"
                      /\ process[active_thread] \notin exited
    BY DEF TokenAlive
  <2>1. active_thread \in Existing
    BY DEF IInv, CoreType
  <2>2. state[active_thread] = "RUNNING"
    BY DEF IInv, TokenRuns
  <2>3. pc[active_thread] # "gone"
    BY <2>1, <2>2 DEF IInv, Left, is_completed
  <2>4. QED
    BY <2>1, <2>2, <2>3 DEF IInv, Left
<1>2. QED
  BY <1>1, Inductive, PTL

\* finish_execution resets the shared state only when every thread is completed or
\* crashed; the processes that have not left then are exactly processes whose main
\* thread ended by pthread_exit, and which are still in Scheduler::wait.
THEOREM ResetIsLast == Spec => []ResetAfterAll
<1>1. IInv => ResetAfterAll
  BY DEF IInv
<1>2. QED
  BY <1>1, Inductive, PTL

-----------------------------------------------------------------------------
\* Ownership implements the robust mutex.

\* A step that changes no owner and revives no crashed thread is a crash of nobody
\* or of some threads.
LEMMA KeepsOwners ==
    ASSUME UNCHANGED owner, \A u \in Thread : state[u] = "CRASHED" => state'[u] = "CRASHED"
    PROVE  Robust!Next
<1> DEFINE C == {u \in Thread : state[u] = "CRASHED"}
<1>1. C' \in SUBSET Thread /\ C' = C \cup C'
  OBVIOUS
<1>2. Robust!Crash
  BY <1>1 DEF Robust!Crash
<1>3. QED
  BY <1>2 DEF Robust!Next

LEMMA LetsGoReleases ==
    ASSUME IInv, NEW t \in Thread, Acts(t), NEW k \in MutexKey, LetsGo(t, k),
           \A u \in Thread : state'[u] = "CRASHED" <=> state[u] = "CRASHED"
    PROVE  Robust!Next
<1>1. owner[k] = t /\ owner' = [owner EXCEPT ![k] = NoThread] /\ state[t] # "CRASHED"
  BY LetsGoFacts, TokenFacts DEF Acts, IInv
<1>2. {u \in Thread : state'[u] = "CRASHED"} = {u \in Thread : state[u] = "CRASHED"}
  OBVIOUS
<1>3. Robust!Release(t, k)
  BY <1>1, <1>2 DEF Robust!Release
<1>4. QED
  BY <1>3 DEF Robust!Next

LEMMA KindRefines ==
    ASSUME IInv, NEW t \in Thread, Acts(t), Kind(t)
    PROVE  Robust!Next
<1>1. /\ state[t] = "RUNNING" /\ Existing \subseteq Thread /\ state \in [Thread -> ThreadState]
  BY TokenFacts DEF IInv, Acts, CoreType
<1>2. CASE \E w \in {"yield", "shutdown", "evict"}, a \in Action : NamedAct(t, a) /\ Passes(t, w, a)
  BY <1>2, KeepsOwners DEF Passes, Same
<1>3. CASE \E st \in [Thread -> ThreadState] : Leaves(t, st)
  <2>1. PICK st \in [Thread -> ThreadState] : Leaves(t, st)
    BY <1>3
  <2>2. \A u \in Thread : state[u] = "CRASHED" => state'[u] = "CRASHED"
    BY <2>1 DEF Leaves, EndState, is_completed
  <2>3. QED
    BY <2>1, <2>2, KeepsOwners DEF Leaves, Same
<1>4. CASE LeavesIrregularly(t)
  BY <1>1, <1>4, KeepsOwners DEF LeavesIrregularly, Same
<1>5. CASE \E W \in SUBSET Thread : Runs(t, W)
  BY <1>5, KeepsOwners DEF Runs, Same
<1>6. ASSUME NEW k \in MutexKey, Takes(t, k) PROVE Robust!Next
  <2>1. Free(k) /\ owner' = [owner EXCEPT ![k] = t] /\ UNCHANGED state
    BY <1>6 DEF Takes, SetOwner
  <2>2. owner[k] = NoThread \/ owner[k] \in {u \in Thread : state[u] = "CRASHED"}
    BY <2>1 DEF Free, OwnerCrashed, IInv, CoreType
  <2>3. Robust!Acquire(t, k)
    BY <1>1, <2>1, <2>2 DEF Robust!Acquire
  <2>4. QED
    BY <2>3 DEF Robust!Next
<1>7. ASSUME NEW k \in MutexKey, Releases(t, k) PROVE Robust!Next
  <2>1. LetsGo(t, k) /\ state' = WakeAll("ATOMIC_LOCK", k)
    BY <1>7 DEF Releases
  <2>2. \A u \in Thread : state'[u] = "CRASHED" <=> state[u] = "CRASHED"
    BY <2>1, LetsGoFacts
  <2>3. QED
    BY <2>1, <2>2, LetsGoReleases
<1>8. ASSUME NEW k \in MutexKey, Sleeps(t, k) PROVE Robust!Next
  <2> DEFINE st == WakeAll("ATOMIC_LOCK", k)
  <2>1. LetsGo(t, k) /\ Blocks(t, st)
    BY <1>8 DEF Sleeps
  <2>2. /\ \A u \in Thread : st[u] = "CRASHED" <=> state[u] = "CRASHED"
        /\ st \in [Thread -> ThreadState]
    BY <2>1, LetsGoFacts
  <2> HIDE DEF st
  <2>3. \A u \in Thread : state'[u] = "CRASHED" <=> state[u] = "CRASHED"
    BY <1>1, <2>1, <2>2 DEF Blocks
  <2>4. QED
    BY <2>1, <2>3, LetsGoReleases
<1>9. CASE WaitsFor(t)
  BY <1>1, <1>9, KeepsOwners DEF WaitsFor, Blocks
<1>10. CASE ExecCreate(t)
  <2>1. UNCHANGED owner /\ state' = [state EXCEPT ![thread_count] = "RUNNING"]
    BY <1>10 DEF ExecCreate, NewThread, lockVars
  <2>2. thread_count \in Thread => state[thread_count] = "NONE"
    BY SizeAssumption DEF IInv, CoreType, Born, Existing
  <2>3. QED
    BY <1>1, <2>1, <2>2, KeepsOwners
<1>11. CASE ExecThreadFinish(t)
  <2>1. UNCHANGED owner /\ state' = [WakeAll("PTHREAD_JOIN", t) EXCEPT ![t] = "COMPLETED"]
    BY <1>11 DEF ExecThreadFinish, lockVars
  <2>2. \A u \in Thread : state[u] = "CRASHED" => state'[u] = "CRASHED"
    BY <1>1, <2>1 DEF WakeAll, WaitingOn
  <2>3. QED
    BY <2>1, <2>2, KeepsOwners
<1>12. CASE Return(t)
  BY <1>12, KeepsOwners DEF Return, lockVars
<1>13. CASE Same /\ UNCHANGED state
  BY <1>13, KeepsOwners DEF Same
<1>14. QED
  BY <1>2, <1>3, <1>4, <1>5, <1>6, <1>7, <1>8, <1>9, <1>10, <1>11, <1>12, <1>13 DEF Kind, Aborts

\* Mutex::set_owner is called only to take a free or orphaned mutex and to let an own
\* one go: owner and the crashed threads behave as RobustMutex says.
THEOREM MutexesRobust == Spec => MutexRefinement
<1>1. Init => Robust!Init
  <2> SUFFICES ASSUME Init PROVE Robust!Init
    OBVIOUS
  <2>1. \A t \in Thread : state[t] # "CRASHED"
    BY DEF Init
  <2>2. QED
    BY <2>1 DEF Init, Robust!Init
<1>2. IInv /\ BookType /\ [Next]_vars => [Robust!Next]_(Robust!mutexVars)
  <2> SUFFICES ASSUME IInv, BookType, [Next]_vars PROVE [Robust!Next]_(Robust!mutexVars)
    OBVIOUS
  <2>1. CASE \E t \in Thread : Step(t)
    <3>1. PICK t \in Thread : Step(t)
      BY <2>1
    <3>2. Kind(t) /\ Acts(t)
      BY <3>1, StepKind
    <3>3. QED
      BY <3>2, KindRefines
  <2>2. CASE UNCHANGED vars
    BY <2>2 DEF vars, lockVars, thrVars, Robust!mutexVars
  <2>3. CASE ResetWakes
    BY <2>3 DEF ResetWakes, lockVars, thrVars, Robust!mutexVars
  <2>4. QED
    BY <2>1, <2>2, <2>3 DEF Next, Over
<1>3. QED
  BY <1>1, <1>2, Inductive, PTL DEF Spec, MutexRefinement, Robust!Spec
=============================================================================
