----------------------------- MODULE CXLMemory -----------------------------
(***************************************************************************)
(* One execution of CXLMC: Model::action and what it calls, for programs   *)
(* that issue any sequence of the calls Calls allows.  Threads hand an     *)
(* execution token round (Scheduler::yield); the holder runs, executes its *)
(* action against its store and flush buffers (ThreadMemory), the store    *)
(* lists obj_to_wr and the per-process persistence ranges obj_to_cl, then  *)
(* evicts some buffer entries of a thread picked at random.  Every         *)
(* decision_point is a nondeterministic choice.                            *)
(*                                                                         *)
(* The holder's work is cut into steps (phase); nobody else moves between  *)
(* them, as in the code.                                                   *)
(***************************************************************************)
EXTENDS ModelAction

CONSTANTS
    MaxCrashes,   \* MAX_CRASHES_PER_EXECUTION
    EvictMax,     \* EVICT_MAX
    GPF,          \* GPF_ALWAYS_SUCCEEDS is defined
    Calls,        \* Calls[t]: the API calls thread t makes
    CanInsertCrash, \* programs that call Model::insert_crash (test/userB.cc)
    CanToggle,    \* processes that call cxlmc_no_backtrack_begin / end
    MaxOps        \* bound: MaxOps[t] is the number of calls thread t makes

ASSUME BoundAssumption ==
    /\ MaxCrashes \in Nat
    /\ EvictMax \in Nat \ {0}
    /\ GPF \in BOOLEAN
    /\ Calls \in [Thread -> SUBSET CallNames]
    /\ MaxOps \in [Thread -> Nat]
    /\ CanInsertCrash \subseteq Proc
    /\ CanToggle \subseteq Proc

VARIABLES
    \* ThreadMemory, one per thread
    storeBuffer,      \* storeBuffer[t]: sequence of actions, oldest first
    flushBuffer,      \* flushBuffer[t]: clflushopts waiting for a fence
    last_sfence,      \* last_sfence[t]
    cl_to_last_wr_clf,\* cl_to_last_wr_clf[t][l]; a missing entry is 0
    \* Model
    obj_to_wr,        \* obj_to_wr[w]: evicted stores of word w, oldest first
    cl_begin,         \* obj_to_cl: cl_begin[p][l], everything up to it persisted
    cl_end,           \* obj_to_cl: cl_end[p][l], nothing from it on persisted; 0: unset
    next_sequence_num,
    raw,              \* raw[w]: what the word itself holds, under the model
    crashes,          \* crashes[p]: clock of p's crash, NotCrashed if absent
    completed_procs,
    backtrack,        \* backtrack[p]: the process-local flag
    \* Scheduler
    state,            \* state[t]: RUNNING, COMPLETED or CRASHED
    active_thread,
    pending,          \* pending[t]: the action t is in, NoAct in user code
    \* where the active thread is inside Model::action
    phase,            \* run, drain, read, post, evict, rmw or done
    tgt,              \* the thread whose buffers are popped
    todo,             \* num_to_pop, what is left of it
    fence,            \* inside the CACHE_SFENCE case of pop_from_store_buffer
    rf,               \* build_read_from: rf
    itr,              \* build_read_from: index of the next store to look at
    ops,              \* ops[t]: calls made, bounded by MaxOps
    \* history, read by the properties only
    seenMax,          \* seenMax[p][l]: newest store of p to l known to others to persist
    missedMin,        \* missedMin[p][l]: oldest store of p to l decided not persisted; 0: none
    promised          \* promised[t][l]: newest own store to l when t last flushed l

thrVars  == <<storeBuffer, flushBuffer, last_sfence, cl_to_last_wr_clf>>
memVars  == <<obj_to_wr, cl_begin, cl_end, next_sequence_num, raw>>
procVars == <<crashes, completed_procs, backtrack>>
schVars  == <<state, active_thread>>
ctlVars  == <<phase, tgt, todo, fence, rf, itr>>
histVars == <<seenMax, missedMin, promised>>
vars == <<thrVars, memVars, procVars, schVars, ctlVars, pending, ops, histVars>>

NotCrashed == -1

TypeOK ==
    /\ storeBuffer \in [Thread -> Seq(Action)]
    /\ flushBuffer \in [Thread -> Seq(Action)]
    /\ last_sfence \in [Thread -> Nat]
    /\ cl_to_last_wr_clf \in [Thread -> [Line -> Nat]]
    /\ obj_to_wr \in [Word -> Seq(Action)]
    /\ cl_begin \in [Proc -> [Line -> Nat]]
    /\ cl_end \in [Proc -> [Line -> Nat]]
    /\ next_sequence_num \in Nat
    /\ raw \in [Word -> Val \cup {InitVal}]
    /\ crashes \in [Proc -> Nat \cup {NotCrashed}]
    /\ completed_procs \subseteq Proc
    /\ backtrack \in [Proc -> BOOLEAN]
    /\ state \in [Thread -> {"RUNNING", "COMPLETED", "CRASHED"}]
    /\ active_thread \in Thread
    /\ pending \in [Thread -> Action]
    /\ phase \in {"run", "drain", "read", "post", "evict", "rmw", "done"}
    /\ tgt \in Thread
    /\ todo \in Nat
    /\ fence \in BOOLEAN
    /\ rf \in [Byte -> Action]
    /\ itr \in Nat
    /\ ops \in [Thread -> Nat]
    /\ seenMax \in [Proc -> [Line -> Nat]]
    /\ missedMin \in [Proc -> [Line -> Nat]]
    /\ promised \in [Thread -> [Line -> Nat]]

----------------------------------------------------------------------------
\* Processes

Crashed(p) == crashes[p] # NotCrashed
IsLive_Mutant(p) == ~Crashed(p)   \* forgets completed processes
IsLive(p) == ~Crashed(p) /\ p \notin completed_procs

CrashCount == Cardinality({p \in Proc : Crashed(p)})

\* The process whose code is running.
Me == ProcOf[active_thread]

\* Another crash is within MAX_CRASHES_PER_EXECUTION and leaves a survivor.
CrashAllowed_Mutant == CrashCount < MaxCrashes /\ CrashCount < NProcs   \* off by one
CrashAllowed == CrashCount < MaxCrashes /\ CrashCount + 1 < NProcs

\* Model::should_crash up to its decision_point.
ShouldCrash == backtrack[Me] /\ CrashAllowed

----------------------------------------------------------------------------
\* The token.  NextActive(st, u): u gets it when the active thread gives it up
\* with thread states st; it stays where it is when no other thread runs.

Dist(a, t) == (t + NThreads - a) % NThreads

NextActive(st, u) ==
    LET others == {t \in Thread \ {active_thread} : st[t] = "RUNNING"}
    IN IF others = {} THEN u = active_thread
       ELSE u \in others /\ \A t \in others :
                Dist(active_thread, u) <= Dist(active_thread, t)

\* Everything the holder kept on its stack inside Model::action is gone.
ClearCtl ==
    /\ tgt' = 0
    /\ todo' = 0
    /\ fence' = FALSE
    /\ rf' = NoRf
    /\ itr' = 0

\* Scheduler::finalize and last_yield: the last RUNNING thread ends the execution.
LastYield(st) ==
    /\ state' = st
    /\ \E u \in Thread :
         /\ NextActive(st, u)
         /\ active_thread' = u
         /\ phase' = IF u = active_thread THEN "done" ELSE "run"
    /\ ClearCtl

\* Scheduler::process_crash followed by exit: the process's unfinished threads
\* crash with whatever their buffers hold, and its atexit handler passes the token.
ProcessCrashExit ==
    /\ LastYield([t \in Thread |-> IF ProcOf[t] = Me /\ state[t] = "RUNNING"
                                   THEN "CRASHED" ELSE state[t]])
    /\ pending' = [t \in Thread |-> IF ProcOf[t] = Me THEN NoAct ELSE pending[t]]

----------------------------------------------------------------------------
\* Model::action up to the switch in execute.

InUserCode == phase = "run" /\ pending[active_thread] = NoAct

CanCall(t) == ops[t] < MaxOps[t]

CountCall(t) == ops' = [ops EXCEPT ![t] = @ + 1]

\* The active thread calls the API.  The crash test comes first; the token is
\* handed on only by the calls that yield, and the action is pending meanwhile.
Call ==
    /\ InUserCode
    /\ CanCall(active_thread)
    /\ ~Crashed(Me)
    /\ \E name \in Calls[active_thread] :
         /\ \E a \in Issued(active_thread, name) :
              pending' = [pending EXCEPT ![active_thread] = a]
         /\ \E u \in Thread :
              /\ IF Yields(name) THEN NextActive(state, u) ELSE u = active_thread
              /\ active_thread' = u
    /\ CountCall(active_thread)
    /\ UNCHANGED <<thrVars, memVars, procVars, state, ctlVars, histVars>>

\* A call of a process that somebody has crashed: it stops here.  The second
\* part of a read-modify-write makes the test too.
CrashedCall ==
    /\ \/ InUserCode /\ CanCall(active_thread) /\ Calls[active_thread] # {}
       \/ InUserCode /\ active_thread >= NProcs
       \/ phase = "rmw"
    /\ Crashed(Me)
    /\ ProcessCrashExit
    /\ UNCHANGED <<thrVars, memVars, procVars, ops, histVars>>

\* thread_start: a thread's function returns, model->action(THREAD_FINISH).
CallThreadFinish ==
    /\ InUserCode
    /\ active_thread >= NProcs
    /\ ~Crashed(Me)
    /\ pending' = [pending EXCEPT ![active_thread] =
                     Act("THREAD_FINISH", active_thread, AnyWord, {}, InitVal, FALSE)]
    /\ \E u \in Thread : NextActive(state, u) /\ active_thread' = u
    /\ UNCHANGED <<thrVars, memVars, procVars, state, ctlVars, ops, histVars>>

\* user_done: main returns; process_shutdown yields without looking at crashes.
CallShutdown ==
    /\ InUserCode
    /\ active_thread < NProcs
    /\ pending' = [pending EXCEPT ![active_thread] =
                     Act("SHUTDOWN", active_thread, AnyWord, {}, InitVal, FALSE)]
    /\ \E u \in Thread : NextActive(state, u) /\ active_thread' = u
    /\ UNCHANGED <<thrVars, memVars, procVars, state, ctlVars, ops, histVars>>

\* Model::insert_crash called by a program on its own process.
InsertCrash ==
    /\ InUserCode
    /\ Me \in CanInsertCrash
    /\ ShouldCrash
    /\ crashes' = [crashes EXCEPT ![Me] = next_sequence_num]
    /\ ProcessCrashExit
    /\ UNCHANGED <<thrVars, memVars, completed_procs, backtrack, ops, histVars>>

\* cxlmc_no_backtrack_begin and cxlmc_no_backtrack_end.
NoBacktrack(on) ==
    /\ InUserCode
    /\ Me \in CanToggle
    /\ CanCall(active_thread)
    /\ CountCall(active_thread)
    /\ backtrack' = [backtrack EXCEPT ![Me] = ~on]
    /\ UNCHANGED <<thrVars, memVars, crashes, completed_procs, schVars, ctlVars,
                   pending, histVars>>

----------------------------------------------------------------------------
\* execute: the active thread has the token back and its action pending.  The
\* crash test is not repeated.

Executing == phase = "run" /\ pending[active_thread] # NoAct

Cur == pending[active_thread]

InitAction(w) == Act("ATOMIC_INIT", active_thread, w, Byte, raw[w], FALSE)

\* ensureInitialValue: the first access to a word records what memory held.
EnsureInitialValue_Mutant(wr, w) == wr   \* forgotten
EnsureInitialValue(wr, w) ==
    IF wr[w] = <<>> THEN [wr EXCEPT ![w] = <<InitAction(w)>>] ELSE wr

AddToStoreBuffer(a) ==
    storeBuffer' = [storeBuffer EXCEPT ![active_thread] = Append(@, CopyAction(a))]

\* empty_store_buffer, empty_flush_buffer of thread t come next.
StartDrain(t) ==
    /\ phase' = "drain"
    /\ tgt' = t
    /\ UNCHANGED <<todo, fence, rf, itr>>

Post ==
    /\ phase' = "post"
    /\ UNCHANGED <<tgt, todo, fence, rf, itr>>

ExecStore ==
    /\ Executing
    /\ Cur.type \in Stores
    /\ obj_to_wr' = EnsureInitialValue(obj_to_wr, Cur.loc)
    /\ AddToStoreBuffer(Cur)
    /\ IF Cur.type = "ATOMIC_RMW" \/ Cur.sc THEN StartDrain(active_thread) ELSE Post
    /\ UNCHANGED <<flushBuffer, last_sfence, cl_to_last_wr_clf, cl_begin, cl_end,
                   next_sequence_num, raw, procVars, schVars, pending, ops, histVars>>

\* PTHREAD_CREATE is neither a read nor a write to ensureInitialValue.  It
\* buffers a plain store of the new thread's identifier and writes it to the
\* word itself at once.  (What it does to the scheduler is in Scheduler.)
ExecCreate ==
    /\ Executing
    /\ Cur.type = "PTHREAD_CREATE"
    /\ AddToStoreBuffer([Cur EXCEPT !.type = "NONATOMIC_STORE", !.fp = IdFootprint])
    /\ raw' = [raw EXCEPT ![Cur.loc] = Cur.val]
    /\ Post
    /\ UNCHANGED <<flushBuffer, last_sfence, cl_to_last_wr_clf, obj_to_wr, cl_begin,
                   cl_end, next_sequence_num, procVars, schVars, pending, ops, histVars>>

ExecFlush ==
    /\ Executing
    /\ Cur.type \in Flushes \cup {"CACHE_SFENCE"}
    /\ LET a == IF Cur.type = "CACHE_CLFLUSHOPT"
                THEN [Cur EXCEPT !.ee = next_sequence_num] ELSE Cur
       IN AddToStoreBuffer(a)
    /\ Post
    /\ UNCHANGED <<flushBuffer, last_sfence, cl_to_last_wr_clf, memVars, procVars,
                   schVars, pending, ops, histVars>>

ExecMfence ==
    /\ Executing
    /\ Cur.type = "CACHE_MFENCE"
    /\ StartDrain(active_thread)
    /\ UNCHANGED <<thrVars, memVars, procVars, schVars, pending, ops, histVars>>

ExecRmwr ==
    /\ Executing
    /\ Cur.type = "ATOMIC_RMWR"
    /\ obj_to_wr' = EnsureInitialValue(obj_to_wr, Cur.loc)
    /\ StartDrain(active_thread)
    /\ UNCHANGED <<thrVars, cl_begin, cl_end, next_sequence_num, raw, procVars, schVars,
                   pending, ops, histVars>>

\* local_bypassing: the newest buffered nonatomic store to a byte is its source.
LocalBypassing_Mutant(t, read) ==   \* only stores of the same size and place
    [b \in Byte |->
        LET own == {i \in DOMAIN storeBuffer[t] :
                      /\ storeBuffer[t][i].type = "NONATOMIC_STORE"
                      /\ storeBuffer[t][i].loc = read.loc
                      /\ storeBuffer[t][i].fp = read.fp}
        IN IF own = {} \/ b \notin read.fp THEN NoAct
           ELSE storeBuffer[t][CHOOSE i \in own : \A j \in own : j <= i]]

LocalBypassing(t, read) ==
    [b \in Byte |->
        LET own == {i \in DOMAIN storeBuffer[t] :
                      /\ storeBuffer[t][i].type = "NONATOMIC_STORE"
                      /\ storeBuffer[t][i].loc = read.loc
                      /\ b \in storeBuffer[t][i].fp \cap read.fp}
        IN IF own = {} THEN NoAct
           ELSE storeBuffer[t][CHOOSE i \in own : \A j \in own : j <= i]]

\* build_read_from up to its loop over the stores, given the store lists wr.
BuildReadFrom(wr) ==
    LET local == LocalBypassing(active_thread, Cur)
    IN /\ rf' = local
       /\ IF Open(local, Cur) = {}
          THEN phase' = "post" /\ itr' = 0
          ELSE phase' = "read" /\ itr' = Len(wr[Cur.loc])
       /\ UNCHANGED <<tgt, todo, fence>>

ExecLoad ==
    /\ Executing
    /\ Cur.type \in Loads
    /\ obj_to_wr' = EnsureInitialValue(obj_to_wr, Cur.loc)
    /\ BuildReadFrom(obj_to_wr')
    /\ UNCHANGED <<thrVars, cl_begin, cl_end, next_sequence_num, raw, procVars, schVars,
                   pending, ops, histVars>>

\* THREAD_YIELD and ATOMIC_CAS_FAILED do nothing.
ExecNothing ==
    /\ Executing
    /\ Cur.type \in {"THREAD_YIELD", "ATOMIC_CAS_FAILED"}
    /\ Post
    /\ UNCHANGED <<thrVars, memVars, procVars, schVars, pending, ops, histVars>>

\* THREAD_FINISH does not come back: its buffers stay as they are.
ExecThreadFinish ==
    /\ Executing
    /\ Cur.type = "THREAD_FINISH"
    /\ LastYield([state EXCEPT ![active_thread] = "COMPLETED"])
    /\ pending' = [pending EXCEPT ![active_thread] = NoAct]
    /\ UNCHANGED <<thrVars, memVars, procVars, ops, histVars>>

\* Scheduler::process_shutdown drains the process's threads in thread order.
Completed(t) == [state EXCEPT ![t] = IF @ = "RUNNING" THEN "COMPLETED" ELSE @]

ExecShutdown ==
    /\ Executing
    /\ Cur.type = "SHUTDOWN"
    /\ state' = Completed(active_thread)
    /\ StartDrain(active_thread)
    /\ UNCHANGED <<thrVars, memVars, procVars, active_thread, pending, ops, histVars>>

Exec ==
    \/ ExecStore \/ ExecCreate \/ ExecFlush \/ ExecMfence \/ ExecRmwr \/ ExecLoad
    \/ ExecNothing \/ ExecThreadFinish \/ ExecShutdown

----------------------------------------------------------------------------
\* ThreadMemory::pop_from_store_buffer and empty_flush_buffer, for thread tgt.

CanPop ==
    /\ ~fence
    /\ storeBuffer[tgt] # <<>>
    /\ phase = "drain" \/ (phase = "evict" /\ todo > 0)

Popped == Head(storeBuffer[tgt])

Pop_Mutant ==   \* drains use up num_to_pop too
    /\ storeBuffer' = [storeBuffer EXCEPT ![tgt] = Tail(@)]
    /\ todo' = todo - 1

Pop ==
    /\ storeBuffer' = [storeBuffer EXCEPT ![tgt] = Tail(@)]
    /\ todo' = IF phase = "evict" THEN todo - 1 ELSE todo

\* The stores of line l; the newest one of thread t.
StoresOf(l) == UNION {{obj_to_wr[w][i] : i \in DOMAIN obj_to_wr[w]} :
                        w \in {v \in Word : LineOf[v] = l}}

IsLastStore(t, l, n) ==
    LET own == {s.seq : s \in {r \in StoresOf(l) : r.tid = t}}
    IN IF own = {} THEN n = 0 ELSE n \in own /\ \A m \in own : m <= n

\* History: a flush of a line promises that the thread's stores to it persist.
Promise ==
    \E n \in 0 .. next_sequence_num :
        /\ IsLastStore(tgt, LineOf[Popped.loc], n)
        /\ promised' = [promised EXCEPT ![tgt][LineOf[Popped.loc]] = n]

\* evict_store, and the bookkeeping of pop_from_store_buffer.
PopStore ==
    /\ CanPop
    /\ Popped.type \in Stores
    /\ Pop
    /\ obj_to_wr' = [obj_to_wr EXCEPT ![Popped.loc] =
                        Append(@, [Popped EXCEPT !.seq = next_sequence_num])]
    /\ next_sequence_num' = next_sequence_num + 1
    /\ cl_to_last_wr_clf' =
           [cl_to_last_wr_clf EXCEPT ![tgt][LineOf[Popped.loc]] = next_sequence_num]
    /\ UNCHANGED <<flushBuffer, last_sfence, cl_begin, cl_end, raw, procVars, schVars,
                   phase, tgt, fence, rf, itr, pending, ops, histVars>>

\* A clflushopt takes effect no earlier than the thread's last sfence and its
\* last store to, or clflush of, the line.
RaiseTo_Mutant(x, y) == y   \* may go back
RaiseTo(x, y) == IF x < y THEN y ELSE x

EarliestEffect_Mutant(a, t) == RaiseTo(a.ee, last_sfence[t])   \* ignores stores
EarliestEffect(a, t) ==
    RaiseTo(RaiseTo(a.ee, last_sfence[t]), cl_to_last_wr_clf[t][LineOf[a.loc]])

PopClflushopt ==
    /\ CanPop
    /\ Popped.type = "CACHE_CLFLUSHOPT"
    /\ Pop
    /\ flushBuffer' = [flushBuffer EXCEPT ![tgt] =
                         Append(@, [Popped EXCEPT !.ee = EarliestEffect(Popped, tgt)])]
    /\ Promise
    /\ UNCHANGED <<last_sfence, cl_to_last_wr_clf, memVars, procVars, schVars, phase,
                   tgt, fence, rf, itr, pending, ops, seenMax, missedMin>>

PopSfence ==
    /\ CanPop
    /\ Popped.type = "CACHE_SFENCE"
    /\ Pop
    /\ fence' = TRUE
    /\ UNCHANGED <<flushBuffer, last_sfence, cl_to_last_wr_clf, memVars, procVars,
                   schVars, phase, tgt, rf, itr, pending, ops, histVars>>

\* The flush buffer is empty: last_sfence = the sfence's seq_num, which nothing
\* ever sets, so 0.
SfenceDone ==
    /\ fence
    /\ flushBuffer[tgt] = <<>>
    /\ fence' = FALSE
    /\ last_sfence' = [last_sfence EXCEPT ![tgt] = 0]
    /\ UNCHANGED <<storeBuffer, flushBuffer, cl_to_last_wr_clf, memVars, procVars,
                   schVars, phase, tgt, todo, rf, itr, pending, ops, histVars>>

(***************************************************************************)
(* Model::evict_clflush of action a with sequence number seq.  All         *)
(* processes' copies of the line are written back: begin is raised to seq. *)
(* Walking the word's stores back from the newest, the first one newer     *)
(* than the old minimum whose writer is live makes that writer a candidate *)
(* to crash before the flush.                                              *)
(***************************************************************************)
RaiseBegin(l, seq) ==
    cl_begin' = [p \in Proc |-> [cl_begin[p] EXCEPT ![l] = RaiseTo(@, seq)]]

FlushVictims(a, seq) ==
    LET stores == obj_to_wr[a.loc]
        writer(i) == ProcOf[stores[i].tid]
        newer(s) == s.seq > seq \/ \E p \in Proc : cl_begin[p][LineOf[a.loc]] < s.seq
        cands == {i \in DOMAIN stores :
                    /\ IsLive(writer(i))
                    /\ \A j \in i .. Len(stores) : newer(stores[j])}
    IN {writer(i) : i \in {k \in cands : \A j \in cands : j <= k}}

\* insert_crash(wpid) for a writer other than the running process, at clock nsn;
\* not crashing is always possible.
MaybeCrashOther(victims, nsn) ==
    \/ UNCHANGED crashes
    \/ /\ ShouldCrash
       /\ \E v \in victims \ {Me} : crashes' = [crashes EXCEPT ![v] = nsn]

\* insert_crash(wpid) for the running process: it exits inside the pop.
CrashSelf(victims, nsn) ==
    /\ ShouldCrash
    /\ Me \in victims
    /\ crashes' = [crashes EXCEPT ![Me] = nsn]
    /\ ProcessCrashExit

PopClflush ==
    /\ CanPop
    /\ Popped.type = "CACHE_CLFLUSH"
    /\ RaiseBegin(LineOf[Popped.loc], next_sequence_num)
    /\ next_sequence_num' = next_sequence_num + 1
    /\ \/ /\ MaybeCrashOther(FlushVictims(Popped, next_sequence_num), next_sequence_num + 1)
          /\ cl_to_last_wr_clf' =
               [cl_to_last_wr_clf EXCEPT ![tgt][LineOf[Popped.loc]] = next_sequence_num]
          /\ Pop
          /\ UNCHANGED <<schVars, phase, tgt, fence, rf, itr, pending>>
       \/ /\ CrashSelf(FlushVictims(Popped, next_sequence_num), next_sequence_num + 1)
          /\ storeBuffer' = [storeBuffer EXCEPT ![tgt] = Tail(@)]
          /\ UNCHANGED cl_to_last_wr_clf
    /\ Promise
    /\ UNCHANGED <<flushBuffer, last_sfence, obj_to_wr, cl_end, raw, completed_procs,
                   backtrack, ops, seenMax, missedMin>>

\* One round of empty_flush_buffer.
FlushOne ==
    /\ flushBuffer[tgt] # <<>>
    /\ fence \/ (phase = "drain" /\ storeBuffer[tgt] = <<>>)
    /\ LET a == Head(flushBuffer[tgt])
       IN /\ RaiseBegin(LineOf[a.loc], a.ee)
          /\ \/ /\ MaybeCrashOther(FlushVictims(a, a.ee), next_sequence_num)
                /\ UNCHANGED <<schVars, ctlVars, pending>>
             \/ CrashSelf(FlushVictims(a, a.ee), next_sequence_num)
    /\ flushBuffer' = [flushBuffer EXCEPT ![tgt] = Tail(@)]
    /\ UNCHANGED <<storeBuffer, last_sfence, cl_to_last_wr_clf, obj_to_wr, cl_end,
                   next_sequence_num, raw, completed_procs, backtrack, ops, histVars>>

Drained ==
    /\ phase = "drain"
    /\ ~fence
    /\ storeBuffer[tgt] = <<>>
    /\ flushBuffer[tgt] = <<>>

\* The drain of a store, fence or read-modify-write is over.
DrainDone ==
    /\ Drained
    /\ Cur.type \notin {"ATOMIC_RMWR", "SHUTDOWN"}
    /\ Post
    /\ UNCHANGED <<thrVars, memVars, procVars, schVars, pending, ops, histVars>>

\* ... the read half of a read-modify-write falls through to the load.
DrainThenRead ==
    /\ Drained
    /\ Cur.type = "ATOMIC_RMWR"
    /\ BuildReadFrom(obj_to_wr)
    /\ UNCHANGED <<thrVars, memVars, procVars, schVars, pending, ops, histVars>>

\* ... process_shutdown goes on with the process's next thread
LaterThreads == {t \in Thread : ProcOf[t] = Me /\ t > tgt}

ShutdownNext ==
    /\ Drained
    /\ Cur.type = "SHUTDOWN"
    /\ \E t \in LaterThreads :
         /\ \A u \in LaterThreads : t <= u
         /\ state' = Completed(t)
         /\ StartDrain(t)
    /\ UNCHANGED <<thrVars, memVars, procVars, active_thread, pending, ops, histVars>>

\* ... or, after the last one, complete_process and exit.
ShutdownDone ==
    /\ Drained
    /\ Cur.type = "SHUTDOWN"
    /\ LaterThreads = {}
    /\ completed_procs' = completed_procs \cup {Me}
    /\ LastYield(state)
    /\ pending' = [t \in Thread |-> IF ProcOf[t] = Me THEN NoAct ELSE pending[t]]
    /\ UNCHANGED <<thrVars, memVars, crashes, backtrack, ops, histVars>>

Drain ==
    \/ PopStore \/ PopClflushopt \/ PopSfence \/ SfenceDone \/ PopClflush \/ FlushOne
    \/ DrainDone \/ DrainThenRead \/ ShutdownNext \/ ShutdownDone

----------------------------------------------------------------------------
\* The loop of build_read_from: one step per store, newest first, until no byte
\* of the read is open.

Looked == obj_to_wr[Cur.loc][itr]
Writer == ProcOf[Looked.tid]
ReadLine == LineOf[Cur.loc]

Reading == phase = "read" /\ itr > 0

\* GPF_ALWAYS_SUCCEEDS switches backtrack off for the time of a load.
Backtracking == backtrack[Me] /\ ~GPF

\* Go on to the next older store with read-from map r, or finish the read.
Advance_Mutant(r) ==   \* does not step over a skipped store
    IF r = rf THEN UNCHANGED ctlVars
    ELSE /\ rf' = r
         /\ IF Open(r, Cur) = {} THEN phase' = "post" /\ itr' = 0
                                 ELSE phase' = "read" /\ itr' = itr - 1
         /\ UNCHANGED <<tgt, todo, fence>>

Advance(r) ==
    /\ rf' = r
    /\ IF Open(r, Cur) = {} THEN phase' = "post" /\ itr' = 0
                            ELSE phase' = "read" /\ itr' = itr - 1
    /\ UNCHANGED <<tgt, todo, fence>>

KeptRf == Fill(rf, Looked, Cur)

Hits == Overlaps(rf, Looked, Cur)

\* What every step of the loop leaves alone.
ReadFrame == UNCHANGED <<thrVars, obj_to_wr, next_sequence_num, raw, completed_procs,
                         backtrack, schVars, pending, ops, promised>>

\* A store is read by somebody else, or after its writer's crash.
See == seenMax' = [seenMax EXCEPT ![Writer][ReadLine] =
                     IF Hits THEN RaiseTo(@, Looked.seq) ELSE @]

\* A write of another process that is read while its writer runs is thereby
\* known to be persisted (initialisations are exempt).
Exposes == Hits /\ Looked.type # "ATOMIC_INIT" /\ Writer # Me

MarkPersisted_Mutant == UNCHANGED cl_begin   \* forgotten
MarkPersisted ==
    cl_begin' = [cl_begin EXCEPT ![Writer][ReadLine] = RaiseTo(@, Looked.seq)]

ReadRunning ==
    /\ Reading
    /\ ~Crashed(Writer)
    /\ Advance(KeptRf)
    /\ IF Exposes
       THEN MarkPersisted /\ See
       ELSE UNCHANGED <<cl_begin, seenMax>>
    /\ UNCHANGED <<cl_end, crashes, missedMin>>
    /\ ReadFrame

\* Crash the writer before the read; the same store is then looked at again.
ReadCrash ==
    /\ Reading
    /\ ~Crashed(Writer)
    /\ Exposes
    /\ Backtracking
    /\ CrashAllowed
    /\ Writer \notin completed_procs
    /\ Looked.seq > cl_begin[Writer][ReadLine]
    /\ crashes' = [crashes EXCEPT ![Writer] = next_sequence_num]
    /\ UNCHANGED <<cl_begin, cl_end, ctlVars, seenMax, missedMin>>
    /\ ReadFrame

MustPersist == Looked.seq <= cl_begin[Writer][ReadLine]

MayPersist ==
    /\ ~MustPersist
    /\ \/ cl_end[Writer][ReadLine] = 0
       \/ Looked.seq < cl_end[Writer][ReadLine]

\* EQUIV_STORE_SKIP: the next older store is as good.
EquivSkip_Mutant ==   \* forgets to compare the values
    itr > 1 /\ Looked.fp = obj_to_wr[Cur.loc][itr - 1].fp
EquivSkip == itr > 1 /\ Equivalent(Looked, obj_to_wr[Cur.loc][itr - 1])

ReadMust ==
    /\ Reading
    /\ Crashed(Writer)
    /\ MustPersist
    /\ Advance(KeptRf)
    /\ See
    /\ UNCHANGED <<cl_begin, cl_end, crashes, missedMin>>
    /\ ReadFrame

\* Lost, skipped as equivalent to an older store, or not a store to these bytes.
ReadSkip ==
    /\ Reading
    /\ Crashed(Writer)
    /\ ~MustPersist
    /\ MayPersist => EquivSkip \/ ~Hits
    /\ Advance(rf)
    /\ UNCHANGED <<cl_begin, cl_end, crashes, seenMax, missedMin>>
    /\ ReadFrame

Deciding == Reading /\ Crashed(Writer) /\ MayPersist /\ ~EquivSkip /\ Hits

ReadLost ==
    /\ Deciding
    /\ Looked.type # "ATOMIC_INIT"
    /\ Backtracking
    /\ cl_end' = [cl_end EXCEPT ![Writer][ReadLine] = Looked.seq]
    /\ missedMin' = [missedMin EXCEPT ![Writer][ReadLine] =
                       IF @ = 0 \/ Looked.seq < @ THEN Looked.seq ELSE @]
    /\ Advance(rf)
    /\ UNCHANGED <<cl_begin, crashes, seenMax>>
    /\ ReadFrame

ReadPersisted ==
    /\ Deciding
    /\ cl_begin' = [cl_begin EXCEPT ![Writer][ReadLine] = Looked.seq]
    /\ See
    /\ Advance(KeptRf)
    /\ UNCHANGED <<cl_end, crashes, missedMin>>
    /\ ReadFrame

Read ==
    \/ ReadRunning \/ ReadCrash \/ ReadMust \/ ReadSkip \/ ReadLost \/ ReadPersisted

----------------------------------------------------------------------------
\* The end of Model::action: process_store_buffer, then back to the program.

\* num_to_pop for a buffer of n entries: below EVICT_MAX, and one entry stays.
PopCounts(n) == {k \in 0 .. n : k < EvictMax /\ (k < n \/ n = 0)}

\* The thread it pops from: one of a live process, any thread if there is none.
PopThreads ==
    LET live == {t \in Thread : IsLive(ProcOf[t])}
    IN IF live = {} THEN Thread ELSE live

ProcessStoreBuffer ==
    /\ phase = "post"
    /\ \E t \in PopThreads : \E n \in PopCounts(Len(storeBuffer[t])) :
         /\ tgt' = t
         /\ todo' = n
    /\ phase' = "evict"
    /\ UNCHANGED <<thrVars, memVars, procVars, schVars, fence, rf, itr, pending, ops,
                   histVars>>

\* A read-modify-write goes on with its second half without giving up the token.
Return ==
    /\ phase = "evict"
    /\ todo = 0
    /\ ~fence
    /\ tgt' = 0
    /\ IF Cur.type = "ATOMIC_RMWR"
       THEN phase' = "rmw" /\ UNCHANGED <<pending, rf>>
       ELSE /\ phase' = "run"
            /\ pending' = [pending EXCEPT ![active_thread] = NoAct]
            /\ rf' = NoRf
    /\ UNCHANGED <<todo, fence, itr>>
    /\ UNCHANGED <<thrVars, memVars, procVars, schVars, ops, histVars>>

\* _ATOMIC_RMW_ and _ATOMIC_CMPSWP_: the write half, or a failed comparison.
RmwSecond ==
    /\ phase = "rmw"
    /\ ~Crashed(Me)
    /\ \/ \E v \in Val :
            pending' = [pending EXCEPT ![active_thread] =
                          [@ EXCEPT !.type = "ATOMIC_RMW", !.val = v]]
       \/ pending' = [pending EXCEPT ![active_thread] =
                          [@ EXCEPT !.type = "ATOMIC_CAS_FAILED"]]
    /\ phase' = "run"
    /\ rf' = NoRf
    /\ UNCHANGED <<thrVars, memVars, procVars, schVars, tgt, todo, fence, itr, ops,
                   histVars>>

\* The final assert(false) of build_read_from: no store is left and a byte open.
ReadFails == phase = "read" /\ itr = 0

\* The execution is over.
Finished == (phase = "done" \/ ReadFails) /\ UNCHANGED vars

Init ==
    /\ storeBuffer = [t \in Thread |-> <<>>]
    /\ flushBuffer = [t \in Thread |-> <<>>]
    /\ last_sfence = [t \in Thread |-> 0]
    /\ cl_to_last_wr_clf = [t \in Thread |-> [l \in Line |-> 0]]
    /\ obj_to_wr = [w \in Word |-> <<>>]
    /\ cl_begin = [p \in Proc |-> [l \in Line |-> 0]]
    /\ cl_end = [p \in Proc |-> [l \in Line |-> 0]]
    /\ next_sequence_num = 0
    /\ raw = [w \in Word |-> InitVal]
    /\ crashes = [p \in Proc |-> NotCrashed]
    /\ completed_procs = {}
    /\ backtrack = [p \in Proc |-> TRUE]
    /\ state = [t \in Thread |-> "RUNNING"]
    /\ active_thread = 0
    /\ pending = [t \in Thread |-> NoAct]
    /\ phase = "run"
    /\ tgt = 0
    /\ todo = 0
    /\ fence = FALSE
    /\ rf = NoRf
    /\ itr = 0
    /\ ops = [t \in Thread |-> 0]
    /\ seenMax = [p \in Proc |-> [l \in Line |-> 0]]
    /\ missedMin = [p \in Proc |-> [l \in Line |-> 0]]
    /\ promised = [t \in Thread |-> [l \in Line |-> 0]]

User ==
    \/ Call \/ CrashedCall \/ CallThreadFinish \/ CallShutdown \/ InsertCrash
    \/ NoBacktrack(TRUE) \/ NoBacktrack(FALSE)

Inside == Exec \/ Drain \/ Read \/ ProcessStoreBuffer \/ Return \/ RmwSecond

Next == User \/ Inside \/ Finished

Spec == Init /\ [][Next]_vars

\* The token's holder is inside Model::action (or between the two halves of a
\* read-modify-write), where nothing waits: the process keeps executing.
Busy == phase # "done" /\ ~ReadFails /\ ~InUserCode

FairSpec == Spec /\ WF_vars(Busy /\ Next)

----------------------------------------------------------------------------
(***************************************************************************)
(* Properties                                                              *)
(***************************************************************************)

\* begin has been raised past end (only evict_clflush can do that, model.cc:104).
Inverted(p, l) == cl_end[p][l] # 0 /\ cl_end[p][l] <= cl_begin[p][l]

\* What other processes learn about one process's stores to one cache line fits a
\* single write-back of that line: a store that build_read_from let somebody see
\* is older than every store it decided "not persisted", whatever words of the
\* line, readers and order of reads were involved.  Lines flushed after their
\* writer's crash are the exception (see LostStaysLost).
CutConsistent ==
    \A p \in Proc, l \in Line :
        ~Inverted(p, l) /\ missedMin[p][l] # 0 => seenMax[p][l] < missedMin[p][l]

\* The unconditional form of the second half: a store decided "not persisted"
\* (model.cc:240) is never "must have persisted" (model.cc:227) later on.
LostStaysLost ==
    \A p \in Proc, l \in Line :
        missedMin[p][l] # 0 => cl_begin[p][l] < missedMin[p][l]

\* Once none of thread t's clflushopts of a line waits for a fence any more,
\* every process's begin covers the stores t had made to the line when it flushed
\* it: no later crash can lose them (evict_clflush, pop_from_store_buffer).
FlushDurable ==
    \A t \in Thread, l \in Line :
        (\A i \in DOMAIN flushBuffer[t] : LineOf[flushBuffer[t][i].loc] # l)
            => \A p \in Proc : promised[t][l] <= cl_begin[p][l]

\* A finished load, before the next eviction: rf is the read's result.
Loaded == phase = "post" /\ Cur.type \in Loads \cup {"ATOMIC_RMWR"}

IndexOf(s) == {i \in DOMAIN obj_to_wr[s.loc] : obj_to_wr[s.loc][i] = s}

Lost(s) ==
    LET p == ProcOf[s.tid] l == LineOf[s.loc]
    IN /\ Crashed(p)
       /\ cl_begin[p][l] < s.seq
       /\ cl_end[p][l] # 0
       /\ cl_end[p][l] <= s.seq

\* The bytes of the read that its thread's store buffer does not supply.
FromMemory == {b \in Cur.fp : LocalBypassing(active_thread, Cur)[b] = NoAct}

\* Each of them comes from the newest store to that byte which is not lost with a
\* crashed process, up to stores of the same value (EQUIV_STORE_SKIP).
NewestSurvivor ==
    \A b \in FromMemory : \A i \in IndexOf(rf[b]) :
        \A j \in i + 1 .. Len(obj_to_wr[Cur.loc]) :
            LET s == obj_to_wr[Cur.loc][j]
            IN b \in s.fp => Lost(s) \/ s.val = rf[b].val

\* What build_read_from returns from memory is the newest surviving store, byte
\* by byte.
ReadsNewestSurvivor == Loaded => NewestSurvivor

\* A load returns the thread's own newest store to a byte if that store is still
\* in its store buffer (local_bypassing): reads never step back behind the
\* thread's own writes.
ReadsOwnWrites ==
    Loaded =>
        \A b \in Cur.fp : \A i \in DOMAIN storeBuffer[active_thread] :
            LET s == storeBuffer[active_thread][i]
                newer == {j \in DOMAIN storeBuffer[active_thread] :
                            /\ j > i
                            /\ storeBuffer[active_thread][j].type \in Stores
                            /\ storeBuffer[active_thread][j].loc = Cur.loc
                            /\ b \in storeBuffer[active_thread][j].fp}
            IN s.type \in Stores /\ s.loc = Cur.loc /\ b \in s.fp /\ newer = {}
                => rf[b] = s

\* The oldest store of word w is the identifier that pthread_create buffered: it
\* left the buffer before anybody else accessed the word.
FirstIsId(w) ==
    /\ obj_to_wr[w] # <<>>
    /\ obj_to_wr[w][1].type = "NONATOMIC_STORE" /\ obj_to_wr[w][1].fp = IdFootprint

\* build_read_from finds a source for every byte, but for words whose first
\* store is pthread_create's: PTHREAD_CREATE does not record what the word held
\* (model.cc:36, executor.cc:48).
ReadFindsStore == ReadFails => FirstIsId(Cur.loc)

\* The unconditional form: the assert(false) that ends build_read_from
\* (model.cc:273) is not reached.
NoReadFails == ~ReadFails

\* The three places that crash a process together respect
\* MAX_CRASHES_PER_EXECUTION, and somebody always survives to read.
CrashLimit == CrashCount <= MaxCrashes /\ CrashCount < NProcs

\* The persistence constraints only get tighter: begin never moves back, an end
\* once set never moves up, and no crash is undone.  What one read has decided
\* about a line binds every later read.
Tightens ==
    \A p \in Proc :
        /\ Crashed(p) => crashes'[p] # NotCrashed
        /\ \A l \in Line :
             /\ cl_begin[p][l] <= cl_begin'[p][l]
             /\ cl_end[p][l] # 0 => cl_end'[p][l] # 0 /\ cl_end'[p][l] <= cl_end[p][l]

ConstraintsTighten == [][Tightens]_vars

\* A process that shut down normally is not crashed afterwards: its drained
\* stores stay.
CompletedStays ==
    [][\A p \in completed_procs : ~Crashed(p) => crashes'[p] = NotCrashed]_vars

\* model.h:31 says crashes holds the last clock before the crash: no store of a
\* crashed process carries a later one.
NoStoreAfterCrash ==
    \A w \in Word : \A i \in DOMAIN obj_to_wr[w] :
        LET s == obj_to_wr[w][i] p == ProcOf[s.tid]
        IN Crashed(p) /\ s.type # "ATOMIC_INIT" => s.seq < crashes[p]

\* Between the halves of a read-modify-write (action.h:31, "Read part of an
\* atomic RMW action") the value read stays current.
RmwAtomic ==
    phase = "rmw" => NewestSurvivor

\* Every action a thread executes ends, in the program, with its process or in
\* build_read_from's assert(false): the drain, eviction and read loops all
\* terminate.
CallReturns == Busy ~> ~Busy
============================================================================
