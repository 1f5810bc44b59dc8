---------------------------- MODULE NativeThread ----------------------------
(***************************************************************************)
(* What stands behind the threads of one process of the program: they are *)
(* contexts that run one at a time on the native main thread, each with    *)
(* the thread-local storage of a native helper thread that does nothing    *)
(* but exist.  Making a context waits for its helper to publish the        *)
(* address of its storage; a context that ends lets its helper go.         *)
(*                                                                         *)
(* The native threads really run concurrently; the C library's mutexes,    *)
(* conditions, create and join are external.                               *)
(***************************************************************************)
EXTENDS Integers, FiniteSets

CONSTANT
    MaxContexts     \* bound: contexts made besides the main thread's

ASSUME ContextAssumption == MaxContexts \in Nat

Main    == 0
Context == 0 .. MaxContexts
Created == 1 .. MaxContexts
NoTls   == -1

(* The functions of the C library that real_pthread.cc keeps pointers to,  *)
(* in the order in which real_init_all looks them up.                      *)
Functions == <<"mutex_init", "mutex_lock", "mutex_unlock", "cond_init", "cond_wait",
               "cond_signal", "create", "join", "exit", "sched_yield">>

VARIABLES
    loaded,     \* pointers real_init_all has set so far
    ctx,        \* the context the main native thread executes
    pos,         \* where it is: see Where
    other,      \* the context it is making or cleaning up
    tls,        \* tls[t]: whose storage context t uses
    fs,         \* the storage the fs register points to
    helper,     \* helper[t]: where the helper of t is
    lock_tls,   \* lock_tls[t]: mutex_tls is held
    lock_fin,   \* lock_fin[t]: mutex_finalize is held
    usable,     \* contexts the scheduler may switch to
    released    \* native threads joined: their storage is gone

nativeVars == <<loaded, ctx, pos, other, tls, fs, helper, lock_tls, lock_fin, usable, released>>

(* user: in the program; new, test, wait, woken: in setup_context; join:   *)
(* in cleanup; leave: after its own cleanup, before it gives way; exit:    *)
(* the process ends; lost: after a use of a context that was never made,   *)
(* where behaviour is undefined and nothing more is modelled.              *)
Where == {"load", "user", "new", "test", "wait", "woken", "join", "leave", "exit", "lost"}

(* unmade: getcontext failed, there is neither context nor helper; absent: *)
(* pthread_create failed.                                                  *)
Helper == {"none", "start", "set", "unlock", "signal", "sleep", "awake", "done",
           "unmade", "absent"}

NativeInit ==
    /\ loaded = 0 /\ ctx = Main /\ pos = "load" /\ other = Main
    /\ tls = [t \in Context |-> NoTls]
    /\ fs = Main
    /\ helper = [t \in Context |-> "none"]
    /\ lock_tls = [t \in Context |-> FALSE]
    /\ lock_fin = [t \in Context |-> FALSE]
    /\ usable = {Main}
    /\ released = {}

-----------------------------------------------------------------------------
(* One lookup of real_init_all; without the function the process exits.    *)
RealInitAll ==
    /\ pos = "load"
    /\ \/ /\ loaded' = loaded + 1
          /\ pos' = IF loaded' = Cardinality(DOMAIN Functions) THEN "user" ELSE "load"
       \/ /\ pos' = "exit" /\ UNCHANGED loaded
    /\ UNCHANGED <<ctx, other, tls, fs, helper, lock_tls, lock_fin, usable, released>>

(* getcontext fails and setup_context returns at once; the constructor     *)
(* does not look at the result.                                            *)
SetupContextFails(t) ==
    /\ pos = "user"
    /\ helper[t] = "none"
    /\ helper' = [helper EXCEPT ![t] = "unmade"]
    /\ UNCHANGED <<loaded, ctx, pos, other, tls, fs, lock_tls, lock_fin, usable, released>>

(* setup_context up to pthread_create, whose result is not looked at: the  *)
(* new thread's mutexes and condition are fresh, and mutex_finalize is     *)
(* taken on its behalf.                                                    *)
SetupContext(t) ==
    /\ pos = "user"
    /\ helper[t] = "none"
    /\ lock_fin' = [lock_fin EXCEPT ![t] = TRUE]
    /\ \E s \in {"start", "absent"} : helper' = [helper EXCEPT ![t] = s]
    /\ other' = t
    /\ pos' = "new"
    /\ UNCHANGED <<loaded, ctx, tls, fs, lock_tls, usable, released>>

(* The rest of it: take mutex_tls, wait until there is an address.         *)
TakeTlsLock_MutantWaitsFirst ==
    /\ pos \in {"new", "woken"}
    /\ ~lock_tls[other]
    /\ lock_tls' = [lock_tls EXCEPT ![other] = pos = "woken"]
    /\ pos' = IF pos = "woken" THEN "test" ELSE "wait"
    /\ UNCHANGED <<loaded, ctx, other, tls, fs, helper, lock_fin, usable, released>>

TakeTlsLock ==
    /\ pos \in {"new", "woken"}
    /\ ~lock_tls[other]
    /\ lock_tls' = [lock_tls EXCEPT ![other] = TRUE]
    /\ pos' = "test"
    /\ UNCHANGED <<loaded, ctx, other, tls, fs, helper, lock_fin, usable, released>>

TestTls_MutantNoWait ==
    /\ pos = "test"
    /\ lock_tls' = [lock_tls EXCEPT ![other] = FALSE]
    /\ pos' = "user" /\ usable' = usable \cup {other}
    /\ UNCHANGED <<loaded, ctx, other, tls, fs, helper, lock_fin, released>>

TestTls ==
    /\ pos = "test"
    /\ lock_tls' = [lock_tls EXCEPT ![other] = FALSE]
    /\ IF tls[other] = NoTls
       THEN pos' = "wait" /\ UNCHANGED usable
       ELSE pos' = "user" /\ usable' = usable \cup {other}
    /\ UNCHANGED <<loaded, ctx, other, tls, fs, helper, lock_fin, released>>

(* pthread_cond_wait may also return for no reason.                        *)
SpuriousWakeUp ==
    /\ pos = "wait"
    /\ pos' = "woken"
    /\ UNCHANGED <<loaded, ctx, other, tls, fs, helper, lock_tls, lock_fin, usable, released>>

-----------------------------------------------------------------------------
(* helper_thread: publish the address, then sleep on mutex_finalize.       *)

HelperLock(t) ==
    /\ helper[t] = "start"
    /\ ~lock_tls[t]
    /\ lock_tls' = [lock_tls EXCEPT ![t] = TRUE]
    /\ helper' = [helper EXCEPT ![t] = "set"]
    /\ UNCHANGED <<loaded, ctx, pos, other, tls, fs, lock_fin, usable, released>>

HelperSetTls(t) ==
    /\ helper[t] = "set"
    /\ tls' = [tls EXCEPT ![t] = t]
    /\ helper' = [helper EXCEPT ![t] = "unlock"]
    /\ UNCHANGED <<loaded, ctx, pos, other, fs, lock_tls, lock_fin, usable, released>>

HelperUnlock(t) ==
    /\ helper[t] = "unlock"
    /\ lock_tls' = [lock_tls EXCEPT ![t] = FALSE]
    /\ helper' = [helper EXCEPT ![t] = "signal"]
    /\ UNCHANGED <<loaded, ctx, pos, other, tls, fs, lock_fin, usable, released>>

HelperSignal(t) ==
    /\ helper[t] = "signal"
    /\ pos' = IF pos = "wait" /\ other = t THEN "woken" ELSE pos
    /\ helper' = [helper EXCEPT ![t] = "sleep"]
    /\ UNCHANGED <<loaded, ctx, other, tls, fs, lock_tls, lock_fin, usable, released>>

HelperWakes(t) ==
    /\ helper[t] = "sleep"
    /\ ~lock_fin[t]
    /\ lock_fin' = [lock_fin EXCEPT ![t] = TRUE]
    /\ helper' = [helper EXCEPT ![t] = "awake"]
    /\ UNCHANGED <<loaded, ctx, pos, other, tls, fs, lock_tls, usable, released>>

HelperEnds(t) ==
    /\ helper[t] = "awake"
    /\ lock_fin' = [lock_fin EXCEPT ![t] = FALSE]
    /\ helper' = [helper EXCEPT ![t] = "done"]
    /\ UNCHANGED <<loaded, ctx, pos, other, tls, fs, lock_tls, usable, released>>

-----------------------------------------------------------------------------
(* Thread::swap.  A thread without an address, the main thread the first   *)
(* time, records the storage it runs on.  The scheduler also switches to a *)
(* thread whose context was not made.                                      *)
Unmade == { t \in Created : helper[t] = "unmade" }

Swap(u) ==
    /\ pos \in {"user", "leave"}
    /\ u \in (usable \cup Unmade) \ {ctx}
    /\ tls' = IF tls[ctx] = NoTls THEN [tls EXCEPT ![ctx] = fs] ELSE tls
    /\ fs' = tls'[u]
    /\ ctx' = u
    /\ pos' = IF u \in Unmade THEN "lost" ELSE "user"
    /\ UNCHANGED <<loaded, other, helper, lock_tls, lock_fin, usable, released>>

(* cleanup of a thread that ends, of the others when the process shuts     *)
(* down or crashes: its helper may go.                                     *)
Cleanup(u) ==
    /\ pos \in {"user", "leave"}
    /\ u \in usable \ {Main}
    /\ lock_fin' = [lock_fin EXCEPT ![u] = FALSE]
    /\ usable' = usable \ {u}
    /\ other' = u
    /\ pos' = "join"
    /\ UNCHANGED <<loaded, ctx, tls, fs, helper, lock_tls, released>>

(* cleanup of a thread whose context was not made: its mutex, helper and   *)
(* stack were never set.                                                   *)
CleanupUnmade(u) ==
    /\ pos \in {"user", "leave"}
    /\ u \in Unmade
    /\ pos' = "lost"
    /\ UNCHANGED <<loaded, ctx, other, tls, fs, helper, lock_tls, lock_fin, usable, released>>

(* pthread_join (external): a thread cannot join itself, and "itself" is   *)
(* whose storage fs points to; the error EDEADLK is not looked at.  A      *)
(* thread that cleaned up after itself waits for its turn, which never     *)
(* comes: it gives way, or nobody is left.                                 *)
JoinReturns ==
    /\ pos = "join"
    /\ IF fs = other THEN UNCHANGED released
       ELSE helper[other] = "done" /\ released' = released \cup {other}
    /\ pos' = IF ctx \in usable THEN "user" ELSE "leave"
    /\ UNCHANGED <<loaded, ctx, other, tls, fs, helper, lock_tls, lock_fin, usable>>

NativeStep ==
    \/ RealInitAll
    \/ TakeTlsLock \/ TestTls \/ JoinReturns
    \/ \E t \in Created :
         \/ HelperLock(t) \/ HelperSetTls(t) \/ HelperUnlock(t)
         \/ HelperSignal(t) \/ HelperWakes(t) \/ HelperEnds(t)

NativeNext ==
    \/ NativeStep
    \/ SpuriousWakeUp
    \/ \E t \in Created : 
         SetupContext(t) \/ SetupContextFails(t) \/ Cleanup(t) \/ CleanupUnmade(t)
    \/ \E u \in Context : Swap(u)

(* The operating system runs every native thread that can run; a condition *)
(* is not woken for no reason so often that the helper never gets the lock *)
(* in between.                                                             *)
NativeFairness ==
    /\ WF_nativeVars(TakeTlsLock) /\ WF_nativeVars(TestTls) /\ WF_nativeVars(JoinReturns)
    /\ \A t \in Created :
         /\ SF_nativeVars(HelperLock(t))
         /\ WF_nativeVars(HelperSetTls(t) \/ HelperUnlock(t) \/ HelperSignal(t)
                          \/ HelperWakes(t) \/ HelperEnds(t))

NativeSpec == NativeInit /\ [][NativeNext]_nativeVars /\ NativeFairness

-----------------------------------------------------------------------------
(* Properties.                                                             *)

(* The running context always has storage: setup_context did not return    *)
(* before its helper had published an address, and the native thread the   *)
(* storage belongs to has not been joined, although a thread that ends     *)
(* joins the very helper on whose storage it runs.  The exception is a     *)
(* thread for which getcontext failed, which the scheduler uses like any   *)
(* other.                                                                  *)
StorageValid == pos # "lost" => fs # NoTls /\ fs \notin released

(* setup_context and cleanup return: the helper's signal is not lost when  *)
(* it comes before the wait, and the join ends because mutex_finalize is   *)
(* free by then, unlocked by a thread that does not own it.  Only if       *)
(* pthread_create failed does setup_context wait for ever.                 *)
SetupReturns ==
    pos \in {"new", "test", "wait", "woken", "join"}
       ~> pos \in {"user", "leave", "exit"} \/ helper[other] = "absent"
=============================================================================
