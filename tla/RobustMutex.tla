---------------------------- MODULE RobustMutex ----------------------------
(***************************************************************************)
(* What the mutexes of CXLMC promise: at most one owner, released by that  *)
(* owner, and handed over without a release only when the owner crashed.   *)
(***************************************************************************)
CONSTANTS
    Thread,   \* thread identifiers
    Key,      \* mutexes
    NoThread  \* the owner of a free mutex

VARIABLES
    owner,    \* owner[k]: the thread that holds k, or NoThread
    crashed   \* the threads that crashed

mutexVars == <<owner, crashed>>

Init ==
    /\ owner = [k \in Key |-> NoThread]
    /\ crashed = {}

(* t gets k: it was free, or its owner has crashed.                        *)
Acquire(t, k) ==
    /\ t \notin crashed
    /\ owner[k] = NoThread \/ owner[k] \in crashed
    /\ owner' = [owner EXCEPT ![k] = t]
    /\ UNCHANGED crashed

(* The owner lets k go.                                                    *)
Release(t, k) ==
    /\ owner[k] = t
    /\ t \notin crashed
    /\ owner' = [owner EXCEPT ![k] = NoThread]
    /\ UNCHANGED crashed

(* Some threads crash; what they own stays theirs until somebody asks.     *)
Crash ==
    /\ \E S \in SUBSET Thread : crashed' = crashed \cup S
    /\ UNCHANGED owner

Next ==
    \/ \E t \in Thread, k \in Key : Acquire(t, k) \/ Release(t, k)
    \/ Crash

Spec == Init /\ [][Next]_mutexVars
=============================================================================
