---------------------------- MODULE ModelAction ----------------------------
(***************************************************************************)
(* The actions a checked program hands to CXLMC (include/action.h), the    *)
(* API calls that create them (src/user/api.cc, pthread.cc, sleep.cc) and  *)
(* the byte-overlap test between a write and a read                        *)
(* (include/thread_memory.h).                                              *)
(*                                                                         *)
(* A location is an aligned 8-byte word and a footprint the set of bytes   *)
(* of that word the access covers.  Accesses are naturally aligned, so one *)
(* never spans two words.                                                  *)
(***************************************************************************)
EXTENDS Integers, Sequences, FiniteSets

CONSTANTS
    NProcs,       \* number of processes (the -n option)
    NThreads,     \* number of threads; thread p < NProcs is the main thread of process p
    ProcOf,       \* ProcOf[t]: the process of thread t
    Word,         \* aligned words of CXL memory
    Line,         \* cache lines
    LineOf,       \* LineOf[w]: the cache line of word w, getCacheID
    Byte,         \* bytes of a word
    Footprint,    \* the byte sets an access may cover
    IdFootprint,  \* the bytes of a thread_id_t, half of a pthread_t
    Val,          \* values a program stores
    InitVal       \* content of untouched CXL memory

Proc   == 0 .. NProcs - 1
Thread == 0 .. NThreads - 1

ASSUME ProcAssumption ==
    /\ NProcs \in Nat \ {0}
    /\ NThreads \in Nat
    /\ NThreads >= NProcs
    /\ ProcOf \in [Thread -> Proc]
    /\ \A p \in Proc : ProcOf[p] = p

ASSUME AddressAssumption ==
    /\ Word # {}
    /\ LineOf \in [Word -> Line]
    /\ Footprint \subseteq (SUBSET Byte \ {{}})
    /\ IdFootprint \subseteq Byte

Types ==
    {"NONE", "NONATOMIC_LOAD", "NONATOMIC_STORE", "ATOMIC_INIT", "ATOMIC_LOAD",
     "ATOMIC_STORE", "ATOMIC_RMWR", "ATOMIC_RMW", "ATOMIC_CAS_FAILED",
     "CACHE_MFENCE", "CACHE_SFENCE", "CACHE_CLFLUSH", "CACHE_CLFLUSHOPT",
     "THREAD_YIELD", "THREAD_FINISH", "SHUTDOWN", "PTHREAD_CREATE"}

Loads   == {"NONATOMIC_LOAD", "ATOMIC_LOAD"}
Flushes == {"CACHE_CLFLUSH", "CACHE_CLFLUSHOPT"}

\* ModelAction::is_write and the cases of executor.cc that buffer a store.
Stores == {"ATOMIC_INIT", "ATOMIC_STORE", "NONATOMIC_STORE", "ATOMIC_RMW"}

AnyWord == CHOOSE w \in Word : TRUE

Action ==
    [type : Types, tid : Thread, loc : Word, fp : SUBSET Byte,
     val : Val \cup {InitVal}, sc : BOOLEAN, seq : Nat, ee : Nat]

Act(type, t, w, fp, v, sc) ==
    [type |-> type, tid |-> t, loc |-> w, fp |-> fp, val |-> v, sc |-> sc,
     seq |-> 0, ee |-> 0]

NoAct == Act("NONE", 0, AnyWord, {}, InitVal, FALSE)

\* The copy constructor keeps every field except earliest_effect.
CopyAction(a) == [a EXCEPT !.ee = 0]

\* ModelAction::equivalent: same value, size and location.
Equivalent(a, b) == a.val = b.val /\ a.fp = b.fp /\ a.loc = b.loc

(***************************************************************************)
(* The API.  Each call creates one action; "yields" is the second argument *)
(* of Model::action, "sc" whether the memory order is seq_cst.             *)
(***************************************************************************)
CallNames ==
    {"load", "store", "volatile_load", "volatile_store", "atomic_init",
     "atomic_load", "atomic_store", "atomic_store_sc", "rmw",
     "sfence", "mfence", "clflush", "clflushopt", "yield", "pthread_create"}

CallType(name) ==
    CASE name = "load"            -> "NONATOMIC_LOAD"
      [] name = "store"           -> "NONATOMIC_STORE"
      [] name = "volatile_load"   -> "ATOMIC_LOAD"
      [] name = "volatile_store"  -> "ATOMIC_STORE"
      [] name = "atomic_init"     -> "ATOMIC_INIT"
      [] name = "atomic_load"     -> "ATOMIC_LOAD"
      [] name = "atomic_store"    -> "ATOMIC_STORE"
      [] name = "atomic_store_sc" -> "ATOMIC_STORE"
      [] name = "rmw"             -> "ATOMIC_RMWR"
      [] name = "sfence"          -> "CACHE_SFENCE"
      [] name = "mfence"          -> "CACHE_MFENCE"
      [] name = "clflush"         -> "CACHE_CLFLUSH"
      [] name = "clflushopt"      -> "CACHE_CLFLUSHOPT"
      [] name = "yield"           -> "THREAD_YIELD"
      [] name = "pthread_create"  -> "PTHREAD_CREATE"

Yields(name) == name \notin {"load", "store", "volatile_load", "volatile_store"}

Words(type) == IF type \in Stores \cup Loads \cup Flushes \cup {"ATOMIC_RMWR", "PTHREAD_CREATE"}
               THEN Word ELSE {AnyWord}

Footprints(type) == CASE type \in Stores \cup Loads \cup {"ATOMIC_RMWR"} -> Footprint
                      [] type = "PTHREAD_CREATE" -> {IdFootprint}
                      [] OTHER -> {{}}

\* pthread_create's is the identifier of the thread it creates.
Values(type) == IF type \in Stores \cup {"PTHREAD_CREATE"} THEN Val ELSE {InitVal}

\* The actions that call `name' of thread t may create.
Issued(t, name) ==
    LET type == CallType(name)
    IN {Act(type, t, w, fp, v, name = "atomic_store_sc") :
            w \in Words(type), fp \in Footprints(type), v \in Values(type)}

(***************************************************************************)
(* Which byte of a read comes from which write.  rf maps a byte to the     *)
(* store it is read from, NoAct while it is open.                          *)
(***************************************************************************)
NoRf == [b \in Byte |-> NoAct]

Open(rf, read) == {b \in read.fp : rf[b] = NoAct}

\* get_overlaps: the open bytes of read that write covers now come from it.
Fill(rf, write, read) ==
    [b \in Byte |-> IF b \in Open(rf, read) \cap write.fp THEN write ELSE rf[b]]

\* get_overlaps_save_old returns non-null.
Overlaps(rf, write, read) == Open(rf, read) \cap write.fp # {}
============================================================================
