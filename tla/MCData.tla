------------------------------- MODULE MCData -------------------------------
(***************************************************************************)
(* One instance of each of the components under the model: the memory      *)
(* functions, the loads, the containers, and the native threads.  A        *)
(* behaviour exercises one of them and leaves the others as created.       *)
(***************************************************************************)
EXTENDS MemApi, ReadBytes, HashTable, LinkedList, Vector, NativeThread

VARIABLE part    \* the component that moves

DataHash == [k \in {0, 1, 2, 4, 6} |-> 33 * k]   \* k ^ (k << 5) for k < 32

MemIdle ==
    /\ call = [f |-> "bzero", dst |-> 0, src |-> 0, n |-> 0, c |-> 0, way |-> "real"]
    /\ mem = InitialMem(call)
    /\ i = 0 /\ done = TRUE
    /\ piece = [size |-> 0, from |-> 0, to |-> 0]

VecIdle == v = Fresh(0, VECTOR_DEFCAP) /\ vSeq = <<>>

DataInit ==
    /\ HashInit /\ ListInit /\ NativeInit /\ ReadInit
    /\ \/ part = "mem" /\ MemInit /\ VecIdle
       \/ part \in {"read", "hash", "list", "native"} /\ MemIdle /\ VecIdle
       \/ part = "vec" /\ MemIdle /\ VecInit

MemStep ==
    part = "mem" /\ MemNext /\ UNCHANGED <<part, readVars, hashVars, listVars, vecVars, nativeVars>>
ReadStep ==
    part = "read" /\ ReadNext /\ UNCHANGED <<part, memVars, hashVars, listVars, vecVars, nativeVars>>
HashStep ==
    part = "hash" /\ HashNext /\ UNCHANGED <<part, memVars, readVars, listVars, vecVars, nativeVars>>
ListStep ==
    part = "list" /\ ListNext /\ UNCHANGED <<part, memVars, readVars, hashVars, vecVars, nativeVars>>
VecStep ==
    part = "vec" /\ VecNext /\ UNCHANGED <<part, memVars, readVars, hashVars, listVars, nativeVars>>
ThreadStep ==
    part = "native" /\ NativeNext /\ UNCHANGED <<part, memVars, readVars, hashVars, listVars, vecVars>>

DataNext == MemStep \/ ReadStep \/ HashStep \/ ListStep \/ VecStep \/ ThreadStep

dataVars == <<part, memVars, readVars, hashVars, listVars, vecVars, nativeVars>>

DataSpec == DataInit /\ [][DataNext]_dataVars /\ NativeFairness
=============================================================================
