---------------------------- MODULE MCCXLMemory ----------------------------
(***************************************************************************)
(* Instances of CXLMemory for TLC: who the processes are, how memory is    *)
(* laid out, and what each thread's program does.                          *)
(***************************************************************************)
EXTENDS CXLMemory

\* Thread 2, where there is one, is a second thread of process 0.
MCProcOf == [t \in Thread |-> t % NProcs]

OneLine   == [w \in Word |-> "l"]
WholeWord == {Byte}
HalfOrAll == {{0}, {0, 1}}

\* Programs: thread 0 makes the calls c0, at most n0 of them, the others c1, n1.
Roles(c0, c1) == [t \in Thread |-> IF t = 0 THEN c0 ELSE c1]

\* A writer with every kind of plain store, pthread_create's included, and a
\* reader of both words.
CutCalls == Roles({"store", "atomic_store", "atomic_init", "pthread_create"},
                  {"load", "yield"})
CutOps   == Roles(3, 3)

\* A writer that flushes and fences, and a process that reads and stores.
FlushCalls == Roles({"store", "clflush", "clflushopt", "sfence"}, {"load", "mfence", "clflush"})
FlushOps   == Roles(4, 1)

\* Two threads of one process beside another process, mixed access sizes: every
\* kind of call but the stores that are not forwarded.
ThreadCalls == Roles({"store", "load", "atomic_store_sc", "pthread_create", "clflush",
                      "clflushopt", "sfence"},
                     {"volatile_load", "rmw", "mfence"})
ThreadOps   == Roles(2, 1)

\* A writer, and a reader that flushes.
ReflushCalls == Roles({"store", "yield"}, {"load", "clflush"})
ReflushOps   == Roles(4, 2)

\* A writer and a reader.
ShutdownCalls == Roles({"store"}, {"load"})
ShutdownOps   == Roles(3, 2)

\* A read-modify-write beside plain stores.
RmwCalls == Roles({"rmw"}, {"store", "yield"})
RmwOps   == Roles(1, 3)

\* A thread that stores with release order and reads back.
ReleaseCalls == Roles({"atomic_store", "load"}, {"mfence"})
ReleaseOps   == Roles(2, 1)

\* A thread that creates another, its pthread_t in CXL memory, and reads that.
CreateCalls == Roles({"pthread_create", "store", "load"}, {})
CreateOps   == Roles(3, 0)
============================================================================
