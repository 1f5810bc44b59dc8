# CXLMC in TLA+

CXLMC is a model checker for programs that share CXL memory between machines.
It runs the processes of a program under one scheduler, keeps each thread's
stores in a modelled store buffer, and when a process has crashed it decides at
each read which of the dead process's stores had reached memory. Every such
decision is a node of a search tree, and the program is run again until the tree
is exhausted.

This directory models that machinery: the memory semantics CXLMC simulates, the
threads and locks it schedules, the search, the processes that run it, and the
layers underneath (memory functions, containers, heap, native threads). The
checked program is arbitrary: in the models it is any sequence of API calls, or any
finite decision tree.

## The system

| Component | State | Operations | Where |
|---|---|---|---|
| Actions and API | action type, location, size, value, clock, earliest effect | loads, stores, atomics, fences, flushes, yields | `include/action.h`, `src/user/api.cc`, `src/model/sleep.cc` |
| ThreadMemory | store buffer, flush buffer, `last_sfence`, `cl_to_last_wr_clf` | buffer, forward, pop, drain | `src/model/thread_memory.cc`, `include/thread_memory.h` |
| Model | store lists `obj_to_wr`, clock, crashes, completed processes | `action`, `process_store_buffer`, `evict_*`, `build_read_from`, `insert_crash` | `src/model/model.cc`, `executor.cc` |
| CacheLineStore | a range (begin, end) per process and line | raise begin, set end | `include/cacheline.h` |
| Scheduler, threads | thread states, the token `active_thread` | `yield`, `last_yield`, `process_shutdown`, `process_crash` | `src/model/scheduler.cc`, `threads.cc` |
| Mutexes, conditions | owner, lock count, owned mutexes | lock, unlock, wait, notify | `src/model/mutex.cc`, `condition_variable.cc`, `pthread.cc` |
| NodeStack | nodes, last and current backtrack, head | `explore_next`, `reset_execution`, `save_state`, `set_state` | `src/model/nodestack.cc` |
| Execution loop | execution number, `rollback_again` | fork, snapshot, `finish_execution`, wait for the next execution | `src/init.cc`, `src/model/snapshot.cc`, `src/user/user.cc` |
| Memory functions | none | `memcpy`, `memmove`, `memset`, `bzero`, `strcpy` in aligned pieces | `src/user/memapi.cc` |
| Native threads | context, thread-local storage and helper per thread | `setup_context`, `swap`, `cleanup`, `real_init_all` | `src/model/threads.cc`, `real_pthread.cc` |
| Containers | hash table, list, vector | insert, remove, resize, copy | `include/hash_table.h`, `list.h`, `vector.h` |
| Allocators | segment, bins, trees, `dv`, `top`, parameters | malloc, free, realloc, memalign, bulk and independent calls, trim, options | `src/allocators/malloc.c`, `include/allocators.h` |

How they interact. A program calls the API; the call creates a `ModelAction` and
hands it to `Model::action`. That tests whether the process has crashed, usually
passes the token on (`Scheduler::yield`) and, when the token is back, executes
the action: stores, flushes and sfences go to the thread's store buffer; fences,
seq_cst stores and read-modify-writes drain it; loads walk the word's list of
evicted stores from the newest. Then `process_store_buffer` pops a random number
of entries from a random thread. Popping a store gives it a clock; popping a
flush raises `begin` of the line for all processes and may crash the writer. A
load that meets a store of a running process may crash that process, and one that
meets a store of a crashed process compares it with the line's range: at or
before `begin` it persisted, at or after `end` it is lost, between them a decision
point chooses and narrows the range. All state is in shared memory, and only the
token's holder touches it. A thread that finds a mutex owned, or waits for a thread
or a condition, blocks and passes the token on; a crash marks the threads of the
process and wakes those that wait for its mutexes, which test the owner again. The
last process to leave resets the shared state, moves the search on and raises
`execution_num`, on which the root process spins before it forks the next
execution.

What is hard here: decisions of several reads about one line must fit together;
crashes hit between any two steps of a process, also inside a drain; the token
moves between the crash test and the action it guards; evictions happen on behalf
of other threads; a waiter is woken long before it runs again, and what it waited
for may be gone by then; the processes of an execution, the one that reaps them and
the root really run in parallel; the search must neither repeat nor skip an execution, across a
save and a restart too. `PROJECT.json` lists these hazards at their lines.

What makes each component correct:

* memory: reads return the newest store that survives; what is decided about a
  line is consistent over all words and readers; flushed and fenced stores are
  durable; a thread sees its own stores; a read always finds a store;
* crashes: their number is limited, somebody survives, a finished process is not
  crashed;
* search: each execution is explored once, all are explored, the search ends;
* scheduler and locks: one owner per mutex, no lost wake-up, the token is always with
  a thread that can run, nothing is reset before all have left;
* execution loop: each execution is run once, on reset data, and CXLMC ends;
* memory functions and loads: pieces and overlaps put together are the libc function
  and the newest surviving store, byte by byte;
* containers: they hold what a map or a sequence would;
* heap: blocks never overlap or change, nothing leaks, a request fails only when
  nothing fits; native threads: the storage of the running context is alive.

## Modules

`ModelAction` defines actions, the API calls that create them and the byte overlap
of `get_overlaps`. A location is an aligned 8-byte word, a footprint the set of its
bytes an access covers; accesses are naturally aligned, so none spans two words.

`CXLMemory` is one execution: the state of `Model`, `ThreadMemory`,
`CacheLineStore` and the part of `Scheduler` that passes the token. Actions
correspond to code as follows (the full table is `map` in `PROJECT.json`):

| Action | Code |
|---|---|
| `Call`, `CrashedCall` | `Model::action` up to the yield; the crash test that ends the process |
| `CallThreadFinish`, `CallShutdown` | `thread_start` after the function returned, `user_done` |
| `InsertCrash`, `NoBacktrack` | `Model::insert_crash` by the program, `cxlmc_no_backtrack_begin/end` |
| `Exec...` | the memory cases of `execute`, the store of `PTHREAD_CREATE` included |
| `PopStore`, `PopClflush`, `PopClflushopt`, `PopSfence`, `SfenceDone` | `pop_from_store_buffer` |
| `FlushOne` | one round of `empty_flush_buffer` |
| `DrainDone`, `DrainThenRead`, `ShutdownNext`, `ShutdownDone` | what follows a drain |
| `ReadRunning`, `ReadCrash`, `ReadMust`, `ReadSkip`, `ReadLost`, `ReadPersisted` | one store in the loop of `build_read_from` |
| `ProcessStoreBuffer`, `Return`, `RmwSecond` | the end of `Model::action`, the second half of a read-modify-write |

The holder of the token runs alone, so cutting its work into steps (`phase`) adds
no interleavings; it keeps each loop of the code visible. `decision_point` and
`random` are nondeterministic choices. `seenMax`, `missedMin` and `promised` are
history variables that only properties read. A value is opaque: what a
read-modify-write computes is any value, and a comparison may succeed or fail.

`NodeStack` is the search: `explore_next` (`CreateNode`, `Replay`, `Backtrack`), the
end of an execution (`NextExecution`, `LastExecution`), and a restart from the
saved file at any time (`Restart`), with the widths the file format has and the
tail a shorter file leaves behind in a longer one. Positions count from 1; 0 is a
NULL pointer. A program is a tree given as a function from paths to numbers of
choices.

`Scheduler` is the other side of an execution: threads that are created, joined and
end (also by `pthread_exit` and `exit`), mutexes of three kinds, condition variables,
the tables behind `pthread.cc`, crashes and the end of processes. A step is what the
holder of the token does between two points where it may lose it. Calls up to the
yield are `Call...`, the cases of `execute` are `Exec...`; a thread that blocked goes
on in `JoinWoken`, `LockWoken`, `CondWoken`, exactly where `thread_wait` returns.
Memory accesses have no contents here: atomic ones pass the token on, plain and
volatile ones keep it (`CallAccess`); that an eviction may crash a process
(`CrashOther`, `CrashSelf`, `ShutdownCrash`) is a choice. Ways to end that are not
regular (abort, a failing assertion, `DEADLOCK`) are outcomes. A process whose main
thread called `pthread_exit` lingers in `Scheduler::wait` (`Lingers`); the reset by the
last process wakes it if it is process 0 (`ResetWakes`). `holding` is history:
what each thread was told it has. `RobustMutex` is the abstract specification: an
owner per mutex that changes only by acquiring a free or orphaned mutex or by the
owner's release. `Scheduler` implements it under the mapping of `owner` to itself and
of the threads in state `CRASHED` to the crashed ones.

`ExecutionLoop` has the processes of the operating system: the root (`main`,
`take_snapshot`, `wait_for_next_execution`), the process of one execution that forks
and reaps, and its children. All three kinds interleave freely. Set-up steps and forks
may fail, the execution process may be killed at any time, a child while it holds the
token (one that waits only spins), and a child may leave without passing the token, or
pass it and linger (`FinishLingers`). A process that could not be forked never takes
the token, and the `-1` kept for it makes a later `kill` hit everybody
(`ReapSignalledKillsAll`). The search inside is a number of remaining executions; the token is a process.

`MemApi` chooses the implementation a call gets (`Dispatch`) and runs it in the pieces
of `memapi.cc`, on a memory of bytes that know where they came from. `ReadBytes`
builds a list of stores of 1, 2, 4 or 8 bytes at any byte of a word and one load, and
follows `build_read_from`, `get_overlaps` and `get_read_value` byte by byte.
`HashTable`, `LinkedList` and `Vector` have one action per operation next to the map
or sequence it should be; `HashTable` remembers for which keys an iterator with an
unlinked `_prev` exists. `NativeThread` is what stands behind a thread: a context on
the main native thread with the thread-local storage of a helper thread, which it gets
and gives back through two mutexes and a condition; `getcontext` and `pthread_create`
may fail. `Mspace` is the heap in the configuration `src/allocators/CMakeLists.txt`
builds (`ONLY_MSPACES`, `HAVE_MMAP=0`, no locks), in words of 8 bytes, with boundary
tags, bins and bitwise trees as the code has them; `MallocParams` holds its parameters
and options. An operator of `Mspace` maps one state of the heap to the next, and an
action is one call of the interface.

`MC...` modules define the constants of the runs; `MCMemory` lets an execution be that
of one of two programs; `MCData` composes the data modules, one moving at a time.
`CXLMemoryProofs` and `ReadProofs` (one execution's memory), `NodeStackProofs`, `SchedulerProofs`, `ExecutionLoopProofs`,
`DataProofs` (memory functions, loads, native threads) and `ContainerProofs` (hash
table, vector, list) hold the theorems, `LeastNatural` the facts about sets of
naturals they use: a least element, a greatest one, induction up to a bound. Definitions named
`..._Mutant...` are wrong variants of the definition that follows them; no
specification uses them. They show that each property can fail.

## Runs

| Run | Result | Shows |
|---|---|---|
| `memory` | pass | one line of two words and one of two programs. A writer with three kinds of stores and `pthread_create`, and a reader: the reads fit one write-back (`CutConsistent`), return the newest survivor (`ReadsNewestSurvivor`), always find a store unless the word's first one is `pthread_create`'s (`ReadFindsStore`), and ranges only tighten (`ConstraintsTighten`). Stores, clflush, clflushopt, sfence in every order: `FlushDurable`; finished processes stay finished (`CompletedStays`). All hold in both |
| `threads` | pass | two threads of one process, accesses of one and two bytes, read-modify-writes, flushes, fences, `pthread_create`, user crashes: `ReadsOwnWrites` by byte, `CrashLimit`, and `CallReturns` |
| `nodestack` | pass | all small trees, saves, two restarts: `LastBacktrackDeepest`, `ReplayMatches`, `NoLeafTwice`, `SearchComplete`, `SearchEnds` |
| `scheduler` | pass | five programs on two processes and a worker, spinning with and without yields, crashes anywhere: `MutualExclusion`, `SetOwnerAsserts` (`owner` and `owned_mutexes` agree), `NoLostWakeUp`, `JoinSound`, `TokenAlive`, `ResetAfterAll`, `RunningGetsToken`, and the refinement `MutexRefinement` |
| `loop` | pass | three kinds of processes, failing, killed, stuck and lingering ones, failing forks: `FreshStart`, `EachExecutionOnce`, `StopsWhenExhausted`, `NoOrphans`, `LoopEnds` |
| `data` | pass | `PiecesAddUp` (memory functions), `LoadBytesRight` (loads), `HashIsMap`, `ListIsSequence`, `VectorIsSequence` (containers), `StorageValid` and `SetupReturns` (native threads) |
| `heap` | pass | every call in every order on a small segment: `HeapChecks` (the checks of a DEBUG build), `BlocksIntact`, `NothingLeaks`, `BestFit` |
| `reflush` | violation | a store found lost is found persisted after a flush (`LostStaysLost`) |
| `shutdown` | violation | a crashed process still evicts stores (`NoStoreAfterCrash`) |
| `rmw` | violation | another thread's store gets between the halves of a read-modify-write (`RmwAtomic`) |
| `release` | violation | an atomic store still in the buffer is not read by its own thread (`ReadsOwnWrites`) |
| `create` | violation | a load finds no source for its bytes (`NoReadFails`) |

The violations are disagreements between the code and its comments or assertions;
`findings` in `PROJECT.json` quotes both. In brief:

* `reflush`: `evict_clflush` raises `begin` of crashed processes too and ignores
  `end`. P0 stores x twice and is crashed by P1's read, which decides the newer
  store is lost; P1 flushes the line, which puts `begin` past both stores, and
  from then on any read must take the newer one.
* `shutdown`: the crash test precedes the yield. P0 waits in a yield (in
  `process_shutdown`, say) while P1's read crashes it; with the token back it
  drains its buffers as if nothing had happened.
* `rmw`: `process_store_buffer` at the end of the read half pops another thread's
  store to the same word.
* `release`: `local_bypassing` forwards `NONATOMIC_STORE` entries only. The
  `threads` run has only plain and seq_cst stores, for which forwarding is right.
* `create`: `PTHREAD_CREATE` buffers a store of the new identifier but, unlike loads
  and stores, does not record what the word held. A `pthread_t` in CXL memory that
  nobody accessed before gets a list of this one store; a load of the whole word runs
  off the list into `assert(false)`.

Bounds. `MaxOps` limits the calls per thread, nothing else is cut: clocks, buffers
and lists are bounded by it. Three stores to two words are enough for a line whose
words disagree; four calls of the writer that flushes are enough for a store, a
flush, a second store and a fence in any order. `EvictMax = 100` as in `config.h`.
`MaxCrashes` is 1 as in `config.h`, and 2 in `threads`, where the survivor clause
is then what binds. Two processes suffice for one writer and one reader; what needs
three (a second crash) is covered by the proofs, which fix no number of processes
or crashes, with the one exception `NewestSurvives` names. In `nodestack`
the trees have at most three binary decisions on a path, or two with up to three
choices, and at most nine executions, so `MaxExecution = 8` also meets a search
that is cut off; a save may happen before the second, third or fifth execution.

`scheduler`: two processes and one more thread let an owner crash while one waiter is
in its process and one in the other. Five programs bound the calls per thread
(`max`); yields, sleeps and accesses are not bounded, so threads may spin for ever. One mutex
and the condition are in CXL memory, one mutex of each other kind is private.
`loop`: three processes, so that `progc` can be less, equal or too large; up to four
executions with a limit of four, from a new search, one resumed close to the limit,
and the -1 of a file that could not be read. `data`: buffers of 26 bytes hold every
alignment of the longest call, 10 bytes, which takes all widths of pieces; two stores
and a load of any size and position; a table of two buckets that grows twice; lists
of four nodes; vectors of up to four elements, made with any size from 0 on; two
contexts. `heap`: the structure is scaled down (chunks of 2 words, 4 small bins,
4 trees) so that segments of 9, 16 and 41 words reach each path of the code: the
smallest with all parameters, the middle one with all calls, and the largest with
blocks of four sizes that meet in the trees.

Fairness. `CallReturns` assumes that the token's holder, once inside
`Model::action`, keeps executing: it never waits there. No fairness is assumed of
programs. `SearchEnds` assumes that executions follow one another
(`finish_execution`); restarts are not fair, and bounded by `MaxRestarts`.
`RunningGetsToken` assumes that the holder of the token goes on: the others wait for
it, and the calls it makes do not wait for anything else. It does not assume that the
holder yields: its formula excepts a holder that from some time on makes only plain or
volatile accesses (`KeptFrom`). `LoopEnds` assumes that the
operating system runs each process that can run, and strongly that a process which
gets the token again and again leaves some time: CXLMC checks programs that end.
Nothing is assumed of failures; the property excepts what really hangs, a process that
kept the token or could not be forked (`"stuck"`), and a lingering process other than 0
that `waitpid` waits for (`HeldUp`). `SetupReturns` assumes that native threads run, and
strongly that a helper gets `mutex_tls`, which the creator gives back whenever it
waits: only endless spurious wake-ups could keep the helper from it.

Deadlock is checked in the runs of `CXLMemory` (a finished execution stutters in
phase `done`) and in `heap`. The search, an execution, CXLMC itself and the calls in
`data` really stop, so their runs do not check it.

## Proofs

For every number of processes, threads, words and lines, every layout, every
program and every setting of the configuration constants (`ProcAssumption`,
`AddressAssumption`, `BoundAssumption`):

* `CXLMemoryProofs!TypeCorrect`: `TypeOK`. The invariant `TypeInv` adds that
  `build_read_from`'s iterator is inside the list it walks, since otherwise
  looking at a store could leave the type.
* `CXLMemoryProofs!CutConsistency`: `CutConsistent`. The property compares two
  histories; `CutInv` ties each to the ranges: what was seen is at or before
  `begin`, what was found lost is at or after a set `end`. Each read and flush
  keeps both; where `begin < end` the property follows.
* `CXLMemoryProofs!Tightening`: `ConstraintsTighten`, by cases over the steps that
  write ranges or crashes.
* `CXLMemoryProofs!FlushDurability`: `FlushDurable`. `FlushInv` says that buffered
  actions belong to their thread (`Owned`), that `cl_to_last_wr_clf` covers every
  store of the thread to the line (`StoresCovered`), and that each promise is
  covered by all `begin`s or by a waiting flush (`PromisesKept`). The first gives
  the second, the second the clock a clflushopt carries, the third the property.

* `CXLMemoryProofs!CrashesBounded`: `CrashLimit`. Each of the three places that
  crash a process tests the count first; the proof is that a step crashes at most one
  process besides those already crashed, so the count grows by at most one.
* `CXLMemoryProofs!ShutDownForGood`: `CompletedStays`. The code tests for completed
  processes where a read or a flush crashes the writer of a store, but not in
  `insert_crash` called by the program. There the invariant `Lively` is needed:
  the token's holder is running or is inside `process_shutdown`, and no thread of a
  completed process runs, so nobody is left to make the call.
* `ReadProofs!AlwaysFindsStore`: `ReadFindsStore`. `ListInv`: a list that has begun
  starts with an `ATOMIC_INIT` store that covers the word or with `pthread_create`'s
  store of an identifier (`FirstIsId`), its other stores have rising clocks (`ListOK`),
  and whoever is going to walk a list, or to append to it, has begun it, but for that
  store (`Recorded`). A list of the first kind cannot be run off; the run `create`
  shows that one of the second kind can.
* `ReadProofs!OwnWritesRead`: `ReadsOwnWrites`, for programs without volatile,
  relaxed or initializing atomic stores (`PlainStores`; the run `release` shows that
  with them it is false). `PlainBuffers`: the only atomic stores are seq_cst ones,
  which are out of the buffer again when their thread goes on. `OwnKept`: the walk
  leaves alone what `local_bypassing` found.
* `ReadProofs!NewestSurvives`: `ReadsNewestSurvivor`, for at most one crash per
  execution, which is what `config.h:12` sets. The walk keeps two accounts. `Passed`:
  a store that was passed and covers an open byte is lost, or its writer has crashed
  and the store looked at next is equivalent to it. `Traced`: a byte that was found
  belongs to a store of the list, and the newer ones are lost or have its value.
  With one crash, two equivalent stores that are skipped one after the other have
  the same writer and the same range, so when the older one is lost the newer is lost
  with it. See below for what happens with a second crash.

The proof of `NewestSurvives` corrected the property: it used to speak of every byte
of a load, and a byte forwarded from the thread's own buffer, whose entry has no
clock yet, can be equal as a record to the first evicted store. It now speaks of the
bytes that come from memory (`FromMemory`); `ReadsOwnWrites` has the others.

For every set of finitely branching programs that fit the file format
(`ProgramsAssumption`, `LimitAssumption`), every number of restarts and every
`MAX_EXECUTION`, `NodeStackProofs` proves `TypeOK`, `LastBacktrackDeepest`,
`ReplayMatches`, `NoLeafTwice` and `SearchComplete`. The inductive invariant `IInv`
adds that the stack up to the node to backtrack to describes the program
(`StackOK`), that so does the file (`FileOK`), and, the heart of it, that the set
of explored executions is exactly the set of those that leave the current stack
towards a smaller choice (`VisitedOK`), for the file likewise. When an execution
ends with no choice left, all executions do.

For every number of processes, threads, mutexes and conditions and every set of
programs (`SizeAssumption`, `ProgramAssumption`, `ProgramsAssumption`,
`NoKeyAssumption`), `SchedulerProofs` proves `TypeOK`, `MutualExclusion`,
`SetOwnerAsserts`, `NoLostWakeUp`, `JoinSound`, `TokenAlive`, `ResetAfterAll` and the
refinement `MutexRefinement`. The some forty actions do only a dozen things to the
variables the invariants relate: the holder of the token passes it on, runs on,
takes or releases a mutex, goes to sleep, waits for a thread, creates one, ends, its
process leaves, regularly or not, or the execution aborts. `StepKind` sorts every
action under one of these kinds, and each part of the invariant is shown for the
kinds. None of the properties is inductive by itself. `IInv` adds that threads not
yet created do and own nothing (`Born`), that the pending action of a blocked thread
names what it is blocked on (`Named`), that the holder of the token runs
(`TokenRuns`), that whoever will never run again is marked so (`Left`), and that
`owner`, `owned_mutexes` and what threads were told agree, except for what was taken
over from a crashed thread (`Agree`): mutual exclusion, the assertions of `set_owner`
and the refinement follow from `Agree`, wake-ups from `Named` and `Agree` together.
The abstract specification has no fairness, so the refinement is one of safety.
`ResetAfterAll` speaks of threads and processes: when the data is reset, no thread is
left that is neither completed nor crashed, and no process is left but those that
linger in `wait()`. Both follow from `Left` and from the test for the last process.

For every number of processes, every `-f` count, every length of the search and every
limit (`LoopAssumption`), `ExecutionLoopProofs` proves `FreshStart`,
`EachExecutionOnce`, `StopsWhenExhausted` and `NoOrphans`. The shared memory is in one
of two conditions, reset for the next execution (`Reset`: nobody is busy, some may
linger) or in use by the current one (`InUse`); `LoopInv` says which of them the root
may rely on at each place (`RootKnows`), what the execution process knows of its
children (`ExecKnows`), and that giving up leaves nobody behind (`Abandoned`). The
failures may happen at any time; the number of starts is at most one ahead of the
moves of the search.

`DataProofs` proves three properties of the run `data`, each for the specification
of its component, which a behaviour of `MCData` follows while the others stand still:

* `StorageStaysValid`: `StorageValid`, for any number of contexts, until one for which
  `getcontext` failed is switched to (`"lost"`). `NativeInv`: an
  address is published exactly when the helper is past `HelperSetTls`
  (`Published`), contexts that can be switched to have one and have not been joined
  (`Handed`), and the fs register is always the running context's
  (`OnOwnStorage`), which is why the join of one's own helper does nothing.
* `LoadsBytesRight`: `LoadBytesRight`, for any word size and any list of stores.
  `Loading`: `numslotsleft` is the number of open bytes, no surviving store looked at
  reaches an open byte, and any other byte belongs to the newest that does. A store
  reaches the bytes it covers and those it over-reaches; aligned accesses nest or are
  disjoint.
* `PiecesDoAddUp`: `PiecesAddUp`, for any memory, length and alignment. One invariant
  per outcome: memory is right so far (`SoFarRight`), the first byte of an overlapping
  `memmove` has been repeated (`SoFarRepeated`), an aligned word of a `memset` has its
  upper half all ones (`SoFarOnes`), the terminator is missing (`Unended`). The three
  wrong ones show that the exceptions are exact.

`ContainerProofs` proves the containers of `src/include` for every set of keys, values
and items, every hash function, initial size and finite set of nodes
(`HashAssumption`, `VectorAssumption`, `ListAssumption`), each for the specification of
its component:

* `HashHoldsMap`: `HashIsMap`. `HashInv`: a chain holds only nodes whose hash leads to
  it, no key has two nodes in the chains (`ChainsOf`), `size` counts the nodes
  (`Ordered`), and the nodes are the pairs of the map. The hard step is the doubling,
  a fold over all nodes: node by node the new chains hold what the old ones have
  given up. Keys erased through an iterator whose `_prev` had been erased (`hGhost`)
  are the exception, and the property says what becomes of them: they stay linked and
  are not counted.
* `VectorHoldsSequence`: `VectorIsSequence`. `VecInv`: the array has room for `size`
  elements and agrees with the sequence wherever that is defined (`Holds`); nothing has
  been written beyond the capacity, except by the first `push_back` to a vector without
  one (`wild`).
* `ListHoldsSequence`: `ListIsSequence`. `ListInv`: there is a sequence of distinct
  nodes that `next` runs through from `head` and `prev` from `tail`, and no others
  are allocated (`Linked`). Whatever a call's code does to the pointers, it puts one node
  in between two neighbours (`LinkIn`), takes one out (`LinkOut`) or starts from the
  empty list; a walk over linked nodes returns them (`WalkIs`), forward and backward.

These operations fold over sequences or walk along pointers, and the library's
induction theorems cannot be used (they take an operator as a parameter). The proofs do
without: a fold is a `CHOOSE` of a function that satisfies its recursion, such a
function is shown to exist (`FoldExists`), and what holds of all its values is shown by
looking at the least argument where it would not (`LeastNatural`).

Only model-checked: the liveness properties `CallReturns`, `SearchEnds`,
`RunningGetsToken`, `LoopEnds` and `SetupReturns` (fairness is out of the prover's
reach), and, of the vendored dlmalloc, the heap's `HeapChecks`, `BlocksIntact`,
`NothingLeaks` and `BestFit`. None of these four holds by itself: whether a chunk may be
handed out depends on the tags, the bins, the trees, `dv` and `top` agreeing, so their
invariant is `HeapChecks` as a whole, over every split, merge, aligned and bulk call. Its
trees are indexed by powers of two and bits of a size, where the SMT backend proves
neither `2^(k+1) = 2 * 2^k` nor `2^k > 0`. The reverse for `Scheduler!TypeOK`: only the
proof has it, the run spends its time on the other invariants.

## What the code does that a caller may not expect

The models have these as the code has them, and the properties state them as the
exact limits of what holds:

* `memmove` on CXL memory copies upwards even if the destination overlaps the source
  from above; `memset` with a byte from 0x80 to 0xfe fills 8-byte pieces with a
  sign-extended pattern; `strcpy` does not copy the terminator (`KnownWrong` in
  `MemApi`: in these cases, and only these, the result is not libc's).
* `get_overlaps` takes offset 0 for a store that starts below the load and claims as
  many bytes of the load as the store has: with accesses that are not naturally
  aligned, a load gets wrong bytes exactly there (`OverReaches` in `ReadBytes`).
* `EQUIV_STORE_SKIP` passes a store of a crashed process when the next older store is
  equivalent, without asking whether that one may have persisted. With
  `MAX_CRASHES_PER_EXECUTION` raised to 2, the older one can be another crashed
  process's and be decided lost, and the read goes on to a still older value although
  nothing says that the passed store is lost. The comment there speaks of "two
  equivalent may-persist stores". `NewestSurvives` states the limit under which the
  shortcut is right.
* After a child died of a signal, `main` kills `progc` children. With fewer `-f`
  options than processes the rest stays behind (`NoOrphans` says `progc = NProc`).
* If a `fork` fails, `main` goes on: the missing process is never there to take the
  token, and when a child dies of a signal `kill(-1, SIGKILL)` ends every process of the
  user, CXLMC included.
* `pthread_cond_timedwait` always ends in the `assert(0)` of `get_mutex`, and a thread
  that ends by `pthread_exit` as the last running one in that of `finalize`. A main
  thread that does so earlier leaves its process lingering in `Scheduler::wait`. When the
  last process resets the scheduler it stores 0 in `active_thread` (`scheduler.cc:144`):
  process 0 takes that for its token, leaves the wait and fails the same assertion
  (`ResetWakes`), which kills the run of CXLMC. Any other process is never woken, and
  `waitpid` (`init.cc:176`) waits for it for ever (`HeldUp`).
* Plain and volatile accesses do not yield (`api.cc:14, 26, 38, 50`): a thread that spins
  on one keeps the token from everybody else.
* Nothing looks at the result of `setup_context` (`threads.cc:117`): a thread for which
  `getcontext` failed is scheduled like any other; after a failed `pthread_create`
  `setup_context` waits for ever.
* `strcpy` looks only at its destination, and not at `inside_model`; it finds the length
  of the source in memory itself, which a source in CXL memory may not have reached.
* `erase` of `hash_table.h` returns an iterator whose `_prev` is the node it unlinked. A
  second `erase` through it, within one chain, changes the unlinked node: the key stays
  in the table and is no longer counted. The repository erases only what `find` returned
  (`mutex.cc:21`, `pthread.cc:127`, `218`). Assigning a table to itself clears it, and
  `HashSet::operator=` (line 327) lacks its `return`, so using its value is undefined;
  nothing in the repository does either.
* `Vector(0)` has capacity 0, twice which is 0: the first `push_back` writes behind an
  array of no elements.
* A crashed process all of whose threads are blocked is never marked, so those that
  wait for its mutexes end in `DEADLOCK`.
* The destroy functions of `pthread.cc` test their table the wrong way round.
* In the heap, the minimal limit `mspace_set_footprint_limit(0)`
  computes is overwritten at once, so there is none,
  `mspace_track_large_chunks` has no effect without mmap, and `locked` none without
  locks.

## Not modelled

* `valgrind.h` (vendored, 7168 of 18333 lines): the macros expand to instruction
  sequences that do nothing outside Valgrind. The two requests `malloc.c` makes are
  in `Mspace` as the set of blocks Valgrind knows.
* Of `malloc.c`, what this build leaves out or can never reach: the `dl...` functions
  (`ONLY_MSPACES`), grants by mmap and MORECORE and what follows them
  (`prepend_alloc`, `add_segment`, mmapped chunks), locks, footers, the emulations
  for other systems, `inspect_all`, the system headers.
* `check_memory_poisoning` (`MEM_POISON` is off), `futex.h` and the waiting code of
  `SYNC_WAIT` (off), `rfentry.h` (unused), printing, the tests and scripts.
* Queries that change nothing, such as `get_live_process_count`.
* Accesses that cross a word: `obj_to_wr` is keyed by word and a lookup takes the
  word of the address only; `ReadBytes` stays inside one word.
* `Scheduler` and `CXLMemory` are two views of one execution that share the token,
  crashes and shutdown; their product is beyond what TLC can enumerate. Second
  threads exist from the start in `CXLMemory`, and memory accesses are opaque in
  `Scheduler`.
* Decisions beyond the file format (65536 nodes, 256 choices).

## Plan

Every invariant of the runs except the heap's is a theorem. What is left:

1. The heap: that the blocks handed out are disjoint and keep their sizes, with the
   powers of two of the trees behind lemmas of their own.
2. A store-buffer memory without crashes as an abstract specification of `CXLMemory`
   under `GPF` with plain stores.
