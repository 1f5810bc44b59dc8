----------------------------- MODULE ReadProofs -----------------------------
(***************************************************************************)
(* What build_read_from returns: it always finds a store, a thread never   *)
(* reads behind its own buffered stores, and what comes from memory is the *)
(* newest store that is not lost with a crashed process.                   *)
(***************************************************************************)
EXTENDS CXLMemoryProofs

\* The stores build_read_from walks over.
List == obj_to_wr[Cur.loc]

\* What local_bypassing finds for the pending read.
Local == LocalBypassing(active_thread, Cur)

\* Inside build_read_from, or between its end and the next eviction.
InLoad == phase = "read" \/ Loaded

\* The value memory held, which covers the word and which no crash can lose.
IsInit(s) == s.type = "ATOMIC_INIT" /\ s.fp = Byte /\ s.seq = 0

\* The identifier that pthread_create buffers, without recording that value.
IsId(s) == s.type = "NONATOMIC_STORE" /\ s.fp = IdFootprint

\* Every list starts with one of them; the evicted stores follow in the order of
\* their clocks.
ListOK(w) ==
    /\ obj_to_wr[w] # <<>> =>
         /\ IsInit(obj_to_wr[w][1]) \/ IsId(obj_to_wr[w][1])
         /\ obj_to_wr[w][1].seq = 0 \/ obj_to_wr[w][1].seq < next_sequence_num
    /\ \A i \in 2 .. Len(obj_to_wr[w]) :
         obj_to_wr[w][1].seq = 0 \/ obj_to_wr[w][1].seq < obj_to_wr[w][i].seq
    /\ \A i \in 1 .. Len(obj_to_wr[w]) :
         /\ obj_to_wr[w][i].loc = w
         /\ obj_to_wr[w][i].type \in Stores
    /\ \A i \in 2 .. Len(obj_to_wr[w]) : obj_to_wr[w][i].seq < next_sequence_num
    /\ \A i, j \in 2 .. Len(obj_to_wr[w]) :
         i < j => obj_to_wr[w][i].seq < obj_to_wr[w][j].seq

\* A buffered store other than pthread_create's has begun the list, and so has a
\* read; the walk has a store left unless pthread_create's is the first.
Recorded ==
    /\ \A t \in Thread : \A i \in 1 .. Len(storeBuffer[t]) :
         storeBuffer[t][i].type \in Stores =>
             obj_to_wr[storeBuffer[t][i].loc] # <<>> \/ IsId(storeBuffer[t][i])
    /\ phase = "drain" /\ Cur.type = "ATOMIC_RMWR" => List # <<>>
    /\ phase = "drain" => Cur.type \notin Loads
    /\ phase = "read" => List # <<>> /\ (itr > 0 \/ IsId(List[1]))

ListInv == (\A w \in Word : ListOK(w)) /\ Recorded

\* A byte local_bypassing has found stays with the store it found.
OwnKept == InLoad => \A b \in Cur.fp : Local[b] # NoAct => rf[b] = Local[b]

\* A store the walk has passed without deciding about it: its writer has crashed
\* and the store looked at next is as good.
Skipped(s) == Crashed(ProcOf[s.tid]) /\ Equivalent(s, List[itr])

\* Every store the walk has passed and that covers a byte still open is lost or
\* has been skipped.
Passed ==
    phase = "read" =>
        \A b \in FromMemory : \A j \in itr + 1 .. Len(List) :
            rf[b] = NoAct /\ b \in List[j].fp => Lost(List[j]) \/ Skipped(List[j])

\* Every byte found comes from a store of the list whose successors are lost or
\* have the same value; a finished read has found all its bytes.
Traced ==
    /\ InLoad => \A b \in FromMemory :
         rf[b] # NoAct =>
             \E k \in 1 .. Len(List) :
                 /\ List[k] = rf[b]
                 /\ \A j \in k + 1 .. Len(List) :
                      b \in List[j].fp => Lost(List[j]) \/ List[j].val = rf[b].val
    /\ Loaded => Open(rf, Cur) = {}

\* The calls that leave an atomic store in the buffer, where local_bypassing does
\* not look for it.
PlainStores ==
    \A t \in Thread : Calls[t] \cap {"volatile_store", "atomic_store", "atomic_init"} = {}

\* With none of these, the atomic stores of a thread are out of its buffer before
\* it goes on.
PlainBuffers ==
    /\ \A t \in Thread : /\ pending[t].type # "ATOMIC_INIT"
                         /\ pending[t].type = "ATOMIC_STORE" => pending[t].sc
    /\ phase = "drain" /\ Cur.type # "SHUTDOWN" => tgt = active_thread
    /\ \A t \in Thread :
         state[t] = "RUNNING" /\ ~(phase = "drain" /\ t = active_thread) =>
             \A i \in 1 .. Len(storeBuffer[t]) :
                 storeBuffer[t][i].type \in Stores =>
                     storeBuffer[t][i].type = "NONATOMIC_STORE"

----------------------------------------------------------------------------
\* How the steps of an execution follow one another around a load.

\* Only the load itself brings an execution into build_read_from and to its end.
LEMMA LoadFrame ==
    ASSUME TypeInv, FenceOK, Recorded, [Next]_vars, InLoad'
    PROVE  ExecLoad \/ DrainThenRead \/ Read \/ UNCHANGED vars
<1>0. phase' \in {"read", "post"}
  BY DEF InLoad, Loaded
<1>1. ~ \E st : LastYield(st)
  BY <1>0 DEF LastYield
<1>2. ~User
  BY <1>0, <1>1 DEF User, Call, CrashedCall, CallThreadFinish, CallShutdown, InsertCrash,
                    NoBacktrack, InUserCode, ProcessCrashExit, ctlVars
<1>3. CASE Exec
  <2>1. CASE ExecStore \/ ExecCreate \/ ExecFlush \/ ExecMfence \/ ExecRmwr \/ ExecNothing
    <3>1. Cur' = Cur /\ phase' # "read"
      BY <2>1 DEF ExecStore, ExecCreate, ExecFlush, ExecMfence, ExecRmwr, ExecNothing, StartDrain, Post,
                  Cur, schVars
    <3>2. phase' = "post" => Cur.type \notin Loads \cup {"ATOMIC_RMWR"}
      BY <2>1 DEF ExecStore, ExecCreate, ExecFlush, ExecMfence, ExecRmwr, ExecNothing, StartDrain, Post,
                  Stores, Loads, Flushes
    <3>3. QED
      BY <3>1, <3>2 DEF InLoad, Loaded
  <2>2. ~(ExecThreadFinish \/ ExecShutdown)
    BY <1>0, <1>1 DEF ExecThreadFinish, ExecShutdown, StartDrain
  <2>3. QED
    BY <1>3, <2>1, <2>2 DEF Exec
<1>4. CASE Drain
  <2>1. ~(UNCHANGED phase /\ phase \in {"drain", "evict"})
    BY <1>0
  <2>2. ~(PopStore \/ PopClflushopt \/ PopSfence)
    BY <2>1 DEF PopStore, PopClflushopt, PopSfence, CanPop
  <2>3. ~SfenceDone
    BY <2>1 DEF SfenceDone, FenceOK
  <2>4. ~PopClflush
    BY <1>1, <2>1 DEF PopClflush, CanPop, CrashSelf, ProcessCrashExit
  <2>5. ~FlushOne
    BY <1>1, <2>1 DEF FlushOne, CrashSelf, ProcessCrashExit, FenceOK, ctlVars
  <2>6. ~DrainDone
    BY DEF DrainDone, Drained, Post, Recorded, InLoad, Loaded, Cur, schVars
  <2>7. ~(ShutdownNext \/ ShutdownDone)
    BY <1>0, <1>1 DEF ShutdownNext, ShutdownDone, StartDrain
  <2>8. QED
    BY <1>4, <2>2, <2>3, <2>4, <2>5, <2>6, <2>7 DEF Drain
<1>5. ~(ProcessStoreBuffer \/ Return \/ RmwSecond)
  BY <1>0 DEF ProcessStoreBuffer, Return, RmwSecond
<1>6. QED
  BY <1>2, <1>3, <1>4, <1>5 DEF Next, Inside, Finished

\* A drain is entered by actions that are not loads; the read half of a
\* read-modify-write records the initial value first.
LEMMA DrainFrame ==
    ASSUME TypeInv, [Next]_vars, phase' = "drain"
    PROVE  \/ ExecRmwr
           \/ Cur'.type \notin Loads \cup {"ATOMIC_RMWR"}
           \/ phase = "drain" /\ UNCHANGED <<pending, active_thread>>
<1>1. ~ \E st : LastYield(st)
  BY DEF LastYield
<1>2. ~User
  BY <1>1 DEF User, Call, CrashedCall, CallThreadFinish, CallShutdown, InsertCrash,
              NoBacktrack, InUserCode, ProcessCrashExit, ctlVars
<1>3. CASE Exec
  <2>1. CASE ExecStore \/ ExecMfence \/ ExecShutdown
    <3>1. Cur' = Cur
      BY <2>1 DEF ExecStore, ExecMfence, ExecShutdown, Cur, schVars
    <3>2. QED
      BY <2>1, <3>1 DEF ExecStore, ExecMfence, ExecShutdown, Stores, Loads
  <2>2. ~(ExecCreate \/ ExecFlush \/ ExecLoad \/ ExecNothing \/ ExecThreadFinish)
    BY <1>1 DEF ExecCreate, ExecFlush, ExecLoad, ExecNothing, ExecThreadFinish, Post, BuildReadFrom
  <2>3. QED
    BY <1>3, <2>1, <2>2 DEF Exec
<1>4. CASE Drain
  <2>1. CASE PopClflush
    BY <1>1, <2>1 DEF PopClflush, CrashSelf, ProcessCrashExit, schVars
  <2>2. CASE FlushOne
    BY <1>1, <2>2 DEF FlushOne, CrashSelf, ProcessCrashExit, schVars, ctlVars
  <2>3. CASE PopStore \/ PopClflushopt \/ PopSfence \/ SfenceDone
    BY <2>3 DEF PopStore, PopClflushopt, PopSfence, SfenceDone, schVars
  <2>4. CASE DrainDone \/ DrainThenRead \/ ShutdownNext \/ ShutdownDone
    BY <1>1, <2>4 DEF DrainDone, DrainThenRead, ShutdownNext, ShutdownDone, Drained, Post,
                      BuildReadFrom
  <2>5. QED
    BY <1>4, <2>1, <2>2, <2>3, <2>4 DEF Drain
<1>5. CASE Read
  <2>1. phase = "read"
    BY <1>5 DEF Read, ReadRunning, ReadCrash, ReadMust, ReadSkip, ReadLost, ReadPersisted,
                Deciding, Reading
  <2>2. phase' \in {"read", "post"}
    BY <1>5, <2>1 DEF Read, ReadRunning, ReadCrash, ReadMust, ReadSkip, ReadLost,
                      ReadPersisted, Advance, ctlVars
  <2>3. QED
    BY <2>2
<1>6. ~(ProcessStoreBuffer \/ Return \/ RmwSecond)
  BY DEF ProcessStoreBuffer, Return, RmwSecond
<1>7. CASE UNCHANGED vars
  BY <1>7 DEF vars, ctlVars, schVars
<1>8. QED
  BY <1>2, <1>3, <1>4, <1>5, <1>6, <1>7 DEF Next, Inside, Finished

----------------------------------------------------------------------------
\* The lists.

\* What a step does to one word's list: nothing, the initial value, one more
\* evicted store, or pthread_create's identifier as its first.
LEMMA ListStep ==
    ASSUME TypeInv, ListInv, [Next]_vars, NEW w \in Word
    PROVE  \/ obj_to_wr'[w] = obj_to_wr[w]
           \/ /\ obj_to_wr[w] = <<>>
              /\ \E a \in Action : /\ obj_to_wr'[w] = <<a>>
                                   /\ a.type = "ATOMIC_INIT" /\ a.fp = Byte
                                   /\ a.seq = 0 /\ a.loc = w
           \/ /\ obj_to_wr[w] # <<>>
              /\ PopStore
              /\ \E a \in Action : /\ obj_to_wr'[w] = Append(obj_to_wr[w], a)
                                   /\ a.type \in Stores /\ a.loc = w
                                   /\ a.seq = next_sequence_num
           \/ /\ obj_to_wr[w] = <<>>
              /\ PopStore
              /\ \E a \in Action : /\ obj_to_wr'[w] = <<a>>
                                   /\ IsId(a) /\ a.loc = w
                                   /\ a.seq = next_sequence_num
<1>1. TypeOK /\ obj_to_wr \in [Word -> Seq(Action)] /\ next_sequence_num \in Nat
  BY DEF TypeInv, TypeOK
<1>2. CASE UNCHANGED obj_to_wr
  BY <1>2
<1>3. CASE ExecStore \/ ExecRmwr \/ ExecLoad
  <2>1. obj_to_wr' = EnsureInitialValue(obj_to_wr, Cur.loc)
    BY <1>3 DEF ExecStore, ExecRmwr, ExecLoad
  <2>2. Cur.loc \in Word /\ active_thread \in Thread
    BY <1>1, CurType
  <2> DEFINE a == InitAction(Cur.loc)
  <2>3. a \in Action /\ a.type = "ATOMIC_INIT" /\ a.fp = Byte /\ a.seq = 0 /\ a.loc = Cur.loc
    <3>1. "ATOMIC_INIT" \in Types /\ Byte \in SUBSET Byte /\ raw[Cur.loc] \in Val \cup {InitVal}
      BY <1>1, <2>2 DEF Types, TypeOK
    <3>2. a \in Action
      BY <2>2, <3>1, ActType DEF InitAction
    <3>3. QED
      BY <3>2 DEF InitAction, Act
  <2>4. obj_to_wr' = IF obj_to_wr[Cur.loc] = <<>> THEN [obj_to_wr EXCEPT ![Cur.loc] = <<a>>]
                                                  ELSE obj_to_wr
    BY <2>1, Zenon DEF EnsureInitialValue
  <2> HIDE DEF a
  <2>5. QED
    BY <1>1, <2>2, <2>3, <2>4
<1>4. CASE PopStore
  <2> DEFINE a == [Popped EXCEPT !.seq = next_sequence_num]
  <2>1. /\ Popped \in Action /\ Popped.loc \in Word /\ tgt \in Thread
        /\ Popped.type \in Stores
        /\ obj_to_wr' = [obj_to_wr EXCEPT ![Popped.loc] = Append(@, a)]
    BY <1>1, <1>4, PoppedFacts DEF PopStore
  <2>2. /\ a \in Action /\ a.type = Popped.type /\ a.loc = Popped.loc /\ a.fp = Popped.fp
        /\ a.seq = next_sequence_num
    BY <1>1, <2>1 DEF Action
  <2>3. obj_to_wr[Popped.loc] # <<>> \/ IsId(Popped)
    <3>1. storeBuffer[tgt] \in Seq(Action) /\ storeBuffer[tgt] # <<>>
      BY <1>1, <1>4, <2>1 DEF PopStore, CanPop, TypeOK
    <3>2. 1 \in 1 .. Len(storeBuffer[tgt]) /\ Popped = storeBuffer[tgt][1]
      BY <3>1 DEF Popped
    <3>3. QED
      BY <2>1, <3>2 DEF ListInv, Recorded
  <2>4. IsId(Popped) => IsId(a)
    BY <2>2 DEF IsId
  <2> HIDE DEF a
  <2>5. CASE w = Popped.loc
    <3>1. obj_to_wr'[w] = Append(obj_to_wr[w], a)
      BY <1>1, <2>1, <2>5
    <3>2. obj_to_wr[w] = <<>> => obj_to_wr'[w] = <<a>>
      BY <2>2, <3>1
    <3>3. QED
      BY <1>4, <2>1, <2>2, <2>3, <2>4, <2>5, <3>1, <3>2
  <2>6. CASE w # Popped.loc
    BY <1>1, <2>1, <2>6
  <2>7. QED
    BY <2>5, <2>6
<1>5. CASE PopClflush
  BY <1>5 DEF PopClflush
<1>6. QED
  BY <1>2, <1>3, <1>4, <1>5, WriteFrame

\* A list that has begun stays one.
LEMMA ListsGrow ==
    ASSUME TypeInv, ListInv, [Next]_vars, NEW w \in Word, obj_to_wr[w] # <<>>
    PROVE  obj_to_wr'[w] # <<>>
<1>1. obj_to_wr[w] \in Seq(Action)
  BY DEF TypeInv, TypeOK
<1>2. \A a \in Action : Append(obj_to_wr[w], a) # <<>>
  BY <1>1
<1>3. QED
  BY <1>2, ListStep

\* Clocks do not go back.
LEMMA ClockGrows ==
    ASSUME TypeInv, [Next]_vars
    PROVE  /\ next_sequence_num' \in Nat /\ next_sequence_num <= next_sequence_num'
           /\ PopStore => next_sequence_num < next_sequence_num'
<1>1. next_sequence_num \in Nat
  BY DEF TypeInv, TypeOK
<1>2. CASE UNCHANGED next_sequence_num
  BY <1>1, <1>2 DEF PopStore
<1>3. CASE PopStore \/ PopClflush
  BY <1>1, <1>3 DEF PopStore, PopClflush
<1>4. QED
  BY <1>2, <1>3, WriteFrame DEF ExecStore, ExecRmwr, ExecLoad

\* Every step keeps the lists in order.
LEMMA StepLists ==
    ASSUME TypeInv, ListInv, [Next]_vars, NEW w \in Word PROVE ListOK(w)'
<1> DEFINE L == obj_to_wr[w]
           n == next_sequence_num
           m == next_sequence_num'
<1>1. L \in Seq(Action) /\ n \in Nat /\ m \in Nat /\ n <= m /\ Len(L) \in Nat
  <2>1. L \in Seq(Action) /\ n \in Nat
    BY DEF TypeInv, TypeOK
  <2>2. m \in Nat /\ n <= m
    BY ClockGrows
  <2>3. Len(L) \in Nat
    BY <2>1
  <2>4. QED
    BY <2>1, <2>2, <2>3
<1>2. /\ L # <<>> => /\ IsInit(L[1]) \/ IsId(L[1])
                     /\ L[1].seq = 0 \/ L[1].seq < n
      /\ \A i \in 2 .. Len(L) : L[1].seq = 0 \/ L[1].seq < L[i].seq
      /\ \A i \in 1 .. Len(L) : L[i].loc = w /\ L[i].type \in Stores
      /\ \A i \in 2 .. Len(L) : L[i].seq < n
      /\ \A i, j \in 2 .. Len(L) : i < j => L[i].seq < L[j].seq
  BY DEF ListInv, ListOK
<1>3. \A i \in 1 .. Len(L) : L[i].seq \in Nat
  <2>1. \A i \in 1 .. Len(L) : L[i] \in Action
    BY <1>1, ElementOfSeq
  <2>2. QED
    BY <2>1 DEF Action
<1> SUFFICES ASSUME NEW K, K = obj_to_wr'[w]
             PROVE  /\ K # <<>> => /\ IsInit(K[1]) \/ IsId(K[1])
                                   /\ K[1].seq = 0 \/ K[1].seq < m
                    /\ \A i \in 2 .. Len(K) : K[1].seq = 0 \/ K[1].seq < K[i].seq
                    /\ \A i \in 1 .. Len(K) : K[i].loc = w /\ K[i].type \in Stores
                    /\ \A i \in 2 .. Len(K) : K[i].seq < m
                    /\ \A i, j \in 2 .. Len(K) : i < j => K[i].seq < K[j].seq
  BY DEF ListOK
<1>4. CASE K = L
  <2>1. \A i \in 2 .. Len(L) : L[i].seq < m
    <3> SUFFICES ASSUME NEW i \in 2 .. Len(L) PROVE L[i].seq < m
      OBVIOUS
    <3>1. i \in 1 .. Len(L)
      BY <1>1
    <3>2. L[i].seq \in Nat /\ L[i].seq < n
      BY <1>2, <1>3, <3>1
    <3>3. QED
      BY <1>1, <3>2
  <2>2. L # <<>> => L[1].seq = 0 \/ L[1].seq < m
    <3> SUFFICES ASSUME L # <<>>, L[1].seq < n PROVE L[1].seq < m
      BY <1>2
    <3>1. 1 \in 1 .. Len(L)
      BY <1>1, EmptySeq
    <3>2. QED
      BY <1>1, <1>3, <3>1
  <2> HIDE DEF L, m, n
  <2>3. QED
    BY <1>2, <1>4, <2>1, <2>2
<1>5. CASE L = <<>> /\ \E a \in Action : /\ K = <<a>>
                                         /\ a.type = "ATOMIC_INIT" /\ a.fp = Byte
                                         /\ a.seq = 0 /\ a.loc = w
  <2>1. PICK a \in Action : K = <<a>> /\ a.type = "ATOMIC_INIT" /\ a.fp = Byte
                            /\ a.seq = 0 /\ a.loc = w
    BY <1>5
  <2>2. Len(K) = 1 /\ K[1] = a
    BY <2>1
  <2> HIDE DEF L, m, n
  <2>3. QED
    BY <2>1, <2>2 DEF Stores, IsInit
<1>6. CASE /\ L # <<>> /\ PopStore
           /\ \E a \in Action : /\ K = Append(L, a) /\ a.type \in Stores /\ a.loc = w
                                /\ a.seq = n
  <2>1. PICK a \in Action : K = Append(L, a) /\ a.type \in Stores /\ a.loc = w /\ a.seq = n
    BY <1>6
  <2>2. n < m
    BY <1>6, ClockGrows
  <2> HIDE DEF L, m, n
  <2>3. /\ Len(K) = Len(L) + 1 /\ K[Len(L) + 1] = a
        /\ \A i \in 1 .. Len(L) : K[i] = L[i]
    BY <1>1, <2>1, AppendProperties
  <2>4. Len(L) >= 1
    BY <1>1, <1>6, EmptySeq
  <2>5. K[1] = L[1]
    BY <1>1, <2>3, <2>4
  <2>6. ASSUME NEW i \in 1 .. Len(K)
        PROVE  \/ i \in 1 .. Len(L) /\ K[i] = L[i]
               \/ i = Len(L) + 1 /\ K[i] = a
    BY <1>1, <2>3
  <2>7. \A i \in 1 .. Len(K) : K[i].loc = w /\ K[i].type \in Stores
    BY <1>2, <2>1, <2>6
  <2>8. \A i \in 2 .. Len(K) : K[i].seq < m
    <3> SUFFICES ASSUME NEW i \in 2 .. Len(K) PROVE K[i].seq < m
      OBVIOUS
    <3>1. i \in 1 .. Len(K) /\ i \in Nat /\ i >= 2
      BY <1>1, <2>3
    <3>2. CASE i \in 1 .. Len(L) /\ K[i] = L[i]
      <4>1. i \in 2 .. Len(L)
        BY <1>1, <3>1, <3>2
      <4>2. L[i].seq < n /\ L[i].seq \in Nat
        BY <1>2, <1>3, <3>2, <4>1
      <4>3. QED
        BY <1>1, <2>2, <3>2, <4>2
    <3>3. CASE K[i] = a
      BY <2>1, <2>2, <3>3
    <3>4. QED
      BY <2>6, <3>1, <3>2, <3>3
  <2>9. ASSUME NEW i \in 2 .. Len(K), NEW j \in 2 .. Len(K), i < j
        PROVE  K[i].seq < K[j].seq
    <3>1. /\ i \in 1 .. Len(K) /\ j \in 1 .. Len(K) /\ i \in 2 .. Len(L)
          /\ i \in 1 .. Len(L) /\ K[i] = L[i]
      BY <1>1, <2>3, <2>9
    <3>2. CASE j \in 1 .. Len(L) /\ K[j] = L[j]
      <4>1. j \in 2 .. Len(L)
        BY <1>1, <3>2, <2>9
      <4>2. QED
        BY <1>2, <2>9, <3>1, <3>2, <4>1
    <3>3. CASE K[j] = a
      BY <1>2, <2>1, <3>1, <3>3
    <3>4. QED
      BY <2>6, <3>1, <3>2, <3>3
  <2>10. L[1].seq \in Nat /\ (L[1].seq = 0 \/ L[1].seq < n)
    <3>1. 1 \in 1 .. Len(L)
      BY <1>1, <2>4
    <3>2. QED
      BY <1>2, <1>3, <1>6, <3>1
  <2>11. K[1].seq = 0 \/ K[1].seq < m
    BY <1>1, <2>2, <2>5, <2>10
  <2>12. ASSUME NEW i \in 2 .. Len(K) PROVE K[1].seq = 0 \/ K[1].seq < K[i].seq
    <3>1. i \in 1 .. Len(K) /\ i \in Nat /\ i >= 2
      BY <1>1, <2>3
    <3>2. CASE i \in 1 .. Len(L) /\ K[i] = L[i]
      <4>1. i \in 2 .. Len(L)
        BY <1>1, <3>1, <3>2
      <4>2. QED
        BY <1>2, <2>5, <3>2, <4>1
    <3>3. CASE K[i] = a
      BY <2>1, <2>5, <2>10, <3>3
    <3>4. QED
      BY <2>6, <3>1, <3>2, <3>3
  <2>13. QED
    BY <1>2, <1>6, <2>5, <2>7, <2>8, <2>9, <2>11, <2>12
<1>7. CASE /\ L = <<>> /\ PopStore
           /\ \E a \in Action : K = <<a>> /\ IsId(a) /\ a.loc = w /\ a.seq = n
  <2>1. PICK a \in Action : K = <<a>> /\ IsId(a) /\ a.loc = w /\ a.seq = n
    BY <1>7
  <2>2. n < m
    BY <1>7, ClockGrows
  <2>3. Len(K) = 1 /\ K[1] = a
    BY <2>1
  <2>4. a.type \in Stores
    BY <2>1 DEF IsId, Stores
  <2> HIDE DEF L, m, n
  <2>5. QED
    BY <2>1, <2>2, <2>3, <2>4
<1>8. QED
  BY <1>4, <1>5, <1>6, <1>7, ListStep

\* Where the entries of a store buffer come from.
LEMMA BufferEntries ==
    ASSUME TypeInv, [Next]_vars, NEW t \in Thread, NEW i \in 1 .. Len(storeBuffer'[t])
    PROVE  \/ \E j \in 1 .. Len(storeBuffer[t]) : storeBuffer'[t][i] = storeBuffer[t][j]
           \/ /\ t = active_thread /\ ExecStore
              /\ storeBuffer'[t][i].type = Cur.type /\ storeBuffer'[t][i].loc = Cur.loc
           \/ t = active_thread /\ ExecCreate /\ IsId(storeBuffer'[t][i])
           \/ t = active_thread /\ ExecFlush /\ storeBuffer'[t][i].type \notin Stores
<1>1. /\ TypeOK /\ storeBuffer \in [Thread -> Seq(Action)] /\ active_thread \in Thread
      /\ storeBuffer[t] \in Seq(Action)
  BY DEF TypeInv, TypeOK
<1>2. Len(storeBuffer[t]) \in Nat
  BY <1>1
<1>3. CASE UNCHANGED storeBuffer
  BY <1>3
<1>4. CASE ExecStore \/ ExecCreate \/ ExecFlush
  <2>1. Cur \in Action
    BY <1>1, CurType
  <2>2. PICK a \in Action : /\ AddToStoreBuffer(a)
                            /\ ~ExecCreate => a.type = Cur.type /\ a.loc = Cur.loc
                            /\ ExecCreate => IsId(a)
    <3>1. /\ [Cur EXCEPT !.ee = next_sequence_num] \in Action
          /\ [Cur EXCEPT !.ee = next_sequence_num].type = Cur.type
          /\ [Cur EXCEPT !.ee = next_sequence_num].loc = Cur.loc
      BY <1>1, <2>1 DEF Action, TypeOK
    <3> DEFINE d == [Cur EXCEPT !.type = "NONATOMIC_STORE", !.fp = IdFootprint]
    <3>2. "NONATOMIC_STORE" \in Types /\ IdFootprint \in SUBSET Byte
      BY AddressAssumption DEF Types, Stores
    <3>3. d \in Action /\ IsId(d)
      BY <2>1, <3>2 DEF Action, IsId
    <3>4. ExecCreate => AddToStoreBuffer(d)
      BY DEF ExecCreate
    <3> HIDE DEF d
    <3>5. CASE ExecCreate
      BY <3>3, <3>4, <3>5
    <3>6. CASE ~ExecCreate
      BY <1>4, <2>1, <3>1, <3>6 DEF ExecStore, ExecFlush
    <3>7. QED
      BY <3>5, <3>6
  <2> DEFINE c == CopyAction(a)
  <2>3. /\ c \in Action
        /\ ~ExecCreate => c.type = Cur.type /\ c.loc = Cur.loc
        /\ ExecCreate => IsId(c)
    BY <2>2 DEF CopyAction, Action, IsId
  <2>4. storeBuffer' = [storeBuffer EXCEPT ![active_thread] = Append(@, c)]
    BY <2>2 DEF AddToStoreBuffer
  <2>5. ExecFlush => Cur.type \notin Stores
    BY DEF ExecFlush, Flushes, Stores
  <2> HIDE DEF c
  <2>6. CASE t = active_thread
    <3>1. storeBuffer'[t] = Append(storeBuffer[t], c)
      BY <1>1, <2>4, <2>6
    <3>2. /\ Len(storeBuffer'[t]) = Len(storeBuffer[t]) + 1
          /\ storeBuffer'[t][Len(storeBuffer[t]) + 1] = c
          /\ \A j \in 1 .. Len(storeBuffer[t]) : storeBuffer'[t][j] = storeBuffer[t][j]
      BY <1>1, <2>3, <3>1, AppendProperties
    <3>3. i \in 1 .. Len(storeBuffer[t]) \/ i = Len(storeBuffer[t]) + 1
      BY <1>2, <3>2
    <3>4. QED
      BY <1>4, <2>3, <2>5, <2>6, <3>2, <3>3
  <2>7. CASE t # active_thread
    BY <1>1, <2>4, <2>7
  <2>8. QED
    BY <2>6, <2>7
<1>5. CASE CanPop /\ storeBuffer' = [storeBuffer EXCEPT ![tgt] = Tail(@)]
  <2>1. CASE t = tgt
    <3>1. storeBuffer'[t] = Tail(storeBuffer[t]) /\ storeBuffer[t] # <<>>
      BY <1>1, <1>5, <2>1 DEF CanPop
    <3>2. /\ Len(Tail(storeBuffer[t])) = Len(storeBuffer[t]) - 1
          /\ \A k \in 1 .. Len(Tail(storeBuffer[t])) :
               Tail(storeBuffer[t])[k] = storeBuffer[t][k + 1]
      BY <1>1, <3>1, HeadTailProperties
    <3>3. i + 1 \in 1 .. Len(storeBuffer[t]) /\ storeBuffer'[t][i] = storeBuffer[t][i + 1]
      BY <1>2, <3>1, <3>2
    <3>4. QED
      BY <3>3
  <2>2. CASE t # tgt
    BY <1>1, <1>5, <2>2
  <2>3. QED
    BY <2>1, <2>2
<1>6. QED
  BY <1>3, <1>4, <1>5, BufferFrame

\* After ensureInitialValue the word has a list.
LEMMA Ensured ==
    ASSUME TypeInv, ExecStore \/ ExecRmwr \/ ExecLoad
    PROVE  obj_to_wr'[Cur.loc] # <<>> /\ Cur' = Cur
<1>1. Cur.loc \in Word /\ obj_to_wr \in [Word -> Seq(Action)]
  BY CurType DEF TypeInv, TypeOK
<1>2. obj_to_wr' = EnsureInitialValue(obj_to_wr, Cur.loc)
  BY DEF ExecStore, ExecRmwr, ExecLoad
<1>3. obj_to_wr'[Cur.loc] # <<>>
  BY <1>1, <1>2 DEF EnsureInitialValue
<1>4. Cur' = Cur
  BY DEF ExecStore, ExecRmwr, ExecLoad, Cur, schVars
<1>5. QED
  BY <1>3, <1>4

\* A step of the walk is one of two things: the store's bytes are taken or they are
\* not.  The initial value's are.
LEMMA WalkSteps ==
    ASSUME TypeInv, Read
    PROVE  /\ Reading /\ Cur' = Cur /\ ReadFrame
           /\ \/ ReadCrash
              \/ (ReadRunning \/ ReadMust \/ ReadPersisted) /\ Advance(KeptRf)
              \/ (ReadSkip \/ ReadLost) /\ Crashed(Writer) /\ ~MustPersist /\ Advance(rf)
<1>1. Reading /\ ReadFrame
  BY DEF Read, ReadRunning, ReadCrash, ReadMust, ReadSkip, ReadLost, ReadPersisted, Deciding
<1>2. Cur' = Cur
  BY <1>1 DEF ReadFrame, Cur, schVars
<1>3. QED
  BY <1>1, <1>2 DEF Read, ReadRunning, ReadCrash, ReadMust, ReadSkip, ReadLost, ReadPersisted,
                    Deciding, MayPersist

\* A store looked at covers an open byte that it leaves open only if it is not taken.
LEMMA FillTakes ==
    ASSUME TypeInv, ListInv, Reading, NEW b \in Byte
    PROVE  /\ Looked # NoAct
           /\ KeptRf[b] = IF b \in Cur.fp /\ rf[b] = NoAct /\ b \in Looked.fp
                          THEN Looked ELSE rf[b]
<1>1. itr \in 1 .. Len(List) /\ Cur.loc \in Word
  <2>1. TypeOK /\ itr \in Nat /\ itr > 0 /\ itr <= Len(List)
    BY DEF TypeInv, TypeOK, ReadOK, Reading, List
  <2>2. List \in Seq(Action) /\ Cur.loc \in Word
    BY <2>1, CurType DEF TypeOK, List
  <2>3. Len(List) \in Nat
    BY <2>2
  <2>4. QED
    BY <2>1, <2>2, <2>3
<1>2. Looked.type \in Stores
  BY <1>1 DEF ListInv, ListOK, List, Looked
<1>3. Looked # NoAct
  BY <1>2, NoActFacts DEF Stores
<1>4. QED
  BY <1>3 DEF KeptRf, Fill, Open

\* The walk ends at the initial value at the latest, if the list begins with it.
LEMMA WalkEnds ==
    ASSUME TypeInv, ListInv, Read, phase' = "read", ~IsId(List[1]) PROVE itr' > 0
<1>1. Reading /\ itr \in Nat /\ itr > 0 /\ ReadLine \in Line /\ Writer \in Proc
  BY WalkSteps, LookedFacts
<1>2. CASE ReadCrash
  BY <1>1, <1>2 DEF ReadCrash, ctlVars
<1>3. CASE \E r : Advance(r) /\ itr > 1
  BY <1>1, <1>3 DEF Advance
<1>4. CASE itr = 1
  <2>1. Looked.fp = Byte /\ Looked.seq = 0
    <3>1. TypeOK /\ List # <<>>
      BY <1>1 DEF ListInv, Recorded, Reading, TypeInv
    <3>2. QED
      BY <1>4, <3>1, CurType DEF ListInv, ListOK, List, Looked, IsInit
  <2>2. MustPersist
    BY <1>1, <2>1 DEF MustPersist, TypeInv, TypeOK
  <2>3. CASE Advance(KeptRf)
    <3>1. Cur.fp \subseteq Byte
      BY CurType DEF TypeInv, Action
    <3>2. \A b \in Byte : b \in Cur.fp => KeptRf[b] # NoAct
      BY <1>1, <2>1, FillTakes
    <3>3. Open(KeptRf, Cur) = {}
      BY <3>1, <3>2 DEF Open
    <3>4. QED
      BY <2>3, <3>3 DEF Advance
  <2>4. QED
    BY <1>2, <2>2, <2>3, WalkSteps
<1>5. QED
  BY <1>1, <1>2, <1>3, <1>4, WalkSteps

\* Every step keeps Recorded.
LEMMA StepRecorded == ASSUME TypeInv, FenceOK, ListInv, [Next]_vars PROVE Recorded'
<1>0. /\ TypeOK /\ Recorded /\ Cur.loc \in Word /\ storeBuffer \in [Thread -> Seq(Action)]
      /\ TypeOK'
  BY CurType, StepTypeInv DEF ListInv, TypeInv, TypeOK
<1>1. ASSUME NEW t \in Thread, NEW i \in 1 .. Len(storeBuffer'[t]),
             storeBuffer'[t][i].type \in Stores
      PROVE  obj_to_wr'[storeBuffer'[t][i].loc] # <<>> \/ IsId(storeBuffer'[t][i])
  <2>1. CASE \E j \in 1 .. Len(storeBuffer[t]) : storeBuffer'[t][i] = storeBuffer[t][j]
    <3>1. PICK j \in 1 .. Len(storeBuffer[t]) : storeBuffer'[t][i] = storeBuffer[t][j]
      BY <2>1
    <3>2. storeBuffer[t][j].loc \in Word
      <4>1. storeBuffer[t] \in Seq(Action)
        BY <1>0
      <4>2. storeBuffer[t][j] \in Action
        BY <3>1, <4>1, ElementOfSeq
      <4>3. QED
        BY <4>2 DEF Action
    <3>3. obj_to_wr[storeBuffer[t][j].loc] # <<>> \/ IsId(storeBuffer[t][j])
      BY <1>0, <1>1, <3>1 DEF Recorded
    <3>4. QED
      BY <3>1, <3>2, <3>3, ListsGrow
  <2>2. CASE ExecStore /\ storeBuffer'[t][i].loc = Cur.loc
    BY <2>2, Ensured
  <2>3. QED
    BY <1>1, <2>1, <2>2, BufferEntries
<1>2. ASSUME phase' = "drain"
      PROVE  /\ Cur'.type \notin Loads
             /\ Cur'.type = "ATOMIC_RMWR" => List' # <<>>
  <2>1. CASE ExecRmwr
    BY <2>1, Ensured DEF List, ExecRmwr, Loads
  <2>2. CASE Cur'.type \notin Loads \cup {"ATOMIC_RMWR"}
    BY <2>2
  <2>3. CASE phase = "drain" /\ UNCHANGED <<pending, active_thread>>
    <3>1. Cur' = Cur
      BY <2>3 DEF Cur
    <3>2. QED
      BY <1>0, <2>3, <3>1, ListsGrow DEF Recorded, List
  <2>4. QED
    BY <1>2, <2>1, <2>2, <2>3, DrainFrame
<1>3. ASSUME phase' = "read" PROVE List' # <<>> /\ (itr' > 0 \/ IsId(List'[1]))
  <2>1. CASE ExecLoad \/ DrainThenRead
    <3>1. List' # <<>> /\ Cur' = Cur
      <4>1. CASE ExecLoad
        BY <4>1, Ensured DEF List
      <4>2. CASE DrainThenRead
        BY <1>0, <4>2 DEF DrainThenRead, Drained, Recorded, List, Cur, memVars, schVars
      <4>3. QED
        BY <2>1, <4>1, <4>2
    <3>2. itr' = Len(List')
      <4>1. CASE ExecLoad
        BY <1>3, <3>1, <4>1 DEF ExecLoad, BuildReadFrom, List
      <4>2. CASE DrainThenRead
        BY <1>3, <3>1, <4>2 DEF DrainThenRead, BuildReadFrom, List, memVars
      <4>3. QED
        BY <2>1, <4>1, <4>2
    <3>3. List' \in Seq(Action)
      BY <1>0, <3>1 DEF List, TypeOK
    <3>4. Len(List') \in Nat /\ (List' # <<>> => Len(List') # 0)
      BY <3>3, EmptySeq
    <3>5. QED
      BY <3>1, <3>2, <3>4
  <2>2. CASE Read
    <3>1. Cur' = Cur /\ UNCHANGED obj_to_wr /\ phase = "read"
      BY <2>2, WalkSteps DEF ReadFrame, Reading
    <3>2. QED
      BY <1>0, <1>3, <2>2, <3>1, WalkEnds DEF Recorded, List
  <2>3. CASE UNCHANGED vars
    BY <1>0, <1>3, <2>3 DEF vars, ctlVars, memVars, schVars, Recorded, List, Cur
  <2>4. QED
    BY <1>0, <1>3, <2>1, <2>2, <2>3, LoadFrame DEF InLoad
<1>4. QED
  BY <1>1, <1>2, <1>3 DEF Recorded

\* Every list starts with the value memory held or with pthread_create's
\* identifier, in every state.
THEOREM ListInvariant == Spec => []ListInv
<1>1. ASSUME Init PROVE ListInv
  <2>1. \A w \in Word : obj_to_wr[w] = <<>>
    BY <1>1 DEF Init
  <2>2. \A t \in Thread : storeBuffer[t] = <<>>
    BY <1>1 DEF Init
  <2>3. \A w \in Word : ListOK(w)
    BY <2>1 DEF ListOK
  <2>4. QED
    BY <1>1, <2>2, <2>3 DEF ListInv, Recorded, Init
<1>2. ASSUME TypeInv, FenceOK /\ Lively, ListInv, [Next]_vars PROVE ListInv'
  BY <1>2, StepLists, StepRecorded DEF ListInv
<1>3. QED
  BY <1>1, <1>2, TypeInvariant, LivelyInvariant, PTL DEF Spec

\* build_read_from finds a source for every byte and does not reach its final
\* assert(false), except for a word whose oldest store is the identifier that
\* PTHREAD_CREATE buffers without ensureInitialValue (the run `create').  In every
\* other word the initial value, recorded at the first access, is at the front of
\* the list, covers every byte, and no crash can lose it.
THEOREM AlwaysFindsStore == Spec => []ReadFindsStore
<1>1. ListInv => ReadFindsStore
  BY DEF ListInv, Recorded, ReadFindsStore, ReadFails, FirstIsId, IsId, List
<1>2. QED
  BY <1>1, ListInvariant, PTL

----------------------------------------------------------------------------
\* A thread's own stores.

\* The walk leaves the reader's buffer, its action and the lists alone.
LEMMA WalkFrame ==
    ASSUME TypeInv, Read
    PROVE  /\ Local' = Local /\ Cur' = Cur /\ List' = List /\ FromMemory' = FromMemory
           /\ phase = "read" /\ InLoad
           /\ UNCHANGED <<obj_to_wr, storeBuffer, active_thread, pending>>
<1>1. Reading /\ Cur' = Cur /\ ReadFrame
  BY WalkSteps
<1>2. UNCHANGED <<obj_to_wr, storeBuffer, active_thread, pending>>
  BY <1>1, ReadFrameFacts
<1>3. LocalBypassing(active_thread, Cur)' = LocalBypassing(active_thread, Cur)
  BY <1>1, <1>2 DEF LocalBypassing
<1>4. FromMemory' = FromMemory
  BY <1>1, <1>3 DEF FromMemory
<1>5. QED
  BY <1>1, <1>2, <1>3, <1>4 DEF Local, List, InLoad, Reading

\* A load begins with what local_bypassing has found.
LEMMA LoadBegins ==
    ASSUME TypeInv, ExecLoad \/ DrainThenRead
    PROVE  /\ Local' = Local /\ Cur' = Cur /\ rf' = Local /\ FromMemory' = FromMemory
           /\ phase' = "read" => itr' = Len(List')
           /\ phase' = "post" => Open(Local, Cur) = {}
<1>1. Cur' = Cur /\ UNCHANGED <<storeBuffer, active_thread>>
  BY DEF ExecLoad, DrainThenRead, Cur, schVars, thrVars
<1>2. LocalBypassing(active_thread, Cur)' = LocalBypassing(active_thread, Cur)
  BY <1>1 DEF LocalBypassing
<1>3. FromMemory' = FromMemory
  BY <1>1, <1>2 DEF FromMemory
<1>4. BuildReadFrom(obj_to_wr')
  <2>1. CASE ExecLoad
    BY <2>1 DEF ExecLoad
  <2>2. CASE DrainThenRead
    BY <2>2, Zenon DEF DrainThenRead, memVars
  <2>3. QED
    BY <2>1, <2>2
<1>5. /\ rf' = Local
      /\ phase' = "read" => itr' = Len(obj_to_wr'[Cur.loc])
      /\ phase' = "post" => Open(Local, Cur) = {}
  BY <1>4 DEF BuildReadFrom, Local
<1>6. QED
  BY <1>1, <1>2, <1>3, <1>5 DEF Local, List

\* Nothing changes what a load looks at when nothing changes.
LEMMA StutterFrame ==
    ASSUME UNCHANGED vars
    PROVE  /\ Local' = Local /\ Cur' = Cur /\ List' = List /\ FromMemory' = FromMemory
           /\ UNCHANGED <<rf, phase, itr, obj_to_wr, storeBuffer, active_thread, pending,
                          crashes, cl_begin, cl_end>>
<1>1. UNCHANGED <<rf, phase, itr, obj_to_wr, storeBuffer, active_thread, pending,
                  crashes, cl_begin, cl_end>>
  BY DEF vars, ctlVars, memVars, thrVars, schVars, procVars
<1>2. Cur' = Cur
  BY <1>1 DEF Cur
<1>3. LocalBypassing(active_thread, Cur)' = LocalBypassing(active_thread, Cur)
  BY <1>1, <1>2 DEF LocalBypassing
<1>4. QED
  BY <1>1, <1>2, <1>3 DEF Local, List, FromMemory

\* Every step keeps OwnKept.
LEMMA StepOwnKept ==
    ASSUME TypeInv, FenceOK, ListInv, OwnKept, [Next]_vars PROVE OwnKept'
<1> SUFFICES ASSUME InLoad', NEW b \in Cur'.fp, Local'[b] # NoAct PROVE rf'[b] = Local'[b]
  BY DEF OwnKept
<1>1. CASE ExecLoad \/ DrainThenRead
  BY <1>1, LoadBegins
<1>2. CASE Read
  <2>1. Local' = Local /\ Cur' = Cur /\ InLoad /\ Reading
    BY <1>2, WalkFrame, WalkSteps
  <2>2. rf[b] = Local[b] /\ rf[b] # NoAct /\ b \in Byte
    BY <2>1, CurType DEF OwnKept, TypeInv, Action
  <2>3. KeptRf[b] = rf[b]
    BY <2>1, <2>2, FillTakes
  <2>4. rf'[b] = rf[b]
    BY <1>2, <2>3, WalkSteps DEF Advance, ReadCrash, ctlVars
  <2>5. QED
    BY <2>1, <2>2, <2>4
<1>3. CASE UNCHANGED vars
  <2>1. Local' = Local /\ Cur' = Cur /\ UNCHANGED <<rf, phase>>
    BY <1>3, StutterFrame
  <2>2. QED
    BY <2>1 DEF OwnKept, InLoad, Loaded
<1>4. QED
  BY <1>1, <1>2, <1>3, LoadFrame DEF ListInv

\* What a step makes pending: a call's action, the end of a thread or a process,
\* the second half of a read-modify-write, or nothing.
LEMMA PlainPending ==
    ASSUME PlainStores, TypeInv, PlainBuffers, [Next]_vars, NEW t \in Thread
    PROVE  /\ pending'[t].type # "ATOMIC_INIT"
           /\ pending'[t].type = "ATOMIC_STORE" => pending'[t].sc
<1>1. /\ pending \in [Thread -> Action] /\ active_thread \in Thread
      /\ pending[t].type # "ATOMIC_INIT"
      /\ pending[t].type = "ATOMIC_STORE" => pending[t].sc
  BY DEF TypeInv, TypeOK, PlainBuffers
<1>2. CASE UNCHANGED pending
  BY <1>1, <1>2
<1>3. ASSUME NEW a, pending' = [pending EXCEPT ![active_thread] = a],
             a.type # "ATOMIC_INIT", a.type = "ATOMIC_STORE" => a.sc
      PROVE  /\ pending'[t].type # "ATOMIC_INIT"
             /\ pending'[t].type = "ATOMIC_STORE" => pending'[t].sc
  BY <1>1, <1>3
<1>4. CASE \A u \in Thread : pending'[u] = NoAct \/ pending'[u] = pending[u]
  BY <1>1, <1>4, NoActFacts
<1>5. CASE User
  <2>1. CASE Call
    <3>1. PICK name \in Calls[active_thread] : \E a \in Issued(active_thread, name) :
              pending' = [pending EXCEPT ![active_thread] = a]
      BY <2>1 DEF Call
    <3>2. PICK a \in Issued(active_thread, name) :
              pending' = [pending EXCEPT ![active_thread] = a]
      BY <3>1
    <3>3. /\ name \in CallNames
          /\ name \notin {"volatile_store", "atomic_store", "atomic_init"}
      BY <1>1, <3>1, BoundAssumption DEF PlainStores
    <3>4. a.type = CallType(name) /\ a.sc = (name = "atomic_store_sc")
      BY DEF Issued, Act
    <3>5. /\ CallType(name) # "ATOMIC_INIT"
          /\ CallType(name) = "ATOMIC_STORE" => name = "atomic_store_sc"
      BY <3>3 DEF CallNames, CallType
    <3>6. QED
      BY <1>3, <3>2, <3>4, <3>5
  <2>2. CASE CallThreadFinish
    <3> DEFINE a == Act("THREAD_FINISH", active_thread, AnyWord, {}, InitVal, FALSE)
    <3>1. a.type = "THREAD_FINISH" /\ pending' = [pending EXCEPT ![active_thread] = a]
      BY <2>2 DEF CallThreadFinish, Act
    <3> HIDE DEF a
    <3>2. QED
      BY <1>3, <3>1
  <2>3. CASE CallShutdown
    <3> DEFINE a == Act("SHUTDOWN", active_thread, AnyWord, {}, InitVal, FALSE)
    <3>1. a.type = "SHUTDOWN" /\ pending' = [pending EXCEPT ![active_thread] = a]
      BY <2>3 DEF CallShutdown, Act
    <3> HIDE DEF a
    <3>2. QED
      BY <1>3, <3>1
  <2>4. CASE CrashedCall \/ InsertCrash
    BY <1>4, <2>4 DEF CrashedCall, InsertCrash, ProcessCrashExit
  <2>5. QED
    BY <1>2, <1>5, <2>1, <2>2, <2>3, <2>4 DEF User, NoBacktrack
<1>6. CASE Exec
  <2>1. CASE ExecThreadFinish
    BY <1>3, <2>1, NoActFacts DEF ExecThreadFinish
  <2>2. QED
    BY <1>2, <1>6, <2>1
       DEF Exec, ExecStore, ExecCreate, ExecFlush, ExecMfence, ExecRmwr, ExecLoad, ExecNothing, ExecShutdown
<1>7. CASE Drain
  <2>1. CASE PopClflush
    BY <1>2, <1>4, <2>1 DEF PopClflush, CrashSelf, ProcessCrashExit
  <2>2. CASE FlushOne
    BY <1>2, <1>4, <2>2 DEF FlushOne, CrashSelf, ProcessCrashExit
  <2>3. CASE ShutdownDone
    BY <1>4, <2>3 DEF ShutdownDone
  <2>4. QED
    BY <1>2, <1>7, <2>1, <2>2, <2>3
       DEF Drain, PopStore, PopClflushopt, PopSfence, SfenceDone, DrainDone, DrainThenRead,
           ShutdownNext
<1>8. CASE Read
  BY <1>2, <1>8, WalkFrame
<1>9. CASE ProcessStoreBuffer
  BY <1>2, <1>9 DEF ProcessStoreBuffer
<1>10. CASE Return
  BY <1>2, <1>3, <1>10, NoActFacts DEF Return
<1>11. CASE RmwSecond
  <2>1. pending[active_thread] \in Action
    BY <1>1
  <2>2. /\ \A v \in Val : [pending[active_thread] EXCEPT !.type = "ATOMIC_RMW", !.val = v].type
                            = "ATOMIC_RMW"
        /\ [pending[active_thread] EXCEPT !.type = "ATOMIC_CAS_FAILED"].type
                            = "ATOMIC_CAS_FAILED"
    BY <2>1 DEF Action
  <2>3. \/ \E v \in Val : pending' = [pending EXCEPT ![active_thread] =
                   [pending[active_thread] EXCEPT !.type = "ATOMIC_RMW", !.val = v]]
        \/ pending' = [pending EXCEPT ![active_thread] =
                   [pending[active_thread] EXCEPT !.type = "ATOMIC_CAS_FAILED"]]
    BY <1>11 DEF RmwSecond
  <2>4. QED
    BY <1>3, <2>2, <2>3, Zenon
<1>12. CASE UNCHANGED vars
  BY <1>2, <1>12 DEF vars
<1>13. QED
  BY <1>5, <1>6, <1>7, <1>8, <1>9, <1>10, <1>11, <1>12 DEF Next, Inside, Finished

\* No step lets a thread run again.
LEMMA RunningBefore ==
    ASSUME TypeInv, [Next]_vars, NEW t \in Thread, state'[t] = "RUNNING"
    PROVE  state[t] = "RUNNING"
<1>1. state \in [Thread -> {"RUNNING", "COMPLETED", "CRASHED"}]
  BY DEF TypeInv, TypeOK
<1>2. CASE UNCHANGED state
  BY <1>2
<1>3. CASE ProcessCrashExit
  BY <1>1, <1>3 DEF ProcessCrashExit, LastYield
<1>4. CASE User
  BY <1>2, <1>3, <1>4 DEF User, Call, CrashedCall, CallThreadFinish, CallShutdown,
                          InsertCrash, NoBacktrack, schVars
<1>5. CASE Exec
  <2>1. CASE ExecThreadFinish
    BY <1>1, <2>1 DEF ExecThreadFinish, LastYield
  <2>2. CASE ExecShutdown
    BY <1>1, <2>2 DEF ExecShutdown, Completed
  <2>3. QED
    BY <1>2, <1>5, <2>1, <2>2
       DEF Exec, ExecStore, ExecCreate, ExecFlush, ExecMfence, ExecRmwr, ExecLoad, ExecNothing, schVars
<1>6. CASE Drain
  <2>1. CASE PopClflush
    BY <1>2, <1>3, <2>1 DEF PopClflush, CrashSelf, schVars
  <2>2. CASE FlushOne
    BY <1>2, <1>3, <2>2 DEF FlushOne, CrashSelf, schVars
  <2>3. CASE ShutdownNext
    BY <1>1, <2>3 DEF ShutdownNext, Completed
  <2>4. CASE ShutdownDone
    BY <2>4 DEF ShutdownDone, LastYield
  <2>5. QED
    BY <1>2, <1>6, <2>1, <2>2, <2>3, <2>4
       DEF Drain, PopStore, PopClflushopt, PopSfence, SfenceDone, DrainDone, DrainThenRead,
           schVars
<1>7. CASE Read
  BY <1>2, <1>7, WalkSteps DEF ReadFrame, schVars
<1>8. CASE ProcessStoreBuffer \/ Return \/ RmwSecond
  BY <1>2, <1>8 DEF ProcessStoreBuffer, Return, RmwSecond, schVars
<1>9. CASE UNCHANGED vars
  BY <1>2, <1>9 DEF vars, schVars
<1>10. QED
  BY <1>4, <1>5, <1>6, <1>7, <1>8, <1>9 DEF Next, Inside, Finished

\* How a drain ends: with empty buffers, or with a holder that does not run.
LEMMA DrainEnds ==
    ASSUME TypeInv, FenceOK, Lively, PlainBuffers, [Next]_vars, phase = "drain",
           state'[active_thread] = "RUNNING"
    PROVE  \/ storeBuffer'[active_thread] = <<>>
           \/ phase' = "drain" /\ UNCHANGED active_thread
<1>0. active_thread \in Thread /\ state \in [Thread -> {"RUNNING", "COMPLETED", "CRASHED"}]
  BY DEF TypeInv, TypeOK
<1>1. ~ProcessCrashExit
  BY <1>0 DEF ProcessCrashExit, LastYield, Me
<1>2. ~User
  BY <1>1 DEF User, Call, CrashedCall, CallThreadFinish, CallShutdown, InsertCrash,
              NoBacktrack, InUserCode
<1>3. ~Exec
  BY DEF Exec, ExecStore, ExecCreate, ExecFlush, ExecMfence, ExecRmwr, ExecLoad, ExecNothing,
         ExecThreadFinish, ExecShutdown, Executing
<1>4. CASE Drain
  <2>1. CASE PopStore \/ PopClflushopt \/ PopSfence \/ SfenceDone
    BY <2>1 DEF PopStore, PopClflushopt, PopSfence, SfenceDone, schVars
  <2>2. CASE PopClflush
    BY <1>1, <2>2 DEF PopClflush, CrashSelf, schVars
  <2>3. CASE FlushOne
    BY <1>1, <2>3 DEF FlushOne, CrashSelf, schVars, ctlVars
  <2>4. CASE DrainDone \/ DrainThenRead
    <3>1. Cur.type # "SHUTDOWN" /\ storeBuffer[tgt] = <<>> /\ UNCHANGED storeBuffer
      BY <2>4 DEF DrainDone, DrainThenRead, Drained, thrVars
    <3>2. QED
      BY <3>1 DEF PlainBuffers
  <2>5. CASE ShutdownNext
    BY <2>5 DEF ShutdownNext, StartDrain
  <2>6. CASE ShutdownDone
    <3>1. /\ ShuttingDown /\ LaterThreads = {} /\ state' = state
      BY <2>6 DEF ShutdownDone, ShuttingDown, Drained, LastYield
    <3>2. active_thread <= tgt
      <4>1. active_thread \in Int /\ tgt \in Int
        BY <1>0, ProcAssumption DEF Thread, TypeInv, TypeOK
      <4>2. ~(active_thread > tgt)
        BY <1>0, <3>1 DEF LaterThreads, Me
      <4>3. QED
        BY <4>1, <4>2
    <3>3. QED
      BY <1>0, <3>1, <3>2 DEF Lively, Me
  <2>7. QED
    BY <1>4, <2>1, <2>2, <2>3, <2>4, <2>5, <2>6 DEF Drain
<1>5. ~Read
  BY WalkFrame
<1>6. ~(ProcessStoreBuffer \/ Return \/ RmwSecond)
  BY DEF ProcessStoreBuffer, Return, RmwSecond
<1>7. CASE UNCHANGED vars
  BY <1>7 DEF vars, schVars, ctlVars
<1>8. QED
  BY <1>2, <1>3, <1>4, <1>5, <1>6, <1>7 DEF Next, Inside, Finished

\* A drain other than a shutdown's is of the active thread's own buffers.
LEMMA DrainsOwn ==
    ASSUME TypeInv, PlainBuffers, [Next]_vars, phase' = "drain", Cur'.type # "SHUTDOWN"
    PROVE  tgt' = active_thread'
<1>1. ~ \E st : LastYield(st)
  BY DEF LastYield
<1>2. CASE UNCHANGED <<phase, tgt, pending, active_thread>>
  BY <1>2 DEF PlainBuffers, Cur
<1>3. ~User
  BY <1>1 DEF User, Call, CrashedCall, CallThreadFinish, CallShutdown, InsertCrash,
              NoBacktrack, InUserCode, ProcessCrashExit, ctlVars
<1>4. CASE Exec
  <2>1. CASE ExecStore \/ ExecMfence \/ ExecRmwr \/ ExecShutdown
    BY <2>1 DEF ExecStore, ExecMfence, ExecRmwr, ExecShutdown, StartDrain, Post, schVars
  <2>2. ~(ExecCreate \/ ExecFlush \/ ExecLoad \/ ExecNothing \/ ExecThreadFinish)
    BY <1>1 DEF ExecCreate, ExecFlush, ExecLoad, ExecNothing, ExecThreadFinish, Post, BuildReadFrom
  <2>3. QED
    BY <1>4, <2>1, <2>2 DEF Exec
<1>5. CASE Drain
  <2>1. CASE PopClflush
    BY <1>1, <1>2, <2>1 DEF PopClflush, CrashSelf, ProcessCrashExit, schVars
  <2>2. CASE FlushOne
    BY <1>1, <1>2, <2>2 DEF FlushOne, CrashSelf, ProcessCrashExit, schVars, ctlVars
  <2>3. CASE PopStore \/ PopClflushopt \/ PopSfence \/ SfenceDone
    BY <1>2, <2>3 DEF PopStore, PopClflushopt, PopSfence, SfenceDone, schVars
  <2>4. ~(DrainDone \/ DrainThenRead \/ ShutdownNext \/ ShutdownDone)
    BY <1>1 DEF DrainDone, DrainThenRead, ShutdownNext, ShutdownDone, Post, BuildReadFrom, Cur
  <2>5. QED
    BY <1>5, <2>1, <2>2, <2>3, <2>4 DEF Drain
<1>6. CASE Read
  <2>1. phase' # "drain"
    BY <1>6, WalkSteps, WalkFrame DEF Advance, ReadCrash, ctlVars
  <2>2. QED
    BY <2>1
<1>7. ~(ProcessStoreBuffer \/ Return \/ RmwSecond)
  BY DEF ProcessStoreBuffer, Return, RmwSecond
<1>8. CASE UNCHANGED vars
  BY <1>2, <1>8 DEF vars, ctlVars, schVars
<1>9. QED
  BY <1>3, <1>4, <1>5, <1>6, <1>7, <1>8 DEF Next, Inside, Finished

\* Every step keeps PlainBuffers.
LEMMA StepPlain ==
    ASSUME PlainStores, TypeInv, FenceOK, Lively, PlainBuffers, [Next]_vars
    PROVE  PlainBuffers'
<1>0. /\ storeBuffer \in [Thread -> Seq(Action)] /\ storeBuffer' \in [Thread -> Seq(Action)]
      /\ active_thread \in Thread
  BY StepTypeInv DEF TypeInv, TypeOK
<1>1. ASSUME NEW t \in Thread, state'[t] = "RUNNING",
             ~(phase' = "drain" /\ t = active_thread'),
             NEW i \in 1 .. Len(storeBuffer'[t]), storeBuffer'[t][i].type \in Stores
      PROVE  storeBuffer'[t][i].type = "NONATOMIC_STORE"
  <2>1. state[t] = "RUNNING"
    BY <1>1, RunningBefore
  <2>2. ~(phase = "drain" /\ t = active_thread)
    <3> SUFFICES ASSUME phase = "drain", t = active_thread PROVE FALSE
      OBVIOUS
    <3>1. storeBuffer'[t] = <<>>
      BY <1>1, DrainEnds
    <3>2. QED
      BY <1>1, <3>1
  <2>3. CASE \E j \in 1 .. Len(storeBuffer[t]) : storeBuffer'[t][i] = storeBuffer[t][j]
    BY <1>1, <2>1, <2>2, <2>3 DEF PlainBuffers
  <2>4. CASE IsId(storeBuffer'[t][i])
    BY <2>4 DEF IsId
  <2>5. CASE t = active_thread /\ ExecStore /\ storeBuffer'[t][i].type = Cur.type
    <3>1. UNCHANGED active_thread
      BY <2>5 DEF ExecStore, schVars
    <3>2. phase' # "drain"
      BY <1>1, <2>5, <3>1
    <3>3. Cur.type # "ATOMIC_RMW" /\ ~Cur.sc
      BY <2>5, <3>2 DEF ExecStore, StartDrain
    <3>4. Cur.type # "ATOMIC_INIT" /\ (Cur.type = "ATOMIC_STORE" => Cur.sc)
      BY <1>0 DEF PlainBuffers, Cur
    <3>5. QED
      BY <1>1, <2>5, <3>3, <3>4 DEF Stores
  <2>6. QED
    BY <1>1, <2>3, <2>4, <2>5, BufferEntries
<1>2. \A t \in Thread : /\ pending'[t].type # "ATOMIC_INIT"
                        /\ pending'[t].type = "ATOMIC_STORE" => pending'[t].sc
  BY PlainPending
<1>3. phase' = "drain" /\ Cur'.type # "SHUTDOWN" => tgt' = active_thread'
  BY DrainsOwn
<1>4. QED
  BY <1>1, <1>2, <1>3 DEF PlainBuffers

\* If the newest buffered store to a byte is a plain one, local_bypassing finds it.
LEMMA BypassFinds ==
    ASSUME TypeInv, NEW b \in Byte, b \in Cur.fp,
           NEW i \in DOMAIN storeBuffer[active_thread],
           storeBuffer[active_thread][i].type = "NONATOMIC_STORE",
           storeBuffer[active_thread][i].loc = Cur.loc,
           b \in storeBuffer[active_thread][i].fp,
           \A j \in DOMAIN storeBuffer[active_thread] :
               /\ storeBuffer[active_thread][j].type = "NONATOMIC_STORE"
               /\ storeBuffer[active_thread][j].loc = Cur.loc
               /\ b \in storeBuffer[active_thread][j].fp
               => j <= i
    PROVE  Local[b] = storeBuffer[active_thread][i]
<1> DEFINE buf == storeBuffer[active_thread]
           own == {k \in DOMAIN buf : /\ buf[k].type = "NONATOMIC_STORE"
                                      /\ buf[k].loc = Cur.loc
                                      /\ b \in buf[k].fp \cap Cur.fp}
           m == CHOOSE k \in own : \A j \in own : j <= k
<1>1. Local[b] = IF own = {} THEN NoAct ELSE buf[m]
  BY DEF Local, LocalBypassing
<1>2. buf \in Seq(Action)
  BY DEF TypeInv, TypeOK
<1>3. DOMAIN buf \subseteq Int
  BY <1>2
<1>4. i \in own /\ \A j \in own : j <= i
  OBVIOUS
<1>5. own \subseteq Int
  BY <1>3
<1> HIDE DEF own
<1>6. m \in own /\ \A j \in own : j <= m
  BY <1>4, Zenon
<1> HIDE DEF m, buf
<1>7. m <= i /\ i <= m /\ m \in Int /\ i \in Int
  BY <1>4, <1>5, <1>6
<1>8. m = i
  BY <1>7
<1>9. QED
  BY <1>1, <1>4, <1>8 DEF buf

\* In programs that make only plain and seq_cst stores, and read-modify-writes, no
\* load steps back behind its thread's own buffered stores (local_bypassing).  For
\* the other atomic stores it does, as the run `release' shows.
THEOREM OwnWritesRead ==
    ASSUME PlainStores PROVE Spec => []ReadsOwnWrites
<1> DEFINE Inv == OwnKept /\ PlainBuffers
<1>1. ASSUME Init PROVE Inv
  <2>1. \A t \in Thread : storeBuffer[t] = <<>> /\ pending[t] = NoAct
    BY <1>1 DEF Init
  <2>2. PlainBuffers
    BY <1>1, <2>1, NoActFacts DEF PlainBuffers, Init
  <2>3. OwnKept
    BY <1>1 DEF OwnKept, InLoad, Loaded, Init
  <2>4. QED
    BY <2>2, <2>3
<1>2. ASSUME TypeInv, FenceOK /\ Lively, ListInv, Inv, [Next]_vars PROVE Inv'
  BY <1>2, StepOwnKept, StepPlain
<1>3. ASSUME TypeInv, FenceOK /\ Lively, Inv PROVE ReadsOwnWrites
  <2> SUFFICES ASSUME Loaded, NEW b \in Cur.fp,
                      NEW i \in DOMAIN storeBuffer[active_thread],
                      storeBuffer[active_thread][i].type \in Stores,
                      storeBuffer[active_thread][i].loc = Cur.loc,
                      b \in storeBuffer[active_thread][i].fp,
                      {j \in DOMAIN storeBuffer[active_thread] :
                            /\ j > i
                            /\ storeBuffer[active_thread][j].type \in Stores
                            /\ storeBuffer[active_thread][j].loc = Cur.loc
                            /\ b \in storeBuffer[active_thread][j].fp} = {}
               PROVE  rf[b] = storeBuffer[active_thread][i]
    BY DEF ReadsOwnWrites
  <2>1. /\ storeBuffer[active_thread] \in Seq(Action) /\ active_thread \in Thread
        /\ phase = "post"
    BY <1>3 DEF TypeInv, TypeOK, Loaded
  <2>2. /\ DOMAIN storeBuffer[active_thread] = 1 .. Len(storeBuffer[active_thread])
        /\ Len(storeBuffer[active_thread]) \in Nat
    BY <2>1
  <2>3. state[active_thread] = "RUNNING"
    BY <1>3, <2>1 DEF Lively, ShuttingDown
  <2>4. \A j \in DOMAIN storeBuffer[active_thread] :
          storeBuffer[active_thread][j].type \in Stores =>
              storeBuffer[active_thread][j].type = "NONATOMIC_STORE"
    BY <1>3, <2>1, <2>2, <2>3 DEF PlainBuffers
  <2>5. b \in Byte
    BY <1>3, CurType DEF TypeInv, Action
  <2>6. ASSUME NEW j \in DOMAIN storeBuffer[active_thread],
               storeBuffer[active_thread][j].type = "NONATOMIC_STORE",
               storeBuffer[active_thread][j].loc = Cur.loc,
               b \in storeBuffer[active_thread][j].fp
        PROVE  j <= i
    <3>1. ~(j > i)
      BY <2>6 DEF Stores
    <3>2. QED
      BY <2>2, <3>1
  <2>7. Local[b] = storeBuffer[active_thread][i]
    BY <1>3, <2>4, <2>5, <2>6, BypassFinds
  <2>8. Local[b] # NoAct
    BY <2>4, <2>7, NoActFacts
  <2>9. QED
    BY <1>3, <2>7, <2>8 DEF OwnKept, InLoad
<1>4. QED
  BY <1>1, <1>2, <1>3, TypeInvariant, LivelyInvariant, ListInvariant, PTL DEF Spec

----------------------------------------------------------------------------
\* What comes from memory.

\* With MAX_CRASHES_PER_EXECUTION at 1 there is at most one crashed process.
LEMMA OneCrash ==
    ASSUME MaxCrashes <= 1, CrashLimit, NEW p \in Proc, NEW q \in Proc,
           Crashed(p), Crashed(q)
    PROVE  p = q
<1> DEFINE S == {r \in Proc : Crashed(r)}
<1>1. IsFiniteSet(S) /\ Cardinality(S) \in Nat
  BY SomeProcs
<1>2. Cardinality(S) <= MaxCrashes /\ MaxCrashes \in Nat
  BY BoundAssumption DEF CrashLimit, CrashCount
<1>3. p \in S /\ q \in S
  OBVIOUS
<1> HIDE DEF S
<1>4. Cardinality(S) # 0
  BY <1>1, <1>3, FS_EmptySet
<1>5. Cardinality(S) = 1
  BY <1>1, <1>2, <1>4
<1>6. PICK x : S = {x}
  BY <1>1, <1>5, FS_Singleton
<1>7. QED
  BY <1>3, <1>6

\* What the walk finds lost stays lost.
LEMMA LostStays ==
    ASSUME TypeInv, Read, NEW s \in Action, Lost(s)
    PROVE  Lost(s)'
<1> DEFINE p == ProcOf[s.tid]
           l == LineOf[s.loc]
<1>1. p \in Proc /\ l \in Line /\ s.seq \in Nat
  BY ThreadFacts, AddressAssumption DEF Action
<1>2. /\ crashes[p] # NotCrashed /\ cl_begin[p][l] < s.seq
      /\ cl_end[p][l] # 0 /\ cl_end[p][l] <= s.seq
  BY DEF Lost, Crashed
<1>3. /\ cl_begin \in [Proc -> [Line -> Nat]] /\ cl_end \in [Proc -> [Line -> Nat]]
      /\ crashes \in [Proc -> Nat \cup {NotCrashed}] /\ next_sequence_num \in Nat
  BY DEF TypeInv, TypeOK
<1>4. Reading /\ Looked.seq \in Nat /\ Writer \in Proc /\ ReadLine \in Line
  BY WalkSteps, LookedFacts
<1> SUFFICES /\ crashes'[p] # NotCrashed /\ cl_begin'[p][l] < s.seq
             /\ cl_end'[p][l] # 0 /\ cl_end'[p][l] <= s.seq
  BY DEF Lost, Crashed
<1> HIDE DEF p, l
<1>5. cl_begin[p][l] \in Nat /\ cl_end[p][l] \in Nat
  BY <1>1, <1>3
<1>6. CASE UNCHANGED <<cl_begin, cl_end>>
  <2>1. crashes' = crashes \/ crashes' = [crashes EXCEPT ![Writer] = next_sequence_num]
    BY DEF Read, ReadRunning, ReadCrash, ReadMust, ReadSkip, ReadLost, ReadPersisted
  <2>2. crashes'[p] # NotCrashed
    BY <1>1, <1>2, <1>3, <2>1 DEF NotCrashed
  <2>3. QED
    BY <1>2, <1>6, <2>2
<1>7. CASE ReadRunning /\ Exposes
  <2>1. /\ cl_begin' = [cl_begin EXCEPT ![Writer][ReadLine] = RaiseTo(@, Looked.seq)]
        /\ UNCHANGED <<cl_end, crashes>> /\ ~Crashed(Writer)
    BY <1>7 DEF ReadRunning, MarkPersisted
  <2>2. p # Writer
    BY <1>2, <2>1 DEF Crashed
  <2>3. cl_begin'[p][l] = cl_begin[p][l]
    BY <1>1, <1>3, <2>1, <2>2
  <2>4. QED
    BY <1>2, <2>1, <2>3
<1>8. CASE ReadLost
  <2>1. /\ cl_end' = [cl_end EXCEPT ![Writer][ReadLine] = Looked.seq]
        /\ UNCHANGED <<cl_begin, crashes>> /\ MayPersist
    BY <1>8 DEF ReadLost, Deciding
  <2>2. CASE p = Writer /\ l = ReadLine
    <3>1. cl_end'[p][l] = Looked.seq
      BY <1>1, <1>3, <1>4, <2>1, <2>2
    <3>2. ~(Looked.seq <= cl_begin[p][l]) /\ (cl_end[p][l] = 0 \/ Looked.seq < cl_end[p][l])
      BY <2>1, <2>2 DEF MayPersist, MustPersist
    <3>3. Looked.seq # 0 /\ Looked.seq <= s.seq
      BY <1>1, <1>2, <1>4, <1>5, <3>2
    <3>4. QED
      BY <1>2, <2>1, <3>1, <3>3
  <2>3. CASE ~(p = Writer /\ l = ReadLine)
    <3>1. cl_end'[p][l] = cl_end[p][l]
      BY <1>1, <1>3, <1>4, <2>1, <2>3
    <3>2. QED
      BY <1>2, <2>1, <3>1
  <2>4. QED
    BY <2>2, <2>3
<1>9. CASE ReadPersisted
  <2>1. /\ cl_begin' = [cl_begin EXCEPT ![Writer][ReadLine] = Looked.seq]
        /\ UNCHANGED <<cl_end, crashes>> /\ MayPersist
    BY <1>9 DEF ReadPersisted, Deciding
  <2>2. CASE p = Writer /\ l = ReadLine
    <3>1. cl_begin'[p][l] = Looked.seq
      BY <1>1, <1>3, <1>4, <2>1, <2>2
    <3>2. cl_end[p][l] = 0 \/ Looked.seq < cl_end[p][l]
      BY <2>1, <2>2 DEF MayPersist
    <3>3. Looked.seq < s.seq
      BY <1>1, <1>2, <1>4, <1>5, <3>2
    <3>4. QED
      BY <1>2, <2>1, <3>1, <3>3
  <2>3. CASE ~(p = Writer /\ l = ReadLine)
    <3>1. cl_begin'[p][l] = cl_begin[p][l]
      BY <1>1, <1>3, <1>4, <2>1, <2>3
    <3>2. QED
      BY <1>2, <2>1, <3>1
  <2>4. QED
    BY <2>2, <2>3
<1>10. QED
  BY <1>6, <1>7, <1>8, <1>9
     DEF Read, ReadRunning, ReadCrash, ReadMust, ReadSkip

\* The stores of the list the walk is at.
LEMMA WalkPlace ==
    ASSUME TypeInv, ListInv, Reading
    PROVE  /\ Len(List) \in Nat /\ itr \in 1 .. Len(List) /\ itr \in Nat
           /\ Looked = List[itr] /\ Looked \in Action
           /\ \A j \in 1 .. Len(List) : List[j] \in Action /\ List[j].loc = Cur.loc
           /\ FromMemory \subseteq Byte /\ FromMemory \subseteq Cur.fp
           /\ \A j \in 2 .. Len(List) :
                itr < j => Looked.seq = 0 \/ Looked.seq < List[j].seq
<1>1. TypeOK /\ itr \in Nat /\ itr > 0 /\ itr <= Len(List)
  BY DEF TypeInv, TypeOK, ReadOK, Reading, List
<1>2. List \in Seq(Action) /\ Cur.loc \in Word /\ Cur \in Action
  BY <1>1, CurType DEF TypeOK, List
<1>3. Len(List) \in Nat
  BY <1>2
<1>4. itr \in 1 .. Len(List)
  BY <1>1, <1>3
<1>5. \A j \in 1 .. Len(List) : List[j] \in Action
  BY <1>2, ElementOfSeq
<1>6. ListOK(Cur.loc)
  BY <1>2 DEF ListInv
<1>7. \A j \in 1 .. Len(List) : List[j].loc = Cur.loc
  BY <1>6 DEF ListOK, List
<1>8. Looked = List[itr]
  BY DEF Looked, List
<1>9. FromMemory \subseteq Byte /\ FromMemory \subseteq Cur.fp
  BY <1>2 DEF FromMemory, Action
<1>10. ASSUME NEW j \in 2 .. Len(List), itr < j
       PROVE  Looked.seq = 0 \/ Looked.seq < List[j].seq
  <2>1. CASE itr = 1
    BY <1>6, <1>8, <1>10, <2>1 DEF ListOK, List
  <2>2. CASE itr # 1
    <3>1. itr \in 2 .. Len(List)
      BY <1>3, <1>4, <2>2
    <3>2. QED
      BY <1>6, <1>8, <1>10, <3>1 DEF ListOK, List
  <2>3. QED
    BY <2>1, <2>2
<1>11. QED
  BY <1>1, <1>3, <1>4, <1>5, <1>7, <1>8, <1>9, <1>10

\* A step that passes over a store: a store of the crashed process that is as good
\* as the one looked at is lost with it, or skipped with it.
LEMMA PassOver ==
    ASSUME MaxCrashes <= 1, TypeInv, CrashLimit, ListInv, Reading, ReadSkip \/ ReadLost,
           NEW s \in Action, s.loc = Cur.loc, Crashed(ProcOf[s.tid]), Equivalent(s, Looked),
           Looked.seq <= s.seq, NEW b \in Looked.fp, b \in Cur.fp, rf[b] = NoAct
    PROVE  \/ Lost(s)'
           \/ Crashed(ProcOf[s.tid])' /\ itr > 1 /\ Equivalent(s, List[itr - 1])
<1>1. /\ Looked.seq \in Nat /\ s.seq \in Nat /\ Writer \in Proc /\ ReadLine \in Line
      /\ ProcOf[s.tid] \in Proc /\ LineOf[s.loc] = ReadLine
  BY LookedFacts, ThreadFacts DEF Action, ReadLine
<1>2. /\ cl_begin \in [Proc -> [Line -> Nat]] /\ cl_end \in [Proc -> [Line -> Nat]]
  BY DEF TypeInv, TypeOK
<1>3. cl_begin[Writer][ReadLine] \in Nat /\ cl_end[Writer][ReadLine] \in Nat
  BY <1>1, <1>2
<1>4. Crashed(Writer) /\ ~MustPersist /\ UNCHANGED <<crashes, cl_begin>> /\ Read
  BY DEF ReadSkip, ReadLost, Deciding, MayPersist, Read
<1>5. ProcOf[s.tid] = Writer
  BY <1>1, <1>4, OneCrash
<1>6. cl_begin[Writer][ReadLine] < Looked.seq
  BY <1>1, <1>3, <1>4 DEF MustPersist
<1>7. CASE ReadSkip /\ MayPersist
  <2>1. Hits
    BY DEF Hits, Overlaps, Open
  <2>2. EquivSkip
    BY <1>7, <2>1 DEF ReadSkip
  <2>3. itr > 1 /\ Equivalent(Looked, List[itr - 1])
    BY <2>2 DEF EquivSkip, List
  <2>4. Equivalent(s, List[itr - 1])
    BY <2>3 DEF Equivalent
  <2>5. Crashed(ProcOf[s.tid])'
    BY <1>4 DEF Crashed
  <2>6. QED
    BY <2>3, <2>4, <2>5
<1>8. CASE ReadSkip /\ ~MayPersist
  <2>1. cl_end[Writer][ReadLine] # 0 /\ ~(Looked.seq < cl_end[Writer][ReadLine])
    BY <1>4, <1>8 DEF MayPersist
  <2>2. cl_end[Writer][ReadLine] <= s.seq /\ cl_begin[Writer][ReadLine] < s.seq
    BY <1>1, <1>3, <1>6, <2>1
  <2>3. Lost(s)
    BY <1>1, <1>4, <1>5, <2>1, <2>2 DEF Lost
  <2>4. QED
    BY <1>4, <2>3, LostStays
<1>9. CASE ReadLost
  <2>1. cl_end' = [cl_end EXCEPT ![Writer][ReadLine] = Looked.seq]
    BY <1>9 DEF ReadLost
  <2>2. cl_end'[Writer][ReadLine] = Looked.seq
    BY <1>1, <1>2, <2>1
  <2>3. Looked.seq # 0 /\ cl_begin[Writer][ReadLine] < s.seq
    BY <1>1, <1>3, <1>6
  <2>4. QED
    BY <1>1, <1>4, <1>5, <2>2, <2>3 DEF Lost, Crashed
<1>10. QED
  BY <1>7, <1>8, <1>9

\* The walk keeps its account of the stores it has passed.
LEMMA WalkPassed ==
    ASSUME MaxCrashes <= 1, TypeInv, CrashLimit, ListInv, Passed, Read
    PROVE  Passed'
<1>1. /\ Reading /\ Cur' = Cur /\ List' = List /\ FromMemory' = FromMemory
      /\ phase = "read"
  BY WalkSteps, WalkFrame
<1>2. /\ Len(List) \in Nat /\ itr \in 1 .. Len(List) /\ itr \in Nat
      /\ Looked = List[itr] /\ Looked \in Action
      /\ \A j \in 1 .. Len(List) : List[j] \in Action /\ List[j].loc = Cur.loc
      /\ FromMemory \subseteq Byte /\ FromMemory \subseteq Cur.fp
      /\ \A j \in 2 .. Len(List) :
           itr < j => Looked.seq = 0 \/ Looked.seq < List[j].seq
  BY <1>1, WalkPlace
<1> SUFFICES ASSUME phase' = "read", NEW b \in FromMemory, NEW j \in itr' + 1 .. Len(List),
                    rf'[b] = NoAct, NEW s, s = List[j], b \in s.fp
             PROVE  Lost(s)' \/ (Crashed(ProcOf[s.tid])' /\ Equivalent(s, List[itr']))
  BY <1>1 DEF Passed, Skipped, Equivalent
<1>3. CASE ReadCrash
  <2>1. UNCHANGED <<itr, rf>> /\ crashes' = [crashes EXCEPT ![Writer] = next_sequence_num]
    BY <1>3 DEF ReadCrash, ctlVars
  <2>2. Lost(s) \/ Skipped(s)
    BY <1>1, <2>1 DEF Passed
  <2>3. s \in Action
    BY <1>2, <2>1
  <2>4. Crashed(ProcOf[s.tid]) => Crashed(ProcOf[s.tid])'
    <3>1. /\ crashes \in [Proc -> Nat \cup {NotCrashed}] /\ next_sequence_num \in Nat
          /\ ProcOf[s.tid] \in Proc
      BY <2>3, ThreadFacts DEF TypeInv, TypeOK, Action
    <3>2. QED
      BY <2>1, <3>1 DEF Crashed, NotCrashed
  <2>5. QED
    BY <2>1, <2>2, <2>3, <2>4, LostStays DEF Skipped
<1>4. CASE \/ Advance(KeptRf)
           \/ (ReadSkip \/ ReadLost) /\ Crashed(Writer) /\ ~MustPersist /\ Advance(rf)
  <2>1. itr' = itr - 1 /\ j \in itr .. Len(List) /\ j \in 1 .. Len(List) /\ j \in Nat
    <3>1. itr' = itr - 1
      BY <1>4 DEF Advance
    <3>2. QED
      BY <1>2, <3>1
  <2>2. s \in Action /\ s.loc = Cur.loc
    BY <1>2, <2>1
  <2>3. CASE Advance(KeptRf)
    <3>1. KeptRf[b] = NoAct
      BY <2>3 DEF Advance
    <3>2. rf[b] = NoAct /\ b \notin Looked.fp
      BY <1>1, <1>2, <3>1, FillTakes
    <3>3. j # itr
      BY <1>2, <3>2
    <3>4. j \in itr + 1 .. Len(List)
      BY <1>2, <2>1, <3>3
    <3>5. Lost(s) \/ Skipped(s)
      BY <1>1, <3>2, <3>4 DEF Passed
    <3>6. ~Skipped(s)
      BY <1>2, <3>2 DEF Skipped, Equivalent
    <3>7. QED
      BY <2>2, <3>5, <3>6, LostStays
  <2>4. CASE (ReadSkip \/ ReadLost) /\ Crashed(Writer) /\ ~MustPersist /\ Advance(rf)
    <3>1. rf[b] = NoAct /\ b \in Cur.fp
      BY <1>2, <2>4 DEF Advance
    <3>2. CASE j > itr /\ Lost(s)
      BY <2>2, <3>2, LostStays
    <3>3. CASE j = itr \/ (j > itr /\ Skipped(s))
      <4>1. Crashed(ProcOf[s.tid]) /\ Equivalent(s, Looked)
        BY <1>2, <2>4, <3>3 DEF Skipped, Equivalent, Writer
      <4>2. Looked.seq <= s.seq
        <5>1. Looked.seq \in Nat /\ s.seq \in Nat /\ cl_begin[Writer][ReadLine] \in Nat
          <6>1. Writer \in Proc /\ ReadLine \in Line /\ cl_begin \in [Proc -> [Line -> Nat]]
            BY <1>1, LookedFacts DEF TypeInv, TypeOK
          <6>2. Looked.seq \in Nat /\ s.seq \in Nat
            BY <1>1, <2>2, LookedFacts DEF Action
          <6>3. QED
            BY <6>1, <6>2
        <5>2. CASE j = itr
          BY <1>2, <5>1, <5>2
        <5>3. CASE j > itr
          <6>1. Looked.seq # 0
            BY <2>4, <5>1 DEF MustPersist
          <6>2. j \in 2 .. Len(List)
            BY <1>2, <2>1, <5>3
          <6>3. Looked.seq < s.seq
            BY <1>2, <5>3, <6>1, <6>2
          <6>4. QED
            BY <5>1, <6>3
        <5>4. QED
          BY <3>3, <5>2, <5>3
      <4>3. b \in Looked.fp
        BY <4>1 DEF Equivalent
      <4>4. QED
        BY <1>1, <2>1, <2>2, <2>4, <3>1, <4>1, <4>2, <4>3, PassOver
    <3>4. j = itr \/ (j > itr /\ (Lost(s) \/ Skipped(s)))
      <4>1. CASE j # itr
        <5>1. j \in itr + 1 .. Len(List)
          BY <1>2, <2>1, <4>1
        <5>2. Lost(s) \/ Skipped(s)
          BY <1>1, <3>1, <5>1 DEF Passed
        <5>3. j > itr
          BY <1>2, <5>1
        <5>4. QED
          BY <5>2, <5>3
      <4>2. QED
        BY <4>1
    <3>5. QED
      BY <3>2, <3>3, <3>4
  <2>5. QED
    BY <1>4, <2>3, <2>4
<1>5. QED
  BY <1>3, <1>4, WalkSteps

\* The walk keeps its account of the bytes it has found.
LEMMA WalkTraced ==
    ASSUME TypeInv, ListInv, Passed, Traced, Read PROVE Traced'
<1>1. /\ Reading /\ Cur' = Cur /\ List' = List /\ FromMemory' = FromMemory
      /\ phase = "read" /\ InLoad
  BY WalkSteps, WalkFrame
<1>2. /\ Len(List) \in Nat /\ itr \in 1 .. Len(List) /\ itr \in Nat
      /\ Looked = List[itr] /\ Looked \in Action
      /\ \A j \in 1 .. Len(List) : List[j] \in Action /\ List[j].loc = Cur.loc
      /\ FromMemory \subseteq Byte /\ FromMemory \subseteq Cur.fp
  BY <1>1, WalkPlace
<1>3. \A s \in Action : Lost(s) => Lost(s)'
  BY LostStays
<1>4. ASSUME InLoad', NEW b \in FromMemory, rf'[b] # NoAct
      PROVE  \E k \in 1 .. Len(List) :
                 /\ List[k] = rf'[b]
                 /\ \A j \in k + 1 .. Len(List) :
                      b \in List[j].fp => Lost(List[j])' \/ List[j].val = rf'[b].val
  <2>0. \A k \in 1 .. Len(List) : \A j \in k + 1 .. Len(List) :
          /\ j \in 1 .. Len(List) /\ List[j] \in Action
          /\ Lost(List[j]) => Lost(List[j])'
    <3> SUFFICES ASSUME NEW k \in 1 .. Len(List), NEW j \in k + 1 .. Len(List)
                 PROVE  /\ j \in 1 .. Len(List) /\ List[j] \in Action
                        /\ Lost(List[j]) => Lost(List[j])'
      OBVIOUS
    <3>1. j \in 1 .. Len(List)
      BY <1>2
    <3>2. List[j] \in Action
      BY <1>2, <3>1
    <3>3. Lost(List[j]) => Lost(List[j])'
      <4> SUFFICES ASSUME NEW s, s = List[j], Lost(s) PROVE Lost(List[j])'
        OBVIOUS
      <4>1. Lost(s)'
        BY <1>3, <3>2
      <4>2. s = (List[j])'
        BY <1>1
      <4>3. QED
        BY <1>1, <4>1, <4>2 DEF Lost
    <3>4. QED
      BY <3>1, <3>2, <3>3
  <2>1. \/ rf' = rf
        \/ rf' = KeptRf
    BY WalkSteps DEF ReadCrash, ctlVars, Advance
  <2>2. CASE rf[b] # NoAct
    <3>1. rf'[b] = rf[b]
      BY <1>1, <1>2, <2>1, <2>2, FillTakes
    <3>2. PICK k \in 1 .. Len(List) :
                 /\ List[k] = rf[b]
                 /\ \A j \in k + 1 .. Len(List) :
                      b \in List[j].fp => Lost(List[j]) \/ List[j].val = rf[b].val
      BY <1>1, <2>2 DEF Traced
    <3>3. QED
      BY <2>0, <3>1, <3>2
  <2>3. CASE rf[b] = NoAct
    <3>1. rf'[b] = Looked
      BY <1>1, <1>2, <1>4, <2>1, <2>3, FillTakes
    <3>2. \A j \in itr + 1 .. Len(List) :
            b \in List[j].fp => Lost(List[j]) \/ List[j].val = Looked.val
      BY <1>1, <1>2, <2>3 DEF Passed, Skipped, Equivalent
    <3>3. QED
      BY <1>2, <2>0, <3>1, <3>2
  <2>4. QED
    BY <2>2, <2>3
<1>5. Loaded' => Open(rf', Cur) = {}
  BY <1>1, WalkSteps DEF Loaded, ReadCrash, ctlVars, Advance
<1>6. QED
  BY <1>1, <1>4, <1>5 DEF Traced, Open

\* Every step keeps both accounts.
LEMMA StepNewest ==
    ASSUME MaxCrashes <= 1, TypeInv, FenceOK, CrashLimit, ListInv, Passed, Traced, [Next]_vars
    PROVE  Passed' /\ Traced'
<1>1. CASE ~InLoad'
  BY <1>1 DEF Passed, Traced, InLoad
<1>2. CASE InLoad' /\ (ExecLoad \/ DrainThenRead)
  <2>1. /\ Cur' = Cur /\ rf' = Local /\ FromMemory' = FromMemory
        /\ phase' = "read" => itr' = Len(List')
        /\ phase' = "post" => Open(Local, Cur) = {}
    BY <1>2, LoadBegins
  <2>2. \A b \in FromMemory' : rf'[b] = NoAct
    BY <2>1 DEF FromMemory, Local
  <2>3. Len(List') \in Nat
    <3>1. obj_to_wr' \in [Word -> Seq(Action)] /\ Cur'.loc \in Word
      BY <2>1, CurType, StepTypeInv DEF TypeInv, TypeOK
    <3>2. QED
      BY <3>1 DEF List
  <2>4. phase' = "read" => itr' + 1 .. Len(List') = {}
    BY <2>1, <2>3
  <2>5. Passed'
    BY <2>4 DEF Passed
  <2>6. Traced'
    BY <2>1, <2>2 DEF Traced, Loaded, Open
  <2>7. QED
    BY <2>5, <2>6
<1>3. CASE Read
  BY <1>3, WalkPassed, WalkTraced
<1>4. CASE UNCHANGED vars
  <2>1. /\ Cur' = Cur /\ List' = List /\ FromMemory' = FromMemory
        /\ UNCHANGED <<rf, phase, itr, crashes, cl_begin, cl_end>>
    BY <1>4, StutterFrame
  <2>2. ASSUME NEW s PROVE Lost(s)' = Lost(s) /\ Skipped(s)' = Skipped(s)
    BY <2>1 DEF Lost, Skipped, Crashed
  <2>3. Passed'
    <3> SUFFICES ASSUME phase = "read", NEW b \in FromMemory, NEW j \in itr + 1 .. Len(List),
                        rf[b] = NoAct, b \in List[j].fp
                 PROVE  Lost(List[j]) \/ Skipped(List[j])
      BY <2>1, <2>2 DEF Passed
    <3>1. QED
      BY DEF Passed
  <2>4. InLoad' = InLoad /\ Loaded' = Loaded /\ Open(rf, Cur)' = Open(rf, Cur)
    BY <2>1 DEF InLoad, Loaded, Open
  <2>5. Traced'
    BY <2>1, <2>2, <2>4 DEF Traced
  <2>6. QED
    BY <2>3, <2>5
<1>5. QED
  BY <1>1, <1>2, <1>3, <1>4, LoadFrame DEF ListInv

\* At most one process crashes in an execution (config.h:12); then what a load takes
\* from memory is, byte by byte, the newest store that is not lost, whatever the
\* interleaving and wherever the crash. With a second crash it need not be: an
\* EQUIV_STORE_SKIP over two crashed writers may pass a store that would survive.
THEOREM NewestSurvives ==
    ASSUME MaxCrashes <= 1 PROVE Spec => []ReadsNewestSurvivor
<1> DEFINE Inv == Passed /\ Traced
<1>1. ASSUME Init PROVE Inv
  BY <1>1 DEF Passed, Traced, InLoad, Loaded, Init
<1>2. ASSUME TypeInv, FenceOK /\ Lively, CrashLimit, ListInv, Inv, [Next]_vars PROVE Inv'
  BY <1>2, StepNewest
<1>3. ASSUME TypeInv, ListInv, Inv PROVE ReadsNewestSurvivor
  <2> SUFFICES ASSUME Loaded, NEW b \in FromMemory, NEW i \in IndexOf(rf[b]),
                      NEW j \in i + 1 .. Len(List), b \in List[j].fp
               PROVE  Lost(List[j]) \/ List[j].val = rf[b].val
    BY DEF ReadsNewestSurvivor, NewestSurvivor, List
  <2>1. /\ obj_to_wr \in [Word -> Seq(Action)] /\ Cur.loc \in Word /\ List \in Seq(Action)
        /\ ListOK(Cur.loc)
    BY <1>3, CurType DEF TypeInv, TypeOK, ListInv, List
  <2>2. rf[b] # NoAct
    BY <1>3 DEF Traced, Open, FromMemory
  <2>3. PICK k \in 1 .. Len(List) :
               /\ List[k] = rf[b]
               /\ \A m \in k + 1 .. Len(List) :
                    b \in List[m].fp => Lost(List[m]) \/ List[m].val = rf[b].val
    BY <1>3, <2>2 DEF Traced, InLoad
  <2>4. Len(List) \in Nat /\ k \in Nat
    BY <2>1
  <2>5. rf[b].loc = Cur.loc
    BY <2>1, <2>3 DEF ListOK, List
  <2>6. i \in 1 .. Len(List) /\ List[i] = rf[b]
    BY <2>1, <2>5 DEF IndexOf, List
  <2>7. \A m \in 1 .. Len(List) : List[m].seq \in Nat
    <3> SUFFICES ASSUME NEW m \in 1 .. Len(List) PROVE List[m].seq \in Nat
      OBVIOUS
    <3>1. List[m] \in Action
      BY <2>1, ElementOfSeq
    <3>2. QED
      BY <3>1 DEF Action
  <2>8. \A m \in 2 .. Len(List) : List[1].seq = 0 \/ List[1].seq < List[m].seq
    BY <2>1 DEF ListOK, List
  <2>9. \A m, n \in 2 .. Len(List) : m < n => List[m].seq < List[n].seq
    BY <2>1 DEF ListOK, List
  <2>10. CASE j > k
    BY <2>3, <2>4, <2>6, <2>10
  <2>11. CASE j = k
    BY <2>3, <2>11
  <2>12. CASE j < k
    <3>1. j \in 2 .. Len(List) /\ k \in 2 .. Len(List) /\ j \in 1 .. Len(List)
      BY <2>3, <2>4, <2>6, <2>12
    <3>2. List[j].seq < List[k].seq /\ List[i].seq = List[k].seq
      BY <2>3, <2>6, <2>9, <2>12, <3>1
    <3>3. i # 1
      BY <2>7, <2>8, <3>1, <3>2
    <3>4. i \in 2 .. Len(List) /\ i < j
      BY <2>4, <2>6, <3>3
    <3>5. List[i].seq < List[j].seq
      BY <2>9, <3>1, <3>4
    <3>6. QED
      BY <2>6, <2>7, <3>1, <3>2, <3>5
  <2>13. QED
    BY <2>4, <2>6, <2>10, <2>11, <2>12
<1>4. QED
  BY <1>1, <1>2, <1>3, TypeInvariant, LivelyInvariant, CrashesBounded, ListInvariant, PTL
  DEF Spec
=============================================================================
