-------------------------- MODULE CXLMemoryProofs --------------------------
(***************************************************************************)
(* What holds of CXLMC's memory model for every program, every number of   *)
(* processes and threads, and every layout of memory.                      *)
(***************************************************************************)
EXTENDS CXLMemory, LeastNatural, FiniteSetTheorems, SequenceTheorems, TLAPS

\* build_read_from's iterator is inside the list it walks.
ReadOK == phase = "read" => itr <= Len(obj_to_wr[Cur.loc])

TypeInv == TypeOK /\ ReadOK

----------------------------------------------------------------------------
\* Actions and what is built from them.

\* Thread 0 exists, threads belong to processes, and there is a word.
LEMMA ThreadFacts ==
    /\ 0 \in Thread
    /\ \A t \in Thread : ProcOf[t] \in Proc
    /\ AnyWord \in Word
<1>1. 0 \in Thread
  BY ProcAssumption DEF Thread
<1>2. \A t \in Thread : ProcOf[t] \in Proc
  BY ProcAssumption
<1>3. AnyWord \in Word
  BY AddressAssumption, Zenon DEF AnyWord
<1>4. QED
  BY <1>1, <1>2, <1>3

\* Act builds actions.
LEMMA ActType ==
    ASSUME NEW ty \in Types, NEW t \in Thread, NEW w \in Word, NEW fp \in SUBSET Byte,
           NEW v \in Val \cup {InitVal}, NEW sc \in BOOLEAN
    PROVE  Act(ty, t, w, fp, v, sc) \in Action
  BY DEF Act, Action

\* The missing action is an action.
LEMMA NoActType == NoAct \in Action
<1>1. "NONE" \in Types /\ {} \in SUBSET Byte /\ InitVal \in Val \cup {InitVal}
  BY DEF Types
<1>2. QED
  BY <1>1, ThreadFacts, ActType DEF NoAct

\* The empty read-from map is one.
LEMMA NoRfType == NoRf \in [Byte -> Action]
  BY NoActType DEF NoRf

\* The copy constructor returns an action.
LEMMA CopyType ==
    ASSUME NEW a \in Action PROVE CopyAction(a) \in Action
  BY DEF CopyAction, Action

\* Every API call has an action type.
LEMMA CallTypeType ==
    ASSUME NEW name \in CallNames PROVE CallType(name) \in Types
  BY DEF CallNames, CallType, Types

\* The API calls create actions.
LEMMA IssuedType ==
    ASSUME NEW t \in Thread, NEW name \in CallNames, NEW a \in Issued(t, name)
    PROVE  a \in Action
<1> DEFINE type == CallType(name)
<1>1. PICK w \in Words(type), fp \in Footprints(type), v \in Values(type) :
          a = Act(type, t, w, fp, v, name = "atomic_store_sc")
  BY DEF Issued
<1>2. type \in Types
  BY CallTypeType
<1>3. w \in Word
  BY ThreadFacts DEF Words
<1>4. fp \in SUBSET Byte
  BY AddressAssumption DEF Footprints
<1>5. v \in Val \cup {InitVal}
  BY DEF Values
<1>6. (name = "atomic_store_sc") \in BOOLEAN
  OBVIOUS
<1> HIDE DEF type
<1>7. QED
  BY <1>1, <1>2, <1>3, <1>4, <1>5, <1>6, ActType

\* get_overlaps keeps the read-from map one.
LEMMA FillType ==
    ASSUME NEW r \in [Byte -> Action], NEW a \in Action, NEW b
    PROVE  Fill(r, a, b) \in [Byte -> Action]
  BY DEF Fill

\* What local_bypassing returns for a byte is an entry of the store buffer or open.
LEMMA LocalBypassingType ==
    ASSUME TypeOK, NEW t \in Thread, NEW a
    PROVE  LocalBypassing(t, a) \in [Byte -> Action]
<1> DEFINE Own(b) == {i \in DOMAIN storeBuffer[t] :
                        /\ storeBuffer[t][i].type = "NONATOMIC_STORE"
                        /\ storeBuffer[t][i].loc = a.loc
                        /\ b \in storeBuffer[t][i].fp \cap a.fp}
           Newest(b) == CHOOSE i \in Own(b) : \A j \in Own(b) : j <= i
           Source(b) == IF Own(b) = {} THEN NoAct ELSE storeBuffer[t][Newest(b)]
<1>1. storeBuffer[t] \in Seq(Action)
  BY DEF TypeOK
<1>2. ASSUME NEW b \in Byte, Own(b) # {} PROVE storeBuffer[t][Newest(b)] \in Action
  <2>1. Own(b) \subseteq 1 .. Len(storeBuffer[t]) /\ Len(storeBuffer[t]) \in Nat
    BY <1>1
  <2>2. \E i \in Own(b) : \A j \in Own(b) : j <= i
    <3> HIDE DEF Own
    <3>1. Own(b) \subseteq Nat /\ \A x \in Own(b) : x <= Len(storeBuffer[t])
      BY <2>1
    <3>2. QED
      BY <1>2, <2>1, <3>1, NatMax
  <2>3. Newest(b) \in Own(b)
    <3> HIDE DEF Own
    <3>1. QED
      BY <2>2, Zenon
  <2> HIDE DEF Newest, Own
  <2>4. QED
    BY <1>1, <2>1, <2>3, ElementOfSeq
<1>3. \A b \in Byte : Source(b) \in Action
  <2> HIDE DEF Newest, Own
  <2>1. QED
    BY <1>2, NoActType
<1>4. LocalBypassing(t, a) = [b \in Byte |-> Source(b)]
  BY Zenon DEF LocalBypassing
<1> HIDE DEF Source
<1>5. QED
  BY <1>3, <1>4

----------------------------------------------------------------------------
\* Type correctness, action by action.

\* The initial state satisfies the type invariant.
LEMMA InitType == ASSUME Init PROVE TypeInv
<1>1. TypeOK
  <2>1. /\ storeBuffer \in [Thread -> Seq(Action)] /\ flushBuffer \in [Thread -> Seq(Action)]
        /\ obj_to_wr \in [Word -> Seq(Action)]
    BY EmptySeq DEF Init
  <2>2. /\ last_sfence \in [Thread -> Nat] /\ ops \in [Thread -> Nat]
        /\ cl_to_last_wr_clf \in [Thread -> [Line -> Nat]]
        /\ promised \in [Thread -> [Line -> Nat]]
    BY DEF Init
  <2>3. /\ cl_begin \in [Proc -> [Line -> Nat]] /\ cl_end \in [Proc -> [Line -> Nat]]
        /\ seenMax \in [Proc -> [Line -> Nat]] /\ missedMin \in [Proc -> [Line -> Nat]]
        /\ crashes \in [Proc -> Nat \cup {NotCrashed}]
    BY DEF Init
  <2>4. backtrack \in [Proc -> BOOLEAN] /\ fence \in BOOLEAN
    BY Zenon DEF Init
  <2>5. /\ next_sequence_num \in Nat /\ completed_procs \subseteq Proc
        /\ raw \in [Word -> Val \cup {InitVal}]
        /\ state \in [Thread -> {"RUNNING", "COMPLETED", "CRASHED"}]
        /\ active_thread \in Thread /\ pending \in [Thread -> Action]
        /\ phase \in {"run", "drain", "read", "post", "evict", "rmw", "done"}
        /\ tgt \in Thread /\ todo \in Nat /\ itr \in Nat /\ rf \in [Byte -> Action]
    BY ThreadFacts, NoActType, NoRfType DEF Init
  <2>6. QED
    BY <2>1, <2>2, <2>3, <2>4, <2>5 DEF TypeOK
<1>2. ReadOK
  BY DEF Init, ReadOK
<1>3. QED
  BY <1>1, <1>2 DEF TypeInv

\* The token's new holder and the thread states after finalize and last_yield.
LEMMA LastYieldType ==
    ASSUME NEW st \in [Thread -> {"RUNNING", "COMPLETED", "CRASHED"}], LastYield(st)
    PROVE  /\ state' \in [Thread -> {"RUNNING", "COMPLETED", "CRASHED"}]
           /\ active_thread' \in Thread
           /\ phase' \in {"run", "done"}
           /\ tgt' \in Thread /\ todo' \in Nat /\ fence' \in BOOLEAN
           /\ rf' \in [Byte -> Action] /\ itr' \in Nat
  BY ThreadFacts, NoRfType DEF LastYield, ClearCtl

\* The exit of a crashed process keeps the scheduler's and the control state's types.
LEMMA ProcessCrashExitType ==
    ASSUME TypeOK, ProcessCrashExit
    PROVE  /\ state' \in [Thread -> {"RUNNING", "COMPLETED", "CRASHED"}]
           /\ active_thread' \in Thread
           /\ phase' \in {"run", "done"}
           /\ tgt' \in Thread /\ todo' \in Nat /\ fence' \in BOOLEAN
           /\ rf' \in [Byte -> Action] /\ itr' \in Nat
           /\ pending' \in [Thread -> Action]
<1> DEFINE st == [t \in Thread |-> IF ProcOf[t] = Me /\ state[t] = "RUNNING"
                                   THEN "CRASHED" ELSE state[t]]
<1>1. st \in [Thread -> {"RUNNING", "COMPLETED", "CRASHED"}]
  BY DEF TypeOK
<1>2. LastYield(st)
  BY DEF ProcessCrashExit
<1>3. pending' \in [Thread -> Action]
  BY NoActType DEF ProcessCrashExit, TypeOK
<1> HIDE DEF st
<1>4. QED
  BY <1>1, <1>2, <1>3, LastYieldType

\* A step that ends in the program or in another phase than "read" says nothing
\* about the iterator.
LEMMA CallTypeInv == ASSUME TypeInv, Call PROVE TypeInv'
<1>1. PICK name \in Calls[active_thread] :
          \E a \in Issued(active_thread, name) :
              pending' = [pending EXCEPT ![active_thread] = a]
  BY DEF Call
<1>2. name \in CallNames
  BY <1>1, BoundAssumption DEF TypeInv, TypeOK
<1>3. PICK a \in Issued(active_thread, name) :
          pending' = [pending EXCEPT ![active_thread] = a]
  BY <1>1
<1>4. pending' \in [Thread -> Action]
  BY <1>2, <1>3, IssuedType DEF TypeInv, TypeOK
<1>5. active_thread' \in Thread /\ ops' \in [Thread -> Nat]
  BY DEF Call, CountCall, TypeInv, TypeOK
<1>6. phase' = "run"
  BY DEF Call, InUserCode, ctlVars
<1>7. QED
  BY <1>4, <1>5, <1>6
     DEF Call, TypeInv, TypeOK, ReadOK, thrVars, memVars, procVars, ctlVars, histVars

\* CrashedCall keeps the type invariant.
LEMMA CrashedCallTypeInv == ASSUME TypeInv, CrashedCall PROVE TypeInv'
  BY ProcessCrashExitType
     DEF CrashedCall, TypeInv, TypeOK, ReadOK, thrVars, memVars, procVars, histVars

\* CallThreadFinish keeps the type invariant.
LEMMA CallThreadFinishTypeInv == ASSUME TypeInv, CallThreadFinish PROVE TypeInv'
<1>1. "THREAD_FINISH" \in Types /\ {} \in SUBSET Byte /\ InitVal \in Val \cup {InitVal}
  BY DEF Types
<1>2. Act("THREAD_FINISH", active_thread, AnyWord, {}, InitVal, FALSE) \in Action
  BY <1>1, ThreadFacts, ActType DEF TypeInv, TypeOK
<1>3. pending' \in [Thread -> Action]
  BY <1>2 DEF CallThreadFinish, TypeInv, TypeOK
<1>4. active_thread' \in Thread /\ phase' = "run"
  BY DEF CallThreadFinish, InUserCode, ctlVars
<1>5. QED
  BY <1>3, <1>4
     DEF CallThreadFinish, TypeInv, TypeOK, ReadOK, thrVars, memVars, procVars, ctlVars, histVars

\* CallShutdown keeps the type invariant.
LEMMA CallShutdownTypeInv == ASSUME TypeInv, CallShutdown PROVE TypeInv'
<1>1. "SHUTDOWN" \in Types /\ {} \in SUBSET Byte /\ InitVal \in Val \cup {InitVal}
  BY DEF Types
<1>2. Act("SHUTDOWN", active_thread, AnyWord, {}, InitVal, FALSE) \in Action
  BY <1>1, ThreadFacts, ActType DEF TypeInv, TypeOK
<1>3. pending' \in [Thread -> Action]
  BY <1>2 DEF CallShutdown, TypeInv, TypeOK
<1>4. active_thread' \in Thread /\ phase' = "run"
  BY DEF CallShutdown, InUserCode, ctlVars
<1>5. QED
  BY <1>3, <1>4
     DEF CallShutdown, TypeInv, TypeOK, ReadOK, thrVars, memVars, procVars, ctlVars, histVars

\* InsertCrash keeps the type invariant.
LEMMA InsertCrashTypeInv == ASSUME TypeInv, InsertCrash PROVE TypeInv'
<1>1. crashes' \in [Proc -> Nat \cup {NotCrashed}]
  BY DEF InsertCrash, TypeInv, TypeOK
<1>2. QED
  BY <1>1, ProcessCrashExitType
     DEF InsertCrash, TypeInv, TypeOK, ReadOK, thrVars, memVars, histVars

\* NoBacktrack keeps the type invariant.
LEMMA NoBacktrackTypeInv ==
    ASSUME TypeInv, NEW on \in BOOLEAN, NoBacktrack(on) PROVE TypeInv'
<1>1. ops' \in [Thread -> Nat] /\ phase' = "run"
  BY DEF NoBacktrack, InUserCode, CountCall, TypeInv, TypeOK, ctlVars
<1>2. backtrack' \in [Proc -> BOOLEAN]
  <2>1. backtrack \in [Proc -> BOOLEAN] /\ backtrack' = [backtrack EXCEPT ![Me] = ~on]
    BY DEF NoBacktrack, TypeInv, TypeOK
  <2>2. QED
    BY <2>1, Zenon
<1>3. QED
  BY <1>1, <1>2
     DEF NoBacktrack, TypeInv, TypeOK, ReadOK, thrVars, memVars, schVars, ctlVars, histVars

\* The current action and the store lists after ensureInitialValue.
LEMMA CurType ==
    ASSUME TypeOK
    PROVE  /\ active_thread \in Thread
           /\ Cur \in Action /\ Cur.loc \in Word /\ LineOf[Cur.loc] \in Line
<1>1. active_thread \in Thread /\ Cur \in Action
  BY DEF TypeOK, Cur
<1>2. Cur.loc \in Word
  BY <1>1 DEF Action
<1>3. QED
  BY <1>1, <1>2, AddressAssumption

\* ensureInitialValue keeps the store lists sequences of actions.
LEMMA EnsureInitialValueType ==
    ASSUME TypeOK, NEW w \in Word
    PROVE  EnsureInitialValue(obj_to_wr, w) \in [Word -> Seq(Action)]
<1>1. "ATOMIC_INIT" \in Types /\ Byte \in SUBSET Byte /\ raw[w] \in Val \cup {InitVal}
  BY DEF Types, TypeOK
<1>2. InitAction(w) \in Action
  BY <1>1, ActType DEF InitAction, TypeOK
<1>3. QED
  BY <1>2 DEF EnsureInitialValue, TypeOK

\* The store buffers stay sequences of actions.
LEMMA AddToStoreBufferType ==
    ASSUME TypeOK, NEW a \in Action, AddToStoreBuffer(a)
    PROVE  storeBuffer' \in [Thread -> Seq(Action)]
<1>1. CopyAction(a) \in Action
  BY CopyType
<1>2. QED
  BY <1>1 DEF AddToStoreBuffer, TypeOK

\* ExecStore keeps the type invariant.
LEMMA ExecStoreTypeInv == ASSUME TypeInv, ExecStore PROVE TypeInv'
<1>1. TypeOK
  BY DEF TypeInv
<1>2. storeBuffer' \in [Thread -> Seq(Action)]
  BY <1>1, CurType, AddToStoreBufferType DEF ExecStore
<1>3. obj_to_wr' \in [Word -> Seq(Action)]
  BY <1>1, CurType, EnsureInitialValueType DEF ExecStore
<1>4. /\ phase' \in {"drain", "post"} /\ tgt' \in Thread
      /\ UNCHANGED <<todo, fence, rf, itr>>
  BY <1>1, CurType DEF ExecStore, StartDrain, Post, TypeOK
<1>5. QED
  BY <1>1, <1>2, <1>3, <1>4
     DEF ExecStore, TypeInv, TypeOK, ReadOK, procVars, schVars, histVars

\* ExecCreate keeps the type invariant.
LEMMA ExecCreateTypeInv == ASSUME TypeInv, ExecCreate PROVE TypeInv'
<1>1. TypeOK
  BY DEF TypeInv
<1>2. Cur \in Action /\ Cur.loc \in Word /\ Cur.val \in Val \cup {InitVal}
      /\ [Cur EXCEPT !.type = "NONATOMIC_STORE", !.fp = IdFootprint] \in Action
  BY <1>1, CurType, AddressAssumption DEF Action, Types
<1>3. storeBuffer' \in [Thread -> Seq(Action)]
  BY <1>1, <1>2, AddToStoreBufferType DEF ExecCreate
<1>4. raw' \in [Word -> Val \cup {InitVal}]
  BY <1>1, <1>2 DEF ExecCreate, TypeOK
<1>5. phase' = "post" /\ UNCHANGED <<tgt, todo, fence, rf, itr>>
  BY DEF ExecCreate, Post
<1>6. QED
  BY <1>1, <1>3, <1>4, <1>5
     DEF ExecCreate, TypeInv, TypeOK, ReadOK, procVars, schVars, histVars

\* ExecFlush keeps the type invariant.
LEMMA ExecFlushTypeInv == ASSUME TypeInv, ExecFlush PROVE TypeInv'
<1>1. TypeOK
  BY DEF TypeInv
<1>2. storeBuffer' \in [Thread -> Seq(Action)]
  <2>1. Cur \in Action /\ [Cur EXCEPT !.ee = next_sequence_num] \in Action
    BY <1>1, CurType DEF Action, TypeOK
  <2>2. QED
    BY <1>1, <2>1, AddToStoreBufferType DEF ExecFlush
<1>3. phase' = "post" /\ UNCHANGED <<tgt, todo, fence, rf, itr>>
  BY DEF ExecFlush, Post
<1>4. QED
  BY <1>1, <1>2, <1>3
     DEF ExecFlush, TypeInv, TypeOK, ReadOK, memVars, procVars, schVars, histVars

\* ExecMfence keeps the type invariant.
LEMMA ExecMfenceTypeInv == ASSUME TypeInv, ExecMfence PROVE TypeInv'
  BY CurType
     DEF ExecMfence, StartDrain, TypeInv, TypeOK, ReadOK, thrVars, memVars, procVars,
         schVars, histVars

\* ExecRmwr keeps the type invariant.
LEMMA ExecRmwrTypeInv == ASSUME TypeInv, ExecRmwr PROVE TypeInv'
<1>1. TypeOK /\ active_thread \in Thread
  BY CurType DEF TypeInv
<1>2. obj_to_wr' \in [Word -> Seq(Action)]
  BY <1>1, CurType, EnsureInitialValueType DEF ExecRmwr
<1>3. QED
  BY <1>1, <1>2
     DEF ExecRmwr, StartDrain, TypeInv, TypeOK, ReadOK, thrVars, procVars, schVars, histVars

\* build_read_from starts its walk at the newest store.
LEMMA BuildReadFromType ==
    ASSUME TypeOK, NEW wr \in [Word -> Seq(Action)], BuildReadFrom(wr)
    PROVE  /\ rf' \in [Byte -> Action] /\ itr' \in Nat /\ phase' \in {"post", "read"}
           /\ phase' = "read" => itr' = Len(wr[Cur.loc])
           /\ UNCHANGED <<tgt, todo, fence>>
<1>1. Len(wr[Cur.loc]) \in Nat
  BY CurType
<1>2. LocalBypassing(active_thread, Cur) \in [Byte -> Action]
  BY CurType, LocalBypassingType
<1>3. QED
  BY <1>1, <1>2 DEF BuildReadFrom

\* ExecLoad keeps the type invariant.
LEMMA ExecLoadTypeInv == ASSUME TypeInv, ExecLoad PROVE TypeInv'
<1>1. TypeOK
  BY DEF TypeInv
<1>2. obj_to_wr' \in [Word -> Seq(Action)]
  BY <1>1, CurType, EnsureInitialValueType DEF ExecLoad
<1>3. /\ rf' \in [Byte -> Action] /\ itr' \in Nat /\ phase' \in {"post", "read"}
      /\ phase' = "read" => itr' = Len(obj_to_wr'[Cur.loc])
      /\ UNCHANGED <<tgt, todo, fence>>
  BY <1>1, <1>2, BuildReadFromType DEF ExecLoad
<1>4. UNCHANGED <<pending, active_thread>> /\ Cur' = Cur
  BY DEF ExecLoad, schVars, Cur
<1>5. Len(obj_to_wr'[Cur.loc]) \in Nat
  BY <1>1, <1>2, CurType
<1>6. ReadOK'
  BY <1>3, <1>4, <1>5 DEF ReadOK
<1>7. QED
  BY <1>1, <1>2, <1>3, <1>4, <1>6 DEF ExecLoad, TypeInv, TypeOK, thrVars, procVars, schVars, histVars

\* ExecNothing keeps the type invariant.
LEMMA ExecNothingTypeInv == ASSUME TypeInv, ExecNothing PROVE TypeInv'
  BY DEF ExecNothing, Post, TypeInv, TypeOK, ReadOK, thrVars, memVars, procVars, schVars,
         histVars

\* ExecThreadFinish keeps the type invariant.
LEMMA ExecThreadFinishTypeInv == ASSUME TypeInv, ExecThreadFinish PROVE TypeInv'
<1> DEFINE st == [state EXCEPT ![active_thread] = "COMPLETED"]
<1>1. st \in [Thread -> {"RUNNING", "COMPLETED", "CRASHED"}]
  BY DEF TypeInv, TypeOK
<1>2. LastYield(st)
  BY DEF ExecThreadFinish
<1>3. pending' \in [Thread -> Action]
  BY NoActType DEF ExecThreadFinish, TypeInv, TypeOK
<1> HIDE DEF st
<1>4. QED
  BY <1>1, <1>2, <1>3, LastYieldType
     DEF ExecThreadFinish, TypeInv, TypeOK, ReadOK, thrVars, memVars, procVars, histVars

\* Completing a thread keeps the thread states' type.
LEMMA CompletedType ==
    ASSUME TypeOK, NEW t
    PROVE  Completed(t) \in [Thread -> {"RUNNING", "COMPLETED", "CRASHED"}]
  BY DEF Completed, TypeOK

\* ExecShutdown keeps the type invariant.
LEMMA ExecShutdownTypeInv == ASSUME TypeInv, ExecShutdown PROVE TypeInv'
<1>1. TypeOK /\ active_thread \in Thread
  BY CurType DEF TypeInv
<1>2. state' \in [Thread -> {"RUNNING", "COMPLETED", "CRASHED"}]
  BY <1>1, CompletedType DEF ExecShutdown
<1>3. QED
  BY <1>1, <1>2
     DEF ExecShutdown, StartDrain, TypeInv, TypeOK, ReadOK, thrVars, memVars, procVars, histVars

\* The entry that is popped and what is left.
LEMMA PoppedFacts ==
    ASSUME TypeOK, CanPop
    PROVE  /\ Popped \in Action /\ Popped.loc \in Word /\ LineOf[Popped.loc] \in Line
           /\ Tail(storeBuffer[tgt]) \in Seq(Action)
           /\ [storeBuffer EXCEPT ![tgt] = Tail(@)] \in [Thread -> Seq(Action)]
           /\ tgt \in Thread /\ phase \in {"drain", "evict"}
<1>1. tgt \in Thread /\ storeBuffer[tgt] \in Seq(Action) /\ storeBuffer[tgt] # <<>>
  BY DEF TypeOK, CanPop
<1>2. Popped \in Action /\ Tail(storeBuffer[tgt]) \in Seq(Action)
  BY <1>1, HeadTailProperties DEF Popped
<1>3. Popped.loc \in Word
  BY <1>2 DEF Action
<1>4. phase \in {"drain", "evict"}
  BY DEF CanPop
<1>5. [storeBuffer EXCEPT ![tgt] = Tail(@)] \in [Thread -> Seq(Action)]
  BY <1>1, <1>2 DEF TypeOK
<1>6. QED
  BY <1>1, <1>2, <1>3, <1>4, <1>5, AddressAssumption

\* Taking the oldest entry off keeps the buffers' type.
LEMMA PopType ==
    ASSUME TypeOK, CanPop, Pop
    PROVE  storeBuffer' \in [Thread -> Seq(Action)] /\ todo' \in Nat
<1>1. todo' \in Nat
  BY DEF TypeOK, CanPop, Pop
<1>2. QED
  BY <1>1, PoppedFacts DEF Pop

\* The promises stay a table of clocks.
LEMMA PromiseType ==
    ASSUME TypeOK, Promise
    PROVE  promised' \in [Thread -> [Line -> Nat]]
<1>1. PICK n \in 0 .. next_sequence_num :
          promised' = [promised EXCEPT ![tgt][LineOf[Popped.loc]] = n]
  BY DEF Promise
<1>2. n \in Nat
  BY DEF TypeOK
<1>3. QED
  BY <1>1, <1>2 DEF TypeOK

\* A table of clocks stays one when an entry is overwritten.
LEMMA TableUpdate ==
    ASSUME NEW S, NEW L, NEW f \in [S -> [L -> Nat]], NEW s \in S, NEW l \in L, NEW n \in Nat
    PROVE  [f EXCEPT ![s][l] = n] \in [S -> [L -> Nat]]
  OBVIOUS

\* PopStore keeps the type invariant.
LEMMA PopStoreTypeInv == ASSUME TypeInv, PopStore PROVE TypeInv'
<1>1. TypeOK /\ CanPop /\ Pop
  BY DEF TypeInv, PopStore
<1>2. /\ Popped \in Action /\ tgt \in Thread /\ phase \in {"drain", "evict"}
      /\ storeBuffer' \in [Thread -> Seq(Action)] /\ todo' \in Nat
      /\ next_sequence_num \in Nat /\ LineOf[Popped.loc] \in Line
  BY <1>1, PoppedFacts, PopType DEF TypeOK
<1>3. [Popped EXCEPT !.seq = next_sequence_num] \in Action
  BY <1>2 DEF Action
<1>4. obj_to_wr' \in [Word -> Seq(Action)]
  <2> DEFINE s == [Popped EXCEPT !.seq = next_sequence_num]
  <2>1. obj_to_wr' = [obj_to_wr EXCEPT ![Popped.loc] = Append(@, s)]
    BY DEF PopStore
  <2>2. obj_to_wr \in [Word -> Seq(Action)] /\ Popped.loc \in Word
    BY <1>1, PoppedFacts DEF TypeOK
  <2> HIDE DEF s
  <2>3. Append(obj_to_wr[Popped.loc], s) \in Seq(Action)
    BY <1>3, <2>2, AppendProperties DEF s
  <2>4. QED
    BY <2>1, <2>2, <2>3
<1>5. cl_to_last_wr_clf' \in [Thread -> [Line -> Nat]] /\ next_sequence_num' \in Nat
  <2>1. /\ cl_to_last_wr_clf' =
             [cl_to_last_wr_clf EXCEPT ![tgt][LineOf[Popped.loc]] = next_sequence_num]
        /\ next_sequence_num' = next_sequence_num + 1
    BY DEF PopStore
  <2>2. cl_to_last_wr_clf \in [Thread -> [Line -> Nat]]
    BY <1>1 DEF TypeOK
  <2>3. QED
    BY <1>2, <2>1, <2>2, TableUpdate
<1>6. QED
  BY <1>1, <1>2, <1>4, <1>5
     DEF PopStore, TypeInv, TypeOK, ReadOK, procVars, schVars, histVars

\* RaiseTo returns a clock.
LEMMA RaiseToType ==
    ASSUME NEW x \in Nat, NEW y \in Nat
    PROVE  RaiseTo(x, y) \in Nat /\ x <= RaiseTo(x, y) /\ y <= RaiseTo(x, y)
  BY DEF RaiseTo

\* The clock a clflushopt takes effect at is a clock.
LEMMA EarliestEffectType ==
    ASSUME TypeOK, NEW a \in Action, NEW t \in Thread
    PROVE  /\ EarliestEffect(a, t) \in Nat
           /\ cl_to_last_wr_clf[t][LineOf[a.loc]] <= EarliestEffect(a, t)
<1>1. a.ee \in Nat /\ LineOf[a.loc] \in Line
  BY AddressAssumption DEF Action
<1>2. last_sfence[t] \in Nat /\ cl_to_last_wr_clf[t][LineOf[a.loc]] \in Nat
  BY <1>1 DEF TypeOK
<1>3. RaiseTo(a.ee, last_sfence[t]) \in Nat
  BY <1>1, <1>2, RaiseToType
<1>4. QED
  BY <1>2, <1>3, RaiseToType DEF EarliestEffect

\* PopClflushopt keeps the type invariant.
LEMMA PopClflushoptTypeInv == ASSUME TypeInv, PopClflushopt PROVE TypeInv'
<1>1. TypeOK /\ CanPop /\ Pop /\ Promise
  BY DEF TypeInv, PopClflushopt
<1>2. /\ Popped \in Action /\ tgt \in Thread /\ phase \in {"drain", "evict"}
      /\ storeBuffer' \in [Thread -> Seq(Action)] /\ todo' \in Nat
      /\ promised' \in [Thread -> [Line -> Nat]]
  BY <1>1, PoppedFacts, PopType, PromiseType
<1>3. [Popped EXCEPT !.ee = EarliestEffect(Popped, tgt)] \in Action
  <2>1. EarliestEffect(Popped, tgt) \in Nat
    BY <1>1, <1>2, EarliestEffectType
  <2>2. QED
    BY <1>2, <2>1 DEF Action
<1>4. flushBuffer' \in [Thread -> Seq(Action)]
  BY <1>1, <1>3 DEF PopClflushopt, TypeOK
<1>5. QED
  BY <1>1, <1>2, <1>4
     DEF PopClflushopt, TypeInv, TypeOK, ReadOK, memVars, procVars, schVars

\* PopSfence keeps the type invariant.
LEMMA PopSfenceTypeInv == ASSUME TypeInv, PopSfence PROVE TypeInv'
<1>1. TypeOK /\ CanPop /\ Pop
  BY DEF TypeInv, PopSfence
<1>2. /\ phase \in {"drain", "evict"}
      /\ storeBuffer' \in [Thread -> Seq(Action)] /\ todo' \in Nat
  BY <1>1, PoppedFacts, PopType
<1>3. QED
  BY <1>1, <1>2
     DEF PopSfence, TypeInv, TypeOK, ReadOK, memVars, procVars, schVars, histVars

\* SfenceDone keeps the type invariant.
LEMMA SfenceDoneTypeInv == ASSUME TypeInv, SfenceDone PROVE TypeInv'
<1>1. last_sfence' \in [Thread -> Nat]
  BY DEF SfenceDone, TypeInv, TypeOK
<1>2. Cur' = Cur
  BY DEF SfenceDone, Cur, schVars
<1>3. ReadOK'
  BY <1>2 DEF SfenceDone, TypeInv, ReadOK, memVars
<1>4. QED
  BY <1>1, <1>3
     DEF SfenceDone, TypeInv, TypeOK, memVars, procVars, schVars, histVars

\* evict_clflush keeps begin a table of clocks.
LEMMA RaiseBeginType ==
    ASSUME TypeOK, NEW l \in Line, NEW n \in Nat, RaiseBegin(l, n)
    PROVE  cl_begin' \in [Proc -> [Line -> Nat]]
<1>1. ASSUME NEW p \in Proc
      PROVE  [cl_begin[p] EXCEPT ![l] = RaiseTo(@, n)] \in [Line -> Nat]
  BY DEF TypeOK, RaiseTo
<1>2. QED
  BY <1>1 DEF RaiseBegin

\* The crash of another process keeps the crash clocks' type.
LEMMA MaybeCrashOtherType ==
    ASSUME TypeOK, NEW vs, NEW n \in Nat, MaybeCrashOther(vs, n)
    PROVE  crashes' \in [Proc -> Nat \cup {NotCrashed}]
  BY DEF MaybeCrashOther, TypeOK

\* The crash of the running process keeps the types of what it touches.
LEMMA CrashSelfType ==
    ASSUME TypeOK, NEW vs, NEW n \in Nat, CrashSelf(vs, n)
    PROVE  crashes' \in [Proc -> Nat \cup {NotCrashed}] /\ ProcessCrashExit
  BY DEF CrashSelf, TypeOK

\* PopClflush keeps the type invariant.
LEMMA PopClflushTypeInv == ASSUME TypeInv, PopClflush PROVE TypeInv'
<1>1. TypeOK /\ CanPop /\ Promise
  BY DEF TypeInv, PopClflush
<1>2. /\ tgt \in Thread /\ phase \in {"drain", "evict"}
      /\ promised' \in [Thread -> [Line -> Nat]]
      /\ next_sequence_num \in Nat /\ next_sequence_num + 1 \in Nat
  <2>1. next_sequence_num \in Nat
    BY <1>1 DEF TypeOK
  <2>2. QED
    BY <1>1, <2>1, PoppedFacts, PromiseType
<1>3. cl_begin' \in [Proc -> [Line -> Nat]]
  <2>1. RaiseBegin(LineOf[Popped.loc], next_sequence_num) /\ LineOf[Popped.loc] \in Line
    BY <1>1, PoppedFacts DEF PopClflush
  <2>2. QED
    BY <1>1, <1>2, <2>1, RaiseBeginType
<1> DEFINE vs == FlushVictims(Popped, next_sequence_num)
           n == next_sequence_num + 1
<1>4. CASE /\ MaybeCrashOther(vs, n)
           /\ cl_to_last_wr_clf' =
                [cl_to_last_wr_clf EXCEPT ![tgt][LineOf[Popped.loc]] = next_sequence_num]
           /\ Pop
           /\ UNCHANGED <<schVars, phase, tgt, fence, rf, itr, pending>>
  <2> HIDE DEF vs, n
  <2>1. crashes' \in [Proc -> Nat \cup {NotCrashed}]
    <3>1. n \in Nat
      BY <1>2 DEF n
    <3>2. QED
      BY <1>1, <1>4, <3>1, MaybeCrashOtherType
  <2>2. cl_to_last_wr_clf' \in [Thread -> [Line -> Nat]]
    BY <1>1, <1>2, <1>4 DEF TypeOK
  <2>3. storeBuffer' \in [Thread -> Seq(Action)] /\ todo' \in Nat
    BY <1>1, <1>4, PopType
  <2>4. QED
    BY <1>1, <1>2, <1>3, <1>4, <2>1, <2>2, <2>3
       DEF PopClflush, TypeInv, TypeOK, ReadOK, schVars
<1>5. CASE /\ CrashSelf(vs, n)
           /\ storeBuffer' = [storeBuffer EXCEPT ![tgt] = Tail(@)]
           /\ UNCHANGED cl_to_last_wr_clf
  <2> HIDE DEF vs, n
  <2>1. crashes' \in [Proc -> Nat \cup {NotCrashed}] /\ ProcessCrashExit
    <3>1. n \in Nat
      BY <1>2 DEF n
    <3>2. QED
      BY <1>1, <1>5, <3>1, CrashSelfType
  <2>2. storeBuffer' \in [Thread -> Seq(Action)]
    BY <1>1, <1>5, PoppedFacts
  <2>3. QED
    BY <1>1, <1>2, <1>3, <1>5, <2>1, <2>2, ProcessCrashExitType
       DEF PopClflush, TypeInv, TypeOK, ReadOK
<1>6. QED
  BY <1>4, <1>5 DEF PopClflush

\* FlushOne keeps the type invariant.
LEMMA FlushOneTypeInv == ASSUME TypeInv, FlushOne PROVE TypeInv'
<1> DEFINE a == Head(flushBuffer[tgt])
           vs == FlushVictims(a, a.ee)
<1>1. TypeOK /\ next_sequence_num \in Nat
  BY DEF TypeInv, TypeOK
<1>2. a \in Action /\ Tail(flushBuffer[tgt]) \in Seq(Action)
  <2>1. flushBuffer[tgt] \in Seq(Action) /\ flushBuffer[tgt] # <<>>
    BY <1>1 DEF TypeOK, FlushOne
  <2>2. QED
    BY <2>1, HeadTailProperties
<1>3. a.ee \in Nat /\ LineOf[a.loc] \in Line
  BY <1>2, AddressAssumption DEF Action
<1>4. flushBuffer' \in [Thread -> Seq(Action)]
  BY <1>1, <1>2 DEF FlushOne, TypeOK
<1>5. cl_begin' \in [Proc -> [Line -> Nat]]
  BY <1>1, <1>3, RaiseBeginType DEF FlushOne
<1>6. \/ /\ MaybeCrashOther(vs, next_sequence_num)
         /\ UNCHANGED <<schVars, ctlVars, pending>>
      \/ CrashSelf(vs, next_sequence_num)
  BY DEF FlushOne
<1> HIDE DEF vs
<1>7. CASE /\ MaybeCrashOther(vs, next_sequence_num)
           /\ UNCHANGED <<schVars, ctlVars, pending>>
  <2>1. crashes' \in [Proc -> Nat \cup {NotCrashed}]
    BY <1>1, <1>7, MaybeCrashOtherType
  <2>2. Cur' = Cur
    BY <1>7 DEF Cur, schVars
  <2>3. ReadOK'
    BY <1>7, <2>2 DEF FlushOne, TypeInv, ReadOK, ctlVars
  <2>4. QED
    BY <1>1, <1>4, <1>5, <1>7, <2>1, <2>3
       DEF FlushOne, TypeInv, TypeOK, schVars, ctlVars, histVars
<1>8. CASE CrashSelf(vs, next_sequence_num)
  <2>1. crashes' \in [Proc -> Nat \cup {NotCrashed}] /\ ProcessCrashExit
    BY <1>1, <1>8, CrashSelfType
  <2>2. QED
    BY <1>1, <1>4, <1>5, <2>1, ProcessCrashExitType
       DEF FlushOne, TypeInv, TypeOK, ReadOK, histVars
<1>9. QED
  BY <1>6, <1>7, <1>8

\* DrainDone keeps the type invariant.
LEMMA DrainDoneTypeInv == ASSUME TypeInv, DrainDone PROVE TypeInv'
  BY DEF DrainDone, Post, TypeInv, TypeOK, ReadOK, thrVars, memVars, procVars, schVars,
         histVars

\* DrainThenRead keeps the type invariant.
LEMMA DrainThenReadTypeInv == ASSUME TypeInv, DrainThenRead PROVE TypeInv'
<1>1. TypeOK /\ obj_to_wr \in [Word -> Seq(Action)]
  BY DEF TypeInv, TypeOK
<1>2. /\ rf' \in [Byte -> Action] /\ itr' \in Nat /\ phase' \in {"post", "read"}
      /\ phase' = "read" => itr' = Len(obj_to_wr[Cur.loc])
      /\ UNCHANGED <<tgt, todo, fence>>
  BY <1>1, BuildReadFromType DEF DrainThenRead
<1>3. UNCHANGED <<pending, active_thread, obj_to_wr>> /\ Cur' = Cur
  BY DEF DrainThenRead, schVars, memVars, Cur
<1>4. Len(obj_to_wr[Cur.loc]) \in Nat
  BY <1>1, CurType
<1>5. ReadOK'
  BY <1>2, <1>3, <1>4 DEF ReadOK
<1>6. QED
  BY <1>1, <1>2, <1>3, <1>5
     DEF DrainThenRead, TypeInv, TypeOK, thrVars, memVars, procVars, schVars, histVars

\* ShutdownNext keeps the type invariant.
LEMMA ShutdownNextTypeInv == ASSUME TypeInv, ShutdownNext PROVE TypeInv'
<1>1. TypeOK
  BY DEF TypeInv
<1>2. PICK t \in LaterThreads : state' = Completed(t) /\ StartDrain(t)
  BY DEF ShutdownNext
<1>3. t \in Thread
  BY DEF LaterThreads
<1>4. state' \in [Thread -> {"RUNNING", "COMPLETED", "CRASHED"}]
  BY <1>1, <1>2, CompletedType
<1>5. QED
  BY <1>1, <1>2, <1>3, <1>4
     DEF ShutdownNext, StartDrain, TypeInv, TypeOK, ReadOK, thrVars, memVars, procVars, histVars

\* ShutdownDone keeps the type invariant.
LEMMA ShutdownDoneTypeInv == ASSUME TypeInv, ShutdownDone PROVE TypeInv'
<1>1. TypeOK /\ state \in [Thread -> {"RUNNING", "COMPLETED", "CRASHED"}] /\ LastYield(state)
  BY DEF TypeInv, TypeOK, ShutdownDone
<1>2. Me \in Proc
  BY <1>1, ThreadFacts, CurType DEF Me
<1>3. pending' \in [Thread -> Action]
  BY <1>1, NoActType DEF ShutdownDone, TypeOK
<1>4. completed_procs' \subseteq Proc
  BY <1>1, <1>2 DEF ShutdownDone, TypeOK
<1>5. QED
  BY <1>1, <1>3, <1>4, LastYieldType
     DEF ShutdownDone, TypeInv, TypeOK, ReadOK, thrVars, memVars, histVars

\* The store build_read_from looks at.
LEMMA LookedFacts ==
    ASSUME TypeInv, Reading
    PROVE  /\ Looked \in Action /\ Looked.seq \in Nat
           /\ Writer \in Proc /\ ReadLine \in Line
           /\ itr \in Nat /\ itr > 0
<1>1. TypeOK /\ itr \in Nat /\ itr > 0 /\ itr <= Len(obj_to_wr[Cur.loc])
  BY DEF TypeInv, TypeOK, ReadOK, Reading
<1>2. obj_to_wr[Cur.loc] \in Seq(Action)
  BY <1>1, CurType DEF TypeOK
<1>3. itr \in 1 .. Len(obj_to_wr[Cur.loc])
  BY <1>1, <1>2
<1>4. Looked \in Action
  BY <1>2, <1>3, ElementOfSeq DEF Looked
<1>5. Looked.seq \in Nat /\ Looked.tid \in Thread
  BY <1>4 DEF Action
<1>6. Writer \in Proc /\ ReadLine \in Line
  BY <1>1, <1>5, ThreadFacts, CurType DEF Writer, ReadLine
<1>7. QED
  BY <1>1, <1>4, <1>5, <1>6

\* One step of build_read_from's loop keeps the control state's type, and the
\* iterator inside its list.
LEMMA AdvanceType ==
    ASSUME TypeInv, Reading, NEW r \in [Byte -> Action], Advance(r),
           UNCHANGED <<obj_to_wr, pending, active_thread>>
    PROVE  /\ rf' \in [Byte -> Action] /\ itr' \in Nat /\ phase' \in {"post", "read"}
           /\ UNCHANGED <<tgt, todo, fence>>
           /\ ReadOK'
<1>1. itr \in Nat /\ itr > 0 /\ itr <= Len(obj_to_wr[Cur.loc])
  BY DEF TypeInv, TypeOK, ReadOK, Reading
<1>2. TypeOK /\ obj_to_wr \in [Word -> Seq(Action)]
  BY DEF TypeInv, TypeOK
<1>3. obj_to_wr[Cur.loc] \in Seq(Action)
  BY <1>2, CurType
<1>4. Len(obj_to_wr[Cur.loc]) \in Nat
  BY <1>3
<1>5. Cur' = Cur
  BY DEF Cur
<1>6. QED
  BY <1>1, <1>4, <1>5 DEF Advance, ReadOK

\* seenMax stays a table of clocks.
LEMMA SeeType ==
    ASSUME TypeInv, Reading, See PROVE seenMax' \in [Proc -> [Line -> Nat]]
<1>1. seenMax \in [Proc -> [Line -> Nat]] /\ Writer \in Proc /\ ReadLine \in Line
  BY LookedFacts DEF TypeInv, TypeOK
<1> DEFINE n == IF Hits THEN RaiseTo(seenMax[Writer][ReadLine], Looked.seq)
                        ELSE seenMax[Writer][ReadLine]
<1>2. n \in Nat
  BY <1>1, LookedFacts, RaiseToType
<1>3. seenMax' = [seenMax EXCEPT ![Writer][ReadLine] = n]
  BY DEF See
<1> HIDE DEF n
<1>4. QED
  BY <1>1, <1>2, <1>3, TableUpdate

\* begin stays a table of clocks when a read raises it.
LEMMA MarkPersistedType ==
    ASSUME TypeInv, Reading, MarkPersisted PROVE cl_begin' \in [Proc -> [Line -> Nat]]
<1>1. cl_begin \in [Proc -> [Line -> Nat]] /\ Writer \in Proc /\ ReadLine \in Line
  BY LookedFacts DEF TypeInv, TypeOK
<1> DEFINE n == RaiseTo(cl_begin[Writer][ReadLine], Looked.seq)
<1>2. n \in Nat
  BY <1>1, LookedFacts, RaiseToType
<1>3. cl_begin' = [cl_begin EXCEPT ![Writer][ReadLine] = n]
  BY DEF MarkPersisted
<1> HIDE DEF n
<1>4. QED
  BY <1>1, <1>2, <1>3, TableUpdate

\* The read-from map stays one when a store is read.
LEMMA KeptRfType == ASSUME TypeInv, Reading PROVE KeptRf \in [Byte -> Action]
  BY LookedFacts, FillType DEF KeptRf, TypeInv, TypeOK

\* What a step of build_read_from's loop leaves alone.
LEMMA ReadFrameFacts ==
    ASSUME ReadFrame
    PROVE  UNCHANGED <<storeBuffer, flushBuffer, last_sfence, cl_to_last_wr_clf, obj_to_wr,
                       next_sequence_num, raw, completed_procs, backtrack, state,
                       active_thread, pending, ops, promised>>
  BY DEF ReadFrame, thrVars, schVars

\* ReadRunning keeps the type invariant.
LEMMA ReadRunningTypeInv == ASSUME TypeInv, ReadRunning PROVE TypeInv'
<1>1. Reading /\ Advance(KeptRf) /\ ReadFrame /\ UNCHANGED <<cl_end, crashes, missedMin>>
  BY DEF ReadRunning
<1>2. cl_begin' \in [Proc -> [Line -> Nat]] /\ seenMax' \in [Proc -> [Line -> Nat]]
  BY <1>1, MarkPersistedType, SeeType DEF ReadRunning, TypeInv, TypeOK
<1>3. QED
  BY <1>1, <1>2, AdvanceType, KeptRfType, ReadFrameFacts DEF TypeInv, TypeOK

\* ReadCrash keeps the type invariant.
LEMMA ReadCrashTypeInv == ASSUME TypeInv, ReadCrash PROVE TypeInv'
<1>1. ReadFrame /\ UNCHANGED <<cl_begin, cl_end, ctlVars, seenMax, missedMin>>
  BY DEF ReadCrash
<1>2. crashes' \in [Proc -> Nat \cup {NotCrashed}]
  BY DEF ReadCrash, TypeInv, TypeOK
<1>3. Cur' = Cur
  BY <1>1, ReadFrameFacts DEF Cur
<1>4. ReadOK'
  BY <1>1, <1>3, ReadFrameFacts DEF TypeInv, ReadOK, ctlVars
<1>5. QED
  BY <1>1, <1>2, <1>4, ReadFrameFacts DEF TypeInv, TypeOK, ctlVars

\* ReadMust keeps the type invariant.
LEMMA ReadMustTypeInv == ASSUME TypeInv, ReadMust PROVE TypeInv'
<1>1. /\ Reading /\ Advance(KeptRf) /\ ReadFrame /\ See
      /\ UNCHANGED <<cl_begin, cl_end, crashes, missedMin>>
  BY DEF ReadMust
<1>2. QED
  BY <1>1, SeeType, AdvanceType, KeptRfType, ReadFrameFacts DEF TypeInv, TypeOK

\* ReadSkip keeps the type invariant.
LEMMA ReadSkipTypeInv == ASSUME TypeInv, ReadSkip PROVE TypeInv'
<1>1. /\ Reading /\ Advance(rf) /\ ReadFrame
      /\ UNCHANGED <<cl_begin, cl_end, crashes, seenMax, missedMin>>
      /\ rf \in [Byte -> Action]
  BY DEF ReadSkip, TypeInv, TypeOK
<1>2. QED
  BY <1>1, AdvanceType, ReadFrameFacts DEF TypeInv, TypeOK

\* ReadLost keeps the type invariant.
LEMMA ReadLostTypeInv == ASSUME TypeInv, ReadLost PROVE TypeInv'
<1> DEFINE n == IF missedMin[Writer][ReadLine] = 0 \/ Looked.seq < missedMin[Writer][ReadLine]
                THEN Looked.seq ELSE missedMin[Writer][ReadLine]
<1>1. /\ Reading /\ Advance(rf) /\ ReadFrame
      /\ UNCHANGED <<cl_begin, crashes, seenMax>>
      /\ rf \in [Byte -> Action]
      /\ cl_end' = [cl_end EXCEPT ![Writer][ReadLine] = Looked.seq]
      /\ missedMin' = [missedMin EXCEPT ![Writer][ReadLine] = n]
  BY DEF ReadLost, Deciding, TypeInv, TypeOK
<1>2. /\ cl_end \in [Proc -> [Line -> Nat]] /\ missedMin \in [Proc -> [Line -> Nat]]
      /\ Writer \in Proc /\ ReadLine \in Line /\ Looked.seq \in Nat
  BY <1>1, LookedFacts DEF TypeInv, TypeOK
<1>3. n \in Nat
  BY <1>2
<1> HIDE DEF n
<1>4. cl_end' \in [Proc -> [Line -> Nat]] /\ missedMin' \in [Proc -> [Line -> Nat]]
  BY <1>1, <1>2, <1>3, TableUpdate
<1>5. QED
  BY <1>1, <1>4, AdvanceType, ReadFrameFacts DEF TypeInv, TypeOK

\* ReadPersisted keeps the type invariant.
LEMMA ReadPersistedTypeInv == ASSUME TypeInv, ReadPersisted PROVE TypeInv'
<1>1. /\ Reading /\ Advance(KeptRf) /\ ReadFrame /\ See
      /\ UNCHANGED <<cl_end, crashes, missedMin>>
      /\ cl_begin' = [cl_begin EXCEPT ![Writer][ReadLine] = Looked.seq]
  BY DEF ReadPersisted, Deciding
<1>2. /\ cl_begin \in [Proc -> [Line -> Nat]]
      /\ Writer \in Proc /\ ReadLine \in Line /\ Looked.seq \in Nat
  BY <1>1, LookedFacts DEF TypeInv, TypeOK
<1>3. cl_begin' \in [Proc -> [Line -> Nat]]
  BY <1>1, <1>2, TableUpdate
<1>4. QED
  BY <1>1, <1>3, SeeType, AdvanceType, KeptRfType, ReadFrameFacts DEF TypeInv, TypeOK

\* ProcessStoreBuffer keeps the type invariant.
LEMMA ProcessStoreBufferTypeInv == ASSUME TypeInv, ProcessStoreBuffer PROVE TypeInv'
<1>1. tgt' \in Thread /\ todo' \in Nat
  <2>1. PICK t \in PopThreads : \E n \in PopCounts(Len(storeBuffer[t])) :
           tgt' = t /\ todo' = n
    BY DEF ProcessStoreBuffer
  <2>2. PICK n \in PopCounts(Len(storeBuffer[t])) : tgt' = t /\ todo' = n
    BY <2>1
  <2>3. t \in Thread
    BY DEF PopThreads
  <2>4. Len(storeBuffer[t]) \in Nat
    BY <2>3 DEF TypeInv, TypeOK
  <2>5. n \in Nat
    BY <2>4 DEF PopCounts
  <2>6. QED
    BY <2>2, <2>3, <2>5
<1>2. QED
  BY <1>1
     DEF ProcessStoreBuffer, TypeInv, TypeOK, ReadOK, thrVars, memVars, procVars, schVars,
         histVars

\* Return keeps the type invariant.
LEMMA ReturnTypeInv == ASSUME TypeInv, Return PROVE TypeInv'
<1>1. tgt' \in Thread /\ phase' \in {"rmw", "run"}
  BY ThreadFacts DEF Return
<1>2. pending' \in [Thread -> Action] /\ rf' \in [Byte -> Action]
  BY NoActType, NoRfType DEF Return, TypeInv, TypeOK
<1>3. QED
  BY <1>1, <1>2
     DEF Return, TypeInv, TypeOK, ReadOK, thrVars, memVars, procVars, schVars, histVars

\* RmwSecond keeps the type invariant.
LEMMA RmwSecondTypeInv == ASSUME TypeInv, RmwSecond PROVE TypeInv'
<1> DEFINE a == pending[active_thread]
<1>1. a \in Action /\ pending \in [Thread -> Action]
  BY DEF TypeInv, TypeOK
<1>2. /\ \A v \in Val : [a EXCEPT !.type = "ATOMIC_RMW", !.val = v] \in Action
      /\ [a EXCEPT !.type = "ATOMIC_CAS_FAILED"] \in Action
  BY <1>1 DEF Action, Types
<1>3. pending' \in [Thread -> Action]
  BY <1>1, <1>2 DEF RmwSecond
<1>4. phase' = "run" /\ rf' \in [Byte -> Action]
  BY NoRfType DEF RmwSecond
<1>5. QED
  BY <1>3, <1>4
     DEF RmwSecond, TypeInv, TypeOK, ReadOK, thrVars, memVars, procVars, schVars, histVars

\* A stuttering step keeps the type invariant.
LEMMA StutterTypeInv == ASSUME TypeInv, UNCHANGED vars PROVE TypeInv'
<1>1. UNCHANGED <<pending, ops>> /\ UNCHANGED thrVars /\ UNCHANGED memVars
      /\ UNCHANGED procVars /\ UNCHANGED schVars /\ UNCHANGED ctlVars /\ UNCHANGED histVars
  BY DEF vars
<1>2. Cur' = Cur
  BY <1>1 DEF Cur, schVars
<1>3. QED
  BY <1>1, <1>2
     DEF TypeInv, TypeOK, ReadOK, thrVars, memVars, procVars, schVars, ctlVars, histVars

\* Every step keeps the type invariant.
LEMMA StepTypeInv == ASSUME TypeInv, [Next]_vars PROVE TypeInv'
<1>1. CASE User
  BY <1>1, CallTypeInv, CrashedCallTypeInv, CallThreadFinishTypeInv, CallShutdownTypeInv,
     InsertCrashTypeInv, NoBacktrackTypeInv DEF User
<1>2. CASE Exec
  BY <1>2, ExecStoreTypeInv, ExecCreateTypeInv, ExecFlushTypeInv, ExecMfenceTypeInv,
     ExecRmwrTypeInv, ExecLoadTypeInv, ExecNothingTypeInv, ExecThreadFinishTypeInv, ExecShutdownTypeInv
     DEF Exec
<1>3. CASE Drain
  BY <1>3, PopStoreTypeInv, PopClflushoptTypeInv, PopSfenceTypeInv, SfenceDoneTypeInv,
     PopClflushTypeInv, FlushOneTypeInv, DrainDoneTypeInv, DrainThenReadTypeInv,
     ShutdownNextTypeInv, ShutdownDoneTypeInv DEF Drain
<1>4. CASE Read
  BY <1>4, ReadRunningTypeInv, ReadCrashTypeInv, ReadMustTypeInv, ReadSkipTypeInv,
     ReadLostTypeInv, ReadPersistedTypeInv DEF Read
<1>5. CASE ProcessStoreBuffer \/ Return \/ RmwSecond
  BY <1>5, ProcessStoreBufferTypeInv, ReturnTypeInv, RmwSecondTypeInv
<1>6. CASE UNCHANGED vars
  BY <1>6, StutterTypeInv
<1>7. QED
  BY <1>1, <1>2, <1>3, <1>4, <1>5, <1>6 DEF Next, Inside, Finished

\* Every variable of the memory model keeps its type, and build_read_from never
\* looks at a store that is not there.
THEOREM TypeInvariant == Spec => []TypeInv
<1>1. Init => TypeInv
  BY InitType
<1>2. TypeInv /\ [Next]_vars => TypeInv'
  BY StepTypeInv
<1>3. QED
  BY <1>1, <1>2, PTL DEF Spec

\* The type invariant of the runs.
THEOREM TypeCorrect == Spec => []TypeOK
<1>1. TypeInv => TypeOK
  BY DEF TypeInv
<1>2. QED
  BY <1>1, TypeInvariant, PTL

----------------------------------------------------------------------------
(***************************************************************************)
(* Persistence ranges.  A store somebody has seen lies at or below begin,  *)
(* and end lies at or below every store decided not persisted.             *)
(***************************************************************************)
CutInv ==
    \A p \in Proc, l \in Line :
        /\ seenMax[p][l] <= cl_begin[p][l]
        /\ missedMin[p][l] # 0 => cl_end[p][l] # 0 /\ cl_end[p][l] <= missedMin[p][l]

\* The steps that touch the ranges.
LEMMA RangeFrame ==
    ASSUME [Next]_vars
    PROVE  \/ UNCHANGED <<cl_begin, cl_end, seenMax, missedMin>>
           \/ PopClflush \/ FlushOne \/ ReadRunning \/ ReadMust \/ ReadLost \/ ReadPersisted
<1>1. CASE User
  BY <1>1 DEF User, Call, CrashedCall, CallThreadFinish, CallShutdown, InsertCrash,
              NoBacktrack, memVars, histVars
<1>2. CASE Exec
  BY <1>2 DEF Exec, ExecStore, ExecCreate, ExecFlush, ExecMfence, ExecRmwr, ExecLoad, ExecNothing,
              ExecThreadFinish, ExecShutdown, memVars, histVars
<1>3. CASE Drain
  BY <1>3 DEF Drain, PopStore, PopClflushopt, PopSfence, SfenceDone, DrainDone,
              DrainThenRead, ShutdownNext, ShutdownDone, memVars, histVars
<1>4. CASE Read
  BY <1>4 DEF Read, ReadCrash, ReadSkip
<1>5. CASE ProcessStoreBuffer \/ Return \/ RmwSecond
  BY <1>5 DEF ProcessStoreBuffer, Return, RmwSecond, memVars, histVars
<1>6. CASE UNCHANGED vars
  BY <1>6 DEF vars, memVars, histVars
<1>7. QED
  BY <1>1, <1>2, <1>3, <1>4, <1>5, <1>6 DEF Next, Inside, Finished

\* RaiseBegin lowers no begin and covers clock n on line k for every process.
LEMMA RaiseBeginFacts ==
    ASSUME TypeOK, NEW k \in Line, NEW n \in Nat, RaiseBegin(k, n)
    PROVE  \A p \in Proc, l \in Line :
               /\ cl_begin'[p][l] \in Nat
               /\ cl_begin[p][l] <= cl_begin'[p][l]
               /\ l = k => n <= cl_begin'[p][l]
<1> SUFFICES ASSUME NEW p \in Proc, NEW l \in Line
             PROVE  /\ cl_begin'[p][l] \in Nat
                    /\ cl_begin[p][l] <= cl_begin'[p][l]
                    /\ l = k => n <= cl_begin'[p][l]
  OBVIOUS
<1>1. cl_begin[p] \in [Line -> Nat] /\ cl_begin[p][l] \in Nat /\ cl_begin[p][k] \in Nat
  BY DEF TypeOK
<1>2. cl_begin'[p] = [cl_begin[p] EXCEPT ![k] = RaiseTo(@, n)]
  BY DEF RaiseBegin
<1>3. cl_begin'[p][l] = IF l = k THEN RaiseTo(cl_begin[p][l], n) ELSE cl_begin[p][l]
  BY <1>1, <1>2
<1>4. CASE l = k
  <2>1. cl_begin'[p][l] = RaiseTo(cl_begin[p][l], n)
    BY <1>3, <1>4
  <2>2. QED
    BY <1>1, <2>1, RaiseToType
<1>5. CASE l # k
  BY <1>1, <1>3, <1>5
<1>6. QED
  BY <1>4, <1>5

\* A flush raises begin for every process and leaves the rest alone.
LEMMA FlushRaises ==
    ASSUME TypeInv, PopClflush \/ FlushOne
    PROVE  /\ \A p \in Proc, l \in Line : cl_begin[p][l] <= cl_begin'[p][l]
           /\ UNCHANGED <<cl_end, seenMax, missedMin>>
<1>1. TypeOK /\ next_sequence_num \in Nat
  BY DEF TypeInv, TypeOK
<1>2. CASE PopClflush
  <2>1. LineOf[Popped.loc] \in Line /\ RaiseBegin(LineOf[Popped.loc], next_sequence_num)
    BY <1>1, <1>2, PoppedFacts DEF PopClflush
  <2>2. QED
    BY <1>1, <1>2, <2>1, RaiseBeginFacts DEF PopClflush
<1>3. CASE FlushOne
  <2> DEFINE a == Head(flushBuffer[tgt])
  <2>1. flushBuffer[tgt] \in Seq(Action) /\ flushBuffer[tgt] # <<>>
    BY <1>1, <1>3 DEF TypeOK, FlushOne
  <2>2. a \in Action
    BY <2>1, HeadTailProperties
  <2>3. LineOf[a.loc] \in Line /\ a.ee \in Nat
    BY <2>2, AddressAssumption DEF Action
  <2>4. RaiseBegin(LineOf[a.loc], a.ee)
    BY <1>3 DEF FlushOne
  <2> HIDE DEF a
  <2>5. QED
    BY <1>1, <1>3, <2>3, <2>4, RaiseBeginFacts DEF FlushOne, histVars
<1>4. QED
  BY <1>2, <1>3

\* What one step of build_read_from's loop does to the range of the line it reads;
\* all other ranges stay.
LEMMA ReadRanges ==
    ASSUME TypeInv, Reading, ReadRunning \/ ReadMust \/ ReadLost \/ ReadPersisted
    PROVE  \A p \in Proc, l \in Line :
             LET b == cl_begin[p][l]    bb == cl_begin'[p][l]
                 e == cl_end[p][l]      ee == cl_end'[p][l]
                 s == seenMax[p][l]     ss == seenMax'[p][l]
                 m == missedMin[p][l]   mm == missedMin'[p][l]
             IN /\ b <= bb
                /\ ss = s \/ ss <= bb
                /\ \/ ee = e /\ mm = m
                   \/ ee # 0 /\ (e # 0 => ee < e) /\ (mm = ee \/ (mm = m /\ m # 0 /\ m <= ee))
<1> SUFFICES ASSUME NEW p \in Proc, NEW l \in Line
             PROVE  /\ cl_begin[p][l] <= cl_begin'[p][l]
                    /\ seenMax'[p][l] = seenMax[p][l] \/ seenMax'[p][l] <= cl_begin'[p][l]
                    /\ \/ cl_end'[p][l] = cl_end[p][l] /\ missedMin'[p][l] = missedMin[p][l]
                       \/ /\ cl_end'[p][l] # 0
                          /\ cl_end[p][l] # 0 => cl_end'[p][l] < cl_end[p][l]
                          /\ \/ missedMin'[p][l] = cl_end'[p][l]
                             \/ /\ missedMin'[p][l] = missedMin[p][l]
                                /\ missedMin[p][l] # 0
                                /\ missedMin[p][l] <= cl_end'[p][l]
  OBVIOUS
<1>1. /\ cl_begin \in [Proc -> [Line -> Nat]] /\ cl_end \in [Proc -> [Line -> Nat]]
      /\ seenMax \in [Proc -> [Line -> Nat]] /\ missedMin \in [Proc -> [Line -> Nat]]
  BY DEF TypeInv, TypeOK
<1>2. Looked.seq \in Nat /\ Writer \in Proc /\ ReadLine \in Line
  BY LookedFacts
<1>3. /\ cl_begin[p][l] \in Nat /\ cl_end[p][l] \in Nat
      /\ seenMax[p][l] \in Nat /\ missedMin[p][l] \in Nat
  BY <1>1
<1> DEFINE here == p = Writer /\ l = ReadLine
<1>4. ASSUME See
      PROVE  seenMax'[p][l] = IF here /\ Hits THEN RaiseTo(seenMax[p][l], Looked.seq)
                                              ELSE seenMax[p][l]
  BY <1>1, <1>2, <1>4 DEF See
<1>5. CASE ReadRunning
  <2>1. UNCHANGED <<cl_end, missedMin>>
    BY <1>5 DEF ReadRunning
  <2>2. CASE Exposes
    <3>1. MarkPersisted /\ See
      BY <1>5, <2>2 DEF ReadRunning
    <3>2. cl_begin'[p][l] = IF here THEN RaiseTo(cl_begin[p][l], Looked.seq) ELSE cl_begin[p][l]
      BY <1>1, <1>2, <3>1 DEF MarkPersisted
    <3>3. QED
      BY <1>2, <1>3, <1>4, <2>1, <3>1, <3>2 DEF RaiseTo
  <2>3. CASE ~Exposes
    BY <1>3, <1>5, <2>1, <2>3 DEF ReadRunning
  <2>4. QED
    BY <2>2, <2>3
<1>6. CASE ReadMust
  <2>1. UNCHANGED <<cl_begin, cl_end, missedMin>> /\ See /\ MustPersist
    BY <1>6 DEF ReadMust
  <2>2. QED
    BY <1>2, <1>3, <1>4, <2>1 DEF MustPersist, RaiseTo
<1>7. CASE ReadLost
  <2> DEFINE n == IF missedMin[Writer][ReadLine] = 0 \/ Looked.seq < missedMin[Writer][ReadLine]
                  THEN Looked.seq ELSE missedMin[Writer][ReadLine]
  <2>1. /\ UNCHANGED <<cl_begin, seenMax>> /\ ~MustPersist /\ MayPersist
        /\ cl_end' = [cl_end EXCEPT ![Writer][ReadLine] = Looked.seq]
        /\ missedMin' = [missedMin EXCEPT ![Writer][ReadLine] = n]
    BY <1>7 DEF ReadLost, Deciding, MayPersist
  <2>2. n \in Nat
    BY <1>1, <1>2
  <2>3. cl_end'[p][l] = IF here THEN Looked.seq ELSE cl_end[p][l]
    BY <1>1, <1>2, <2>1
  <2>4. missedMin'[p][l] = IF here THEN n ELSE missedMin[p][l]
    <3> HIDE DEF n
    <3>1. QED
      BY <1>1, <1>2, <2>1, <2>2
  <2>5. CASE here
    <3>1. /\ Looked.seq # 0
          /\ cl_end[p][l] # 0 => Looked.seq < cl_end[p][l]
      BY <1>2, <1>3, <2>1, <2>5 DEF MustPersist, MayPersist
    <3>2. /\ cl_end'[p][l] = Looked.seq
          /\ \/ missedMin'[p][l] = Looked.seq
             \/ /\ missedMin'[p][l] = missedMin[p][l]
                /\ missedMin[p][l] # 0 /\ missedMin[p][l] <= Looked.seq
      <4>1. cl_end'[p][l] = Looked.seq /\ missedMin'[p][l] = n
        BY <2>3, <2>4, <2>5
      <4>2. missedMin[Writer][ReadLine] = missedMin[p][l]
        BY <2>5
      <4>3. n = Looked.seq \/ (n = missedMin[p][l] /\ n # 0 /\ n <= Looked.seq)
        BY <1>2, <1>3, <4>2
      <4> HIDE DEF n
      <4>4. QED
        BY <4>1, <4>3
    <3>3. cl_begin'[p][l] = cl_begin[p][l] /\ seenMax'[p][l] = seenMax[p][l]
      BY <2>1
    <3> HIDE DEF n, here
    <3>4. QED
      BY <1>3, <3>1, <3>2, <3>3
  <2>6. CASE ~here
    BY <1>3, <2>1, <2>3, <2>4, <2>6
  <2>7. QED
    BY <2>5, <2>6
<1>8. CASE ReadPersisted
  <2>1. /\ UNCHANGED <<cl_end, missedMin>> /\ See /\ ~MustPersist
        /\ cl_begin' = [cl_begin EXCEPT ![Writer][ReadLine] = Looked.seq]
    BY <1>8 DEF ReadPersisted, Deciding, MayPersist
  <2>2. cl_begin'[p][l] = IF here THEN Looked.seq ELSE cl_begin[p][l]
    BY <1>1, <1>2, <2>1
  <2>3. here => cl_begin[p][l] < Looked.seq
    BY <1>2, <1>3, <2>1 DEF MustPersist
  <2>4. QED
    BY <1>2, <1>3, <1>4, <2>1, <2>2, <2>3 DEF RaiseTo
<1>9. QED
  BY <1>5, <1>6, <1>7, <1>8

\* Every step keeps the cut invariant.
LEMMA StepCutInv == ASSUME TypeInv, CutInv, [Next]_vars PROVE CutInv'
<1> SUFFICES ASSUME NEW p \in Proc, NEW l \in Line
             PROVE  /\ seenMax'[p][l] <= cl_begin'[p][l]
                    /\ missedMin'[p][l] # 0 =>
                         cl_end'[p][l] # 0 /\ cl_end'[p][l] <= missedMin'[p][l]
  BY DEF CutInv
<1>1. /\ cl_begin[p][l] \in Nat /\ cl_end[p][l] \in Nat
      /\ seenMax[p][l] \in Nat /\ missedMin[p][l] \in Nat
      /\ seenMax[p][l] <= cl_begin[p][l]
      /\ missedMin[p][l] # 0 => cl_end[p][l] # 0 /\ cl_end[p][l] <= missedMin[p][l]
  BY DEF TypeInv, TypeOK, CutInv
<1>2. /\ cl_begin'[p][l] \in Nat /\ cl_end'[p][l] \in Nat
      /\ seenMax'[p][l] \in Nat /\ missedMin'[p][l] \in Nat
  <2>1. TypeOK'
    BY StepTypeInv DEF TypeInv
  <2>2. QED
    BY <2>1 DEF TypeOK
<1>3. CASE UNCHANGED <<cl_begin, cl_end, seenMax, missedMin>>
  BY <1>1, <1>3
<1>4. CASE PopClflush \/ FlushOne
  <2>1. cl_begin[p][l] <= cl_begin'[p][l] /\ UNCHANGED <<cl_end, seenMax, missedMin>>
    BY <1>4, FlushRaises
  <2>2. QED
    BY <1>1, <1>2, <2>1
<1>5. CASE ReadRunning \/ ReadMust \/ ReadLost \/ ReadPersisted
  <2>1. Reading
    BY <1>5 DEF ReadRunning, ReadMust, ReadLost, ReadPersisted, Deciding
  <2>2. /\ cl_begin[p][l] <= cl_begin'[p][l]
        /\ seenMax'[p][l] = seenMax[p][l] \/ seenMax'[p][l] <= cl_begin'[p][l]
        /\ \/ cl_end'[p][l] = cl_end[p][l] /\ missedMin'[p][l] = missedMin[p][l]
           \/ /\ cl_end'[p][l] # 0
              /\ cl_end[p][l] # 0 => cl_end'[p][l] < cl_end[p][l]
              /\ \/ missedMin'[p][l] = cl_end'[p][l]
                 \/ /\ missedMin'[p][l] = missedMin[p][l]
                    /\ missedMin[p][l] # 0
                    /\ missedMin[p][l] <= cl_end'[p][l]
    BY <1>5, <2>1, ReadRanges
  <2>3. QED
    BY <1>1, <1>2, <2>2
<1>6. QED
  BY <1>3, <1>4, <1>5, RangeFrame

\* Every reachable state of an execution satisfies the cut invariant, the
\* inductive strengthening of CutConsistent: what has been seen lies at or below
\* begin, and what has been decided not persisted at or above a set end.
THEOREM CutInvariant == Spec => []CutInv
<1>1. Init => CutInv
  BY DEF Init, CutInv
<1>2. TypeInv /\ CutInv /\ [Next]_vars => CutInv'
  BY StepCutInv
<1>3. QED
  BY <1>1, <1>2, TypeInvariant, PTL DEF Spec

\* For every program and any number of processes, words and lines: the stores of a
\* process that others have seen and those decided lost fit one write-back of each
\* cache line, unless that line was flushed after the decision.
THEOREM CutConsistency == Spec => []CutConsistent
<1>1. ASSUME TypeInv, CutInv PROVE CutConsistent
  <2> SUFFICES ASSUME NEW p \in Proc, NEW l \in Line, ~Inverted(p, l), missedMin[p][l] # 0
               PROVE  seenMax[p][l] < missedMin[p][l]
    BY DEF CutConsistent
  <2>1. /\ cl_begin[p][l] \in Nat /\ cl_end[p][l] \in Nat
        /\ seenMax[p][l] \in Nat /\ missedMin[p][l] \in Nat
    BY <1>1 DEF TypeInv, TypeOK
  <2>2. /\ seenMax[p][l] <= cl_begin[p][l]
        /\ cl_end[p][l] # 0 /\ cl_end[p][l] <= missedMin[p][l]
    BY <1>1 DEF CutInv
  <2>3. cl_begin[p][l] < cl_end[p][l]
    BY <2>1, <2>2 DEF Inverted
  <2>4. QED
    BY <2>1, <2>2, <2>3
<1>2. QED
  BY <1>1, CutInvariant, TypeInvariant, PTL

\* evict_clflush only ever picks live processes to crash.
LEMMA FlushVictimsType ==
    ASSUME TypeInv, NEW a \in Action, NEW n
    PROVE  \A v \in FlushVictims(a, n) : v \in Proc /\ IsLive(v)
<1>1. obj_to_wr[a.loc] \in Seq(Action)
  BY DEF TypeInv, TypeOK, Action
<1>2. ASSUME NEW i \in DOMAIN obj_to_wr[a.loc] PROVE ProcOf[obj_to_wr[a.loc][i].tid] \in Proc
  <2>1. obj_to_wr[a.loc][i] \in Action
    BY <1>1, <1>2, ElementOfSeq
  <2>2. QED
    BY <2>1, ThreadFacts DEF Action
<1>3. QED
  BY <1>2 DEF FlushVictims

\* A step crashes at most one process, and only while another crash is allowed:
\* a live process, or the one that calls insert_crash on itself.
LEMMA CrashFrame ==
    ASSUME TypeInv, [Next]_vars
    PROVE  \/ UNCHANGED crashes
           \/ /\ CrashAllowed
              /\ \E q \in Proc, n \in Nat :
                   /\ crashes' = [crashes EXCEPT ![q] = n]
                   /\ IsLive(q) \/ (InsertCrash /\ q = Me)
<1>1. Me \in Proc /\ next_sequence_num \in Nat /\ next_sequence_num + 1 \in Nat
  <2>1. active_thread \in Thread /\ next_sequence_num \in Nat
    BY DEF TypeInv, TypeOK
  <2>2. QED
    BY <2>1, ThreadFacts DEF Me
<1>2. CASE User
  <2>1. CASE InsertCrash
    <3>1. CrashAllowed /\ crashes' = [crashes EXCEPT ![Me] = next_sequence_num]
      BY <2>1 DEF InsertCrash, ShouldCrash
    <3>2. QED
      BY <1>1, <2>1, <3>1
  <2>2. QED
    BY <1>2, <2>1 DEF User, Call, CrashedCall, CallThreadFinish, CallShutdown, NoBacktrack,
                      procVars
<1>3. CASE Exec
  BY <1>3 DEF Exec, ExecStore, ExecCreate, ExecFlush, ExecMfence, ExecRmwr, ExecLoad, ExecNothing,
              ExecThreadFinish, ExecShutdown, procVars
<1>4. CASE Drain
  <2>1. ASSUME NEW vs, NEW n \in Nat, MaybeCrashOther(vs, n) \/ CrashSelf(vs, n),
               \A v \in vs : v \in Proc /\ IsLive(v)
        PROVE  \/ UNCHANGED crashes
               \/ /\ CrashAllowed
                  /\ \E q \in Proc : crashes' = [crashes EXCEPT ![q] = n] /\ IsLive(q)
    BY <2>1 DEF MaybeCrashOther, CrashSelf, ShouldCrash
  <2>2. CASE PopClflush
    <3>1. \A v \in FlushVictims(Popped, next_sequence_num) : v \in Proc /\ IsLive(v)
      <4>1. Popped \in Action
        BY <2>2, PoppedFacts DEF TypeInv, PopClflush
      <4>2. QED
        BY <4>1, FlushVictimsType
    <3>2. \/ MaybeCrashOther(FlushVictims(Popped, next_sequence_num), next_sequence_num + 1)
          \/ CrashSelf(FlushVictims(Popped, next_sequence_num), next_sequence_num + 1)
      BY <2>2 DEF PopClflush
    <3>3. QED
      BY <1>1, <2>1, <3>1, <3>2
  <2>3. CASE FlushOne
    <3> DEFINE a == Head(flushBuffer[tgt])
    <3>1. \A v \in FlushVictims(a, a.ee) : v \in Proc /\ IsLive(v)
      <4>1. flushBuffer[tgt] \in Seq(Action) /\ flushBuffer[tgt] # <<>>
        BY <2>3 DEF TypeInv, TypeOK, FlushOne
      <4>2. a \in Action
        BY <4>1, HeadTailProperties
      <4>3. QED
        BY <4>2, FlushVictimsType
    <3>2. \/ MaybeCrashOther(FlushVictims(a, a.ee), next_sequence_num)
          \/ CrashSelf(FlushVictims(a, a.ee), next_sequence_num)
      BY <2>3 DEF FlushOne
    <3>3. QED
      BY <1>1, <2>1, <3>1, <3>2
  <2>4. QED
    BY <1>4, <2>2, <2>3
       DEF Drain, PopStore, PopClflushopt, PopSfence, SfenceDone, DrainDone, DrainThenRead,
           ShutdownNext, ShutdownDone, procVars
<1>5. CASE Read
  <2>1. CASE ReadCrash
    <3>1. /\ Reading /\ crashes' = [crashes EXCEPT ![Writer] = next_sequence_num]
          /\ CrashAllowed /\ IsLive(Writer)
      BY <2>1 DEF ReadCrash, IsLive
    <3>2. Writer \in Proc
      BY <3>1, LookedFacts
    <3>3. QED
      BY <1>1, <3>1, <3>2
  <2>2. QED
    BY <1>5, <2>1 DEF Read, ReadRunning, ReadMust, ReadSkip, ReadLost, ReadPersisted
<1>6. CASE ProcessStoreBuffer \/ Return \/ RmwSecond
  BY <1>6 DEF ProcessStoreBuffer, Return, RmwSecond, procVars
<1>7. CASE UNCHANGED vars
  BY <1>7 DEF vars, procVars
<1>8. QED
  BY <1>2, <1>3, <1>4, <1>5, <1>6, <1>7 DEF Next, Inside, Finished

\* No step of any process loosens what is known about persistence: begin only
\* rises, a set end only falls, and a crash is never undone.
THEOREM Tightening == Spec => ConstraintsTighten
<1>1. ASSUME TypeInv, [Next]_vars PROVE [Tightens]_vars
  <2> SUFFICES ASSUME NEW p \in Proc
               PROVE  /\ Crashed(p) => crashes'[p] # NotCrashed
                      /\ \A l \in Line :
                           /\ cl_begin[p][l] <= cl_begin'[p][l]
                           /\ cl_end[p][l] # 0 =>
                                cl_end'[p][l] # 0 /\ cl_end'[p][l] <= cl_end[p][l]
    BY DEF Tightens
  <2>1. Crashed(p) => crashes'[p] # NotCrashed
    <3> SUFFICES ASSUME Crashed(p) PROVE crashes'[p] # NotCrashed
      OBVIOUS
    <3>0. /\ crashes \in [Proc -> Nat \cup {NotCrashed}] /\ crashes[p] # NotCrashed
          /\ next_sequence_num \in Nat
      BY <1>1 DEF Crashed, TypeInv, TypeOK
    <3>1. \/ UNCHANGED crashes
          \/ \E q \in Proc, n \in Nat : crashes' = [crashes EXCEPT ![q] = n]
      BY <1>1, CrashFrame
    <3>2. QED
      BY <3>0, <3>1 DEF NotCrashed
  <2>2. ASSUME NEW l \in Line
        PROVE  /\ cl_begin[p][l] <= cl_begin'[p][l]
               /\ cl_end[p][l] # 0 => cl_end'[p][l] # 0 /\ cl_end'[p][l] <= cl_end[p][l]
    <3>1. /\ cl_begin[p][l] \in Nat /\ cl_end[p][l] \in Nat
          /\ cl_begin'[p][l] \in Nat /\ cl_end'[p][l] \in Nat
      <4>1. TypeOK /\ TypeOK'
        BY <1>1, StepTypeInv DEF TypeInv
      <4>2. QED
        BY <4>1 DEF TypeOK
    <3>2. CASE UNCHANGED <<cl_begin, cl_end, seenMax, missedMin>>
      BY <3>1, <3>2
    <3>3. CASE PopClflush \/ FlushOne
      <4>1. cl_begin[p][l] <= cl_begin'[p][l] /\ UNCHANGED cl_end
        BY <1>1, <3>3, FlushRaises
      <4>2. QED
        BY <3>1, <4>1
    <3>4. CASE ReadRunning \/ ReadMust \/ ReadLost \/ ReadPersisted
      <4>1. Reading
        BY <3>4 DEF ReadRunning, ReadMust, ReadLost, ReadPersisted, Deciding
      <4>2. /\ cl_begin[p][l] <= cl_begin'[p][l]
            /\ \/ cl_end'[p][l] = cl_end[p][l]
               \/ /\ cl_end'[p][l] # 0
                  /\ cl_end[p][l] # 0 => cl_end'[p][l] < cl_end[p][l]
        BY <1>1, <3>4, <4>1, ReadRanges
      <4>3. QED
        BY <3>1, <4>2
    <3>5. QED
      BY <1>1, <3>2, <3>3, <3>4, RangeFrame
  <2>3. QED
    BY <2>1, <2>2
<1>2. QED
  BY <1>1, TypeInvariant, PTL DEF Spec, ConstraintsTighten

----------------------------------------------------------------------------
\* How many processes crash, and which.

\* The processes are finitely many.
LEMMA SomeProcs ==
    ASSUME NEW S \in SUBSET Proc PROVE IsFiniteSet(S) /\ Cardinality(S) \in Nat
<1>1. IsFiniteSet(Proc)
  <2>1. 0 \in Int /\ NProcs - 1 \in Int
    BY ProcAssumption
  <2>2. QED
    BY <2>1, FS_Interval DEF Proc
<1>2. IsFiniteSet(S)
  BY <1>1, FS_Subset
<1>3. QED
  BY <1>2, FS_CardinalityType

\* The number of crashes is a number.
LEMMA CrashCountType == CrashCount \in Nat /\ CrashCount' \in Nat
<1>1. Cardinality({p \in Proc : crashes[p] # NotCrashed}) \in Nat
  BY SomeProcs
<1>2. Cardinality({p \in Proc : crashes'[p] # NotCrashed}) \in Nat
  BY SomeProcs
<1>3. QED
  BY <1>1, <1>2 DEF CrashCount, Crashed

\* The crash of one process adds at most one to crashes.
LEMMA CrashAddsOne ==
    ASSUME TypeOK, NEW q \in Proc, NEW n \in Nat, crashes' = [crashes EXCEPT ![q] = n]
    PROVE  CrashCount' <= CrashCount + 1
<1> DEFINE S == {p \in Proc : Crashed(p)}
           T == {p \in Proc : crashes'[p] # NotCrashed}
<1>1. T = S \cup {q}
  BY DEF TypeOK, Crashed, NotCrashed
<1>2. IsFiniteSet(S) /\ CrashCount = Cardinality(S) /\ Cardinality(S) \in Nat
  BY SomeProcs DEF CrashCount
<1>3. CrashCount' = Cardinality(T)
  BY DEF CrashCount, Crashed
<1> HIDE DEF S, T
<1>4. Cardinality(S \cup {q}) = IF q \in S THEN Cardinality(S) ELSE Cardinality(S) + 1
  BY <1>2, FS_AddElement
<1>5. QED
  BY <1>1, <1>2, <1>3, <1>4

\* No step takes the number of crashes past its limit: evict_clflush,
\* build_read_from and insert_crash all test it before they crash anybody.
LEMMA StepCrashLimit ==
    ASSUME TypeInv, CrashLimit, [Next]_vars PROVE CrashLimit'
<1>1. MaxCrashes \in Nat /\ NProcs \in Nat /\ CrashCount \in Nat
  BY BoundAssumption, ProcAssumption, CrashCountType
<1>2. CrashCount' \in Nat
  BY CrashCountType
<1>3. CASE UNCHANGED crashes
  <2>1. CrashCount' = CrashCount
    BY <1>3 DEF CrashCount, Crashed
  <2>2. QED
    BY <2>1 DEF CrashLimit
<1>4. CASE CrashAllowed /\ \E q \in Proc, n \in Nat : crashes' = [crashes EXCEPT ![q] = n]
  <2>1. CrashCount' <= CrashCount + 1
    BY <1>4, CrashAddsOne DEF TypeInv
  <2>2. CrashCount < MaxCrashes /\ CrashCount + 1 < NProcs
    BY <1>4 DEF CrashAllowed
  <2>3. CrashCount' <= MaxCrashes /\ CrashCount' < NProcs
    BY <1>1, <1>2, <2>1, <2>2
  <2>4. QED
    BY <2>3 DEF CrashLimit
<1>5. QED
  BY <1>3, <1>4, CrashFrame

\* MAX_CRASHES_PER_EXECUTION holds for the three places that crash a process
\* together, and one process always survives.
THEOREM CrashesBounded == Spec => []CrashLimit
<1>1. ASSUME Init PROVE CrashLimit
  <2>1. {p \in Proc : Crashed(p)} = {}
    BY <1>1 DEF Init, Crashed
  <2>2. CrashCount = 0
    BY <2>1, FS_EmptySet DEF CrashCount
  <2>3. QED
    BY <2>2, BoundAssumption, ProcAssumption DEF CrashLimit
<1>2. QED
  BY <1>1, StepCrashLimit, TypeInvariant, PTL DEF Spec

----------------------------------------------------------------------------
\* Who runs.

\* A store-buffer pop is inside a fence only in a drain or an eviction.
FenceOK == fence => phase \in {"drain", "evict"}

\* Every step keeps FenceOK.
LEMMA StepFence == ASSUME TypeInv, FenceOK, [Next]_vars PROVE FenceOK'
<1> SUFFICES ASSUME fence' PROVE phase' \in {"drain", "evict"}
  BY DEF FenceOK
<1>1. ~ \E st : LastYield(st)
  BY DEF LastYield, ClearCtl
<1>2. CASE UNCHANGED <<fence, phase>>
  BY <1>2 DEF FenceOK
<1>3. CASE User
  BY <1>1, <1>2, <1>3 DEF User, Call, CrashedCall, CallThreadFinish, CallShutdown,
                          InsertCrash, NoBacktrack, ProcessCrashExit, ctlVars
<1>4. CASE Exec
  <2>1. phase = "run"
    BY <1>4 DEF Exec, ExecStore, ExecCreate, ExecFlush, ExecMfence, ExecRmwr, ExecLoad, ExecNothing,
                ExecThreadFinish, ExecShutdown, Executing
  <2>2. fence
    BY <1>1, <1>4 DEF Exec, ExecStore, ExecCreate, ExecFlush, ExecMfence, ExecRmwr, ExecLoad, ExecNothing,
                ExecThreadFinish, ExecShutdown, StartDrain, Post, BuildReadFrom
  <2>3. QED
    BY <2>1, <2>2 DEF FenceOK
<1>5. CASE Drain
  <2>1. CASE PopSfence
    BY <2>1 DEF PopSfence, CanPop
  <2>2. CASE PopClflush
    BY <1>1, <1>2, <2>2 DEF PopClflush, CrashSelf, ProcessCrashExit
  <2>3. CASE FlushOne
    BY <1>1, <1>2, <2>3 DEF FlushOne, CrashSelf, ProcessCrashExit, ctlVars
  <2>4. CASE DrainDone \/ DrainThenRead \/ ShutdownNext \/ ShutdownDone
    BY <1>1, <2>4 DEF DrainDone, DrainThenRead, ShutdownNext, ShutdownDone, Drained, Post,
                      BuildReadFrom, StartDrain
  <2>5. QED
    BY <1>2, <1>5, <2>1, <2>2, <2>3, <2>4 DEF Drain, PopStore, PopClflushopt, SfenceDone
<1>6. CASE Read
  <2>1. phase = "read" /\ UNCHANGED fence
    BY <1>6 DEF Read, ReadRunning, ReadCrash, ReadMust, ReadSkip, ReadLost, ReadPersisted,
                Deciding, Reading, Advance, ctlVars
  <2>2. QED
    BY <2>1 DEF FenceOK
<1>7. CASE ProcessStoreBuffer \/ Return \/ RmwSecond
  BY <1>7 DEF ProcessStoreBuffer, Return, RmwSecond, FenceOK
<1>8. CASE UNCHANGED vars
  BY <1>2, <1>8 DEF vars, ctlVars
<1>9. QED
  BY <1>3, <1>4, <1>5, <1>6, <1>7, <1>8 DEF Next, Inside, Finished

\* process_shutdown is draining the buffers of its process's threads.
ShuttingDown == phase = "drain" /\ Cur.type = "SHUTDOWN"

\* The token's holder runs, unless it is in process_shutdown; only main threads
\* get there, and the threads shut down so far do not run any more.  No thread of a
\* completed process runs.
Lively ==
    /\ phase # "done" /\ ~ShuttingDown => state[active_thread] = "RUNNING"
    /\ \A t \in Thread : pending[t].type = "SHUTDOWN" => t < NProcs
    /\ ShuttingDown =>
         \A u \in Thread : ProcOf[u] = Me /\ u <= tgt => state[u] # "RUNNING"
    /\ \A t \in Thread : state[t] = "RUNNING" => ProcOf[t] \notin completed_procs

\* Whoever last_yield passes the token to runs.
LEMMA LastYieldRuns ==
    ASSUME NEW st, LastYield(st)
    PROVE  /\ state' = st
           /\ phase' = "done" \/ (phase' = "run" /\ state'[active_thread'] = "RUNNING")
<1>1. PICK u \in Thread : /\ NextActive(st, u) /\ active_thread' = u
                          /\ phase' = IF u = active_thread THEN "done" ELSE "run"
  BY DEF LastYield
<1>2. u # active_thread => st[u] = "RUNNING"
  BY <1>1, Zenon DEF NextActive
<1>3. state' = st
  BY DEF LastYield
<1>4. QED
  BY <1>1, <1>2, <1>3

\* A thread that leaves its process, or ends, leaves the others as they are.
LEMMA LeaveLively ==
    ASSUME TypeInv, Lively, NEW st, LastYield(st),
           \A t \in Thread : st[t] = "RUNNING" => state[t] = "RUNNING",
           \A t \in Thread : pending'[t] = NoAct \/ pending'[t] = pending[t],
           \A t \in Thread : st[t] = "RUNNING" => ProcOf[t] \notin completed_procs'
    PROVE  Lively'
<1>1. /\ state' = st
      /\ phase' = "done" \/ (phase' = "run" /\ state'[active_thread'] = "RUNNING")
  BY LastYieldRuns
<1>2. \A t \in Thread : pending'[t].type = "SHUTDOWN" => t < NProcs
  BY DEF Lively, NoAct, Act
<1>3. ~ShuttingDown'
  BY <1>1 DEF ShuttingDown
<1>4. QED
  BY <1>1, <1>2, <1>3 DEF Lively

\* The running process's exit after its crash.
LEMMA ExitLively ==
    ASSUME TypeInv, Lively, ProcessCrashExit, UNCHANGED completed_procs PROVE Lively'
<1> DEFINE st == [t \in Thread |-> IF ProcOf[t] = Me /\ state[t] = "RUNNING"
                                   THEN "CRASHED" ELSE state[t]]
<1>1. LastYield(st)
  BY DEF ProcessCrashExit
<1>2. \A t \in Thread : st[t] = "RUNNING" => state[t] = "RUNNING"
  OBVIOUS
<1>3. \A t \in Thread : pending'[t] = NoAct \/ pending'[t] = pending[t]
  BY DEF ProcessCrashExit
<1>4. \A t \in Thread : st[t] = "RUNNING" => ProcOf[t] \notin completed_procs'
  BY <1>2 DEF Lively
<1> HIDE DEF st
<1>5. QED
  BY <1>1, <1>2, <1>3, <1>4, LeaveLively

\* A step inside Model::action that keeps the token.
LEMMA StayLively ==
    ASSUME TypeInv, Lively, UNCHANGED <<state, active_thread, completed_procs>>,
           phase # "done", phase' # "done",
           \A t \in Thread : pending'[t].type = "SHUTDOWN" => t < NProcs,
           ShuttingDown' <=> ShuttingDown, ShuttingDown => UNCHANGED tgt
    PROVE  Lively'
  BY DEF Lively, Me

\* A step that leaves the pending actions alone leaves whose they are.
LEMMA SameLively ==
    ASSUME TypeInv, Lively, UNCHANGED <<state, active_thread, completed_procs, pending>>,
           phase # "done", phase' # "done",
           ShuttingDown' <=> ShuttingDown, ShuttingDown => UNCHANGED tgt
    PROVE  Lively'
<1>1. \A t \in Thread : pending'[t].type = "SHUTDOWN" => t < NProcs
  BY DEF Lively
<1>2. QED
  BY <1>1, StayLively

\* The calls: an action is pending and the token goes to a thread that runs.
LEMMA CallLively ==
    ASSUME TypeInv, Lively, InUserCode, UNCHANGED <<state, completed_procs, phase>>,
           \A t \in Thread : pending'[t].type = "SHUTDOWN" => t < NProcs,
           NextActive(state, active_thread') \/ active_thread' = active_thread
    PROVE  Lively'
<1>1. phase = "run" /\ phase' = "run" /\ state[active_thread] = "RUNNING"
  BY DEF InUserCode, Lively, ShuttingDown
<1>2. state[active_thread'] = "RUNNING"
  BY <1>1, Zenon DEF NextActive
<1>3. QED
  BY <1>1, <1>2 DEF Lively, ShuttingDown

\* No API call is a shutdown.
LEMMA IssuedNoShutdown ==
    ASSUME NEW t, NEW name \in CallNames, NEW a \in Issued(t, name)
    PROVE  a.type = CallType(name) /\ a.type # "SHUTDOWN"
<1>1. a.type = CallType(name)
  BY DEF Issued, Act
<1>2. CallType(name) # "SHUTDOWN"
  BY DEF CallNames, CallType
<1>3. QED
  BY <1>1, <1>2

\* Giving the active thread an action other than SHUTDOWN.
LEMMA SetPending ==
    ASSUME TypeInv, Lively, NEW a, a.type # "SHUTDOWN" \/ active_thread < NProcs,
           pending' = [pending EXCEPT ![active_thread] = a]
    PROVE  \A t \in Thread : pending'[t].type = "SHUTDOWN" => t < NProcs
  BY DEF TypeInv, TypeOK, Lively

\* The steps of the programs keep Lively.
LEMMA UserLively == ASSUME TypeInv, Lively, User PROVE Lively'
<1>1. CASE Call
  <2>1. PICK name \in Calls[active_thread] :
          /\ \E a \in Issued(active_thread, name) :
               pending' = [pending EXCEPT ![active_thread] = a]
          /\ \E u \in Thread :
               /\ IF Yields(name) THEN NextActive(state, u) ELSE u = active_thread
               /\ active_thread' = u
    BY <1>1 DEF Call
  <2>2. PICK a \in Issued(active_thread, name) :
          pending' = [pending EXCEPT ![active_thread] = a]
    BY <2>1
  <2>3. name \in CallNames
    BY <2>1, BoundAssumption DEF TypeInv, TypeOK
  <2>4. \A t \in Thread : pending'[t].type = "SHUTDOWN" => t < NProcs
    BY <2>2, <2>3, IssuedNoShutdown, SetPending
  <2>5. NextActive(state, active_thread') \/ active_thread' = active_thread
    BY <2>1
  <2>6. InUserCode /\ UNCHANGED <<state, completed_procs, phase>>
    BY <1>1 DEF Call, procVars, ctlVars
  <2>7. QED
    BY <2>4, <2>5, <2>6, CallLively
<1>2. CASE CallThreadFinish \/ CallShutdown
  <2>1. \A t \in Thread : pending'[t].type = "SHUTDOWN" => t < NProcs
    <3>1. CASE CallThreadFinish
      <4> DEFINE a == Act("THREAD_FINISH", active_thread, AnyWord, {}, InitVal, FALSE)
      <4>1. a.type # "SHUTDOWN" /\ pending' = [pending EXCEPT ![active_thread] = a]
        BY <3>1 DEF CallThreadFinish, Act
      <4> HIDE DEF a
      <4>2. QED
        BY <4>1, SetPending
    <3>2. CASE CallShutdown
      <4> DEFINE a == Act("SHUTDOWN", active_thread, AnyWord, {}, InitVal, FALSE)
      <4>1. active_thread < NProcs /\ pending' = [pending EXCEPT ![active_thread] = a]
        BY <3>2 DEF CallShutdown
      <4> HIDE DEF a
      <4>2. QED
        BY <4>1, SetPending
    <3>3. QED
      BY <1>2, <3>1, <3>2
  <2>2. NextActive(state, active_thread')
    BY <1>2 DEF CallThreadFinish, CallShutdown
  <2>3. InUserCode /\ UNCHANGED <<state, completed_procs, phase>>
    BY <1>2 DEF CallThreadFinish, CallShutdown, procVars, ctlVars
  <2>4. QED
    BY <2>1, <2>2, <2>3, CallLively
<1>3. CASE CrashedCall \/ InsertCrash
  BY <1>3, ExitLively DEF CrashedCall, InsertCrash, procVars
<1>4. CASE NoBacktrack(TRUE) \/ NoBacktrack(FALSE)
  <2>1. /\ UNCHANGED <<state, active_thread, completed_procs, pending, phase>>
        /\ phase = "run"
    BY <1>4 DEF NoBacktrack, schVars, ctlVars, InUserCode
  <2>2. ~ShuttingDown /\ ~ShuttingDown'
    BY <2>1 DEF ShuttingDown
  <2>3. QED
    BY <2>1, <2>2, SameLively
<1>5. QED
  BY <1>1, <1>2, <1>3, <1>4 DEF User

\* The switch in execute keeps Lively.
LEMMA ExecLively == ASSUME TypeInv, Lively, Exec PROVE Lively'
<1>0. phase = "run" /\ ~ShuttingDown /\ Cur \in Action
  <2>1. phase = "run"
    BY DEF Exec, ExecStore, ExecCreate, ExecFlush, ExecMfence, ExecRmwr, ExecLoad, ExecNothing,
           ExecThreadFinish, ExecShutdown, Executing
  <2>2. QED
    BY <2>1, CurType DEF ShuttingDown, TypeInv
<1>1. CASE ExecStore \/ ExecCreate \/ ExecFlush \/ ExecMfence \/ ExecRmwr \/ ExecLoad \/ ExecNothing
  <2>1. Cur.type # "SHUTDOWN"
    BY <1>1 DEF ExecStore, ExecCreate, ExecFlush, ExecMfence, ExecRmwr, ExecLoad, ExecNothing,
                Stores, Flushes, Loads
  <2>2. UNCHANGED <<state, active_thread, completed_procs, pending>>
    BY <1>1 DEF ExecStore, ExecCreate, ExecFlush, ExecMfence, ExecRmwr, ExecLoad, ExecNothing,
                schVars, procVars
  <2>3. phase' # "done"
    BY <1>1 DEF ExecStore, ExecCreate, ExecFlush, ExecMfence, ExecRmwr, ExecLoad, ExecNothing,
                StartDrain, Post, BuildReadFrom
  <2>4. ~ShuttingDown'
    BY <2>1, <2>2 DEF ShuttingDown, Cur
  <2>5. QED
    BY <1>0, <2>2, <2>3, <2>4, SameLively
<1>2. CASE ExecThreadFinish
  <2> DEFINE st == [state EXCEPT ![active_thread] = "COMPLETED"]
  <2>1. LastYield(st) /\ UNCHANGED completed_procs
    BY <1>2 DEF ExecThreadFinish, procVars
  <2>2. \A t \in Thread : st[t] = "RUNNING" => state[t] = "RUNNING"
    BY DEF TypeInv, TypeOK
  <2>3. \A t \in Thread : pending'[t] = NoAct \/ pending'[t] = pending[t]
    BY <1>2 DEF ExecThreadFinish, TypeInv, TypeOK
  <2>4. \A t \in Thread : st[t] = "RUNNING" => ProcOf[t] \notin completed_procs'
    BY <2>1, <2>2 DEF Lively
  <2> HIDE DEF st
  <2>5. QED
    BY <2>1, <2>2, <2>3, <2>4, LeaveLively
<1>3. CASE ExecShutdown
  <2>1. /\ state' = Completed(active_thread) /\ phase' = "drain" /\ tgt' = active_thread
        /\ UNCHANGED <<active_thread, pending, completed_procs>> /\ Cur.type = "SHUTDOWN"
    BY <1>3 DEF ExecShutdown, StartDrain, procVars
  <2>2. \A t \in Thread : state'[t] = "RUNNING" => state[t] = "RUNNING" /\ t # active_thread
    BY <2>1 DEF Completed, TypeInv, TypeOK
  <2>3. active_thread \in Thread /\ active_thread < NProcs
    BY <2>1 DEF Lively, Cur, TypeInv, TypeOK
  <2>4. ASSUME NEW u \in Thread, ProcOf[u] = Me, u <= active_thread PROVE u = active_thread
    <3>1. u \in Proc /\ active_thread \in Proc
      BY <2>3, <2>4, ProcAssumption DEF Proc, Thread
    <3>2. QED
      BY <2>4, <3>1, ProcAssumption DEF Me
  <2>5. ShuttingDown'
    BY <2>1 DEF ShuttingDown, Cur
  <2>6. \A u \in Thread : ProcOf[u] = Me' /\ u <= tgt' => state'[u] # "RUNNING"
    BY <2>1, <2>2, <2>4 DEF Me
  <2>7. QED
    BY <2>1, <2>2, <2>5, <2>6 DEF Lively
<1>4. QED
  BY <1>1, <1>2, <1>3 DEF Exec

\* The drains and evictions keep Lively.
LEMMA DrainLively == ASSUME TypeInv, Lively, Drain, phase # "done" PROVE Lively'
<1>1. ASSUME UNCHANGED <<state, active_thread, completed_procs, pending, phase, tgt>>
      PROVE  Lively'
  <2>1. ShuttingDown' <=> ShuttingDown
    BY <1>1 DEF ShuttingDown, Cur
  <2>2. QED
    BY <1>1, <2>1, SameLively
<1>2. CASE PopStore \/ PopClflushopt \/ PopSfence \/ SfenceDone
  BY <1>1, <1>2 DEF PopStore, PopClflushopt, PopSfence, SfenceDone, schVars, procVars
<1>3. CASE PopClflush
  <2>1. CASE UNCHANGED <<schVars, phase, tgt, fence, rf, itr, pending>>
    BY <1>1, <1>3, <2>1 DEF PopClflush, schVars
  <2>2. CASE ProcessCrashExit
    BY <1>3, <2>2, ExitLively DEF PopClflush
  <2>3. QED
    BY <1>3, <2>1, <2>2 DEF PopClflush, CrashSelf
<1>4. CASE FlushOne
  <2>1. CASE UNCHANGED <<schVars, ctlVars, pending>>
    BY <1>1, <1>4, <2>1 DEF FlushOne, schVars, ctlVars
  <2>2. CASE ProcessCrashExit
    BY <1>4, <2>2, ExitLively DEF FlushOne
  <2>3. QED
    BY <1>4, <2>1, <2>2 DEF FlushOne, CrashSelf
<1>5. CASE DrainDone \/ DrainThenRead
  <2>1. Cur.type # "SHUTDOWN" /\ phase' # "done"
        /\ UNCHANGED <<state, active_thread, completed_procs, pending>>
    BY <1>5 DEF DrainDone, DrainThenRead, Post, BuildReadFrom, schVars, procVars
  <2>2. ~ShuttingDown /\ ~ShuttingDown'
    BY <2>1 DEF ShuttingDown, Cur
  <2>3. QED
    BY <2>1, <2>2, SameLively
<1>6. CASE ShutdownNext
  <2>1. PICK t \in LaterThreads : /\ \A u \in LaterThreads : t <= u
                                  /\ state' = Completed(t) /\ StartDrain(t)
    BY <1>6 DEF ShutdownNext
  <2>2. /\ phase' = "drain" /\ tgt' = t /\ Cur.type = "SHUTDOWN" /\ phase = "drain"
        /\ UNCHANGED <<active_thread, pending, completed_procs>>
    BY <1>6, <2>1 DEF ShutdownNext, StartDrain, procVars, Drained
  <2>3. \A u \in Thread : state'[u] = "RUNNING" => state[u] = "RUNNING" /\ u # t
    BY <2>1 DEF Completed, LaterThreads, TypeInv, TypeOK
  <2>4. ShuttingDown /\ ShuttingDown'
    BY <2>2 DEF ShuttingDown, Cur
  <2>5. ASSUME NEW u \in Thread, ProcOf[u] = Me, u <= t PROVE state'[u] # "RUNNING"
    <3>1. u <= tgt \/ u = t
      <4>1. u \in Int /\ t \in Int /\ tgt \in Int
        BY ProcAssumption DEF LaterThreads, Thread, TypeInv, TypeOK
      <4>2. u > tgt => u \in LaterThreads
        BY <2>5 DEF LaterThreads
      <4>3. QED
        BY <2>1, <2>5, <4>1, <4>2
    <3>2. QED
      BY <2>3, <2>4, <2>5, <3>1 DEF Lively
  <2>6. QED
    BY <2>2, <2>3, <2>4, <2>5 DEF Lively, Me
<1>7. CASE ShutdownDone
  <2>1. /\ Drained /\ Cur.type = "SHUTDOWN" /\ LaterThreads = {} /\ LastYield(state)
        /\ completed_procs' = completed_procs \cup {Me}
        /\ pending' = [t \in Thread |-> IF ProcOf[t] = Me THEN NoAct ELSE pending[t]]
    BY <1>7 DEF ShutdownDone
  <2>2. ASSUME NEW t \in Thread, state[t] = "RUNNING" PROVE ProcOf[t] # Me
    <3>1. ShuttingDown
      BY <2>1 DEF ShuttingDown, Drained
    <3>2. ProcOf[t] = Me => t > tgt
      <4>1. t \in Int /\ tgt \in Int
        BY ProcAssumption DEF Thread, TypeInv, TypeOK
      <4>2. QED
        BY <2>2, <3>1, <4>1 DEF Lively
    <3>3. QED
      BY <2>1, <2>2, <3>2 DEF LaterThreads
  <2>3. \A t \in Thread : state[t] = "RUNNING" => ProcOf[t] \notin completed_procs'
    BY <2>1, <2>2 DEF Lively
  <2>4. \A t \in Thread : pending'[t] = NoAct \/ pending'[t] = pending[t]
    BY <2>1
  <2>5. QED
    BY <2>1, <2>3, <2>4, LeaveLively
<1>8. QED
  BY <1>2, <1>3, <1>4, <1>5, <1>6, <1>7 DEF Drain

\* No step lets a thread run that does not, or a completed process run on.
LEMMA StepLively == ASSUME TypeInv, FenceOK, Lively, [Next]_vars PROVE Lively'
<1>1. CASE Drain
  <2>1. CASE phase # "done"
    BY <1>1, <2>1, DrainLively
  <2>2. CASE phase = "done"
    <3>1. SfenceDone \/ FlushOne
      BY <1>1, <2>2 DEF Drain, PopStore, PopClflushopt, PopSfence, PopClflush, CanPop,
           DrainDone, DrainThenRead, ShutdownNext, ShutdownDone, Drained
    <3>2. QED
      BY <2>2, <3>1 DEF FenceOK, SfenceDone, FlushOne
  <2>3. QED
    BY <2>1, <2>2
<1>2. CASE Read
  <2>1. UNCHANGED <<state, active_thread, completed_procs, pending>> /\ phase = "read"
    BY <1>2 DEF Read, ReadRunning, ReadCrash, ReadMust, ReadSkip, ReadLost, ReadPersisted,
                Deciding, Reading, ReadFrame, schVars
  <2>2. phase' \in {"read", "post"}
    BY <1>2, <2>1 DEF Read, ReadRunning, ReadCrash, ReadMust, ReadSkip, ReadLost,
                      ReadPersisted, Advance, ctlVars
  <2>3. ~ShuttingDown /\ ~ShuttingDown'
    BY <2>1, <2>2 DEF ShuttingDown
  <2>4. QED
    BY <2>1, <2>2, <2>3, SameLively
<1>3. CASE ProcessStoreBuffer
  <2>1. /\ UNCHANGED <<state, active_thread, completed_procs, pending>>
        /\ phase = "post" /\ phase' = "evict"
    BY <1>3 DEF ProcessStoreBuffer, schVars, procVars
  <2>2. ~ShuttingDown /\ ~ShuttingDown'
    BY <2>1 DEF ShuttingDown
  <2>3. QED
    BY <2>1, <2>2, SameLively
<1>4. CASE Return
  <2>1. /\ UNCHANGED <<state, active_thread, completed_procs>>
        /\ phase = "evict" /\ phase' \in {"rmw", "run"}
    BY <1>4 DEF Return, schVars, procVars
  <2>2. ~ShuttingDown /\ ~ShuttingDown'
    BY <2>1 DEF ShuttingDown
  <2>3. \A t \in Thread : pending'[t].type = "SHUTDOWN" => t < NProcs
    <3>1. CASE UNCHANGED pending
      BY <3>1 DEF Lively
    <3>2. CASE pending' = [pending EXCEPT ![active_thread] = NoAct]
      <4>1. NoAct.type # "SHUTDOWN"
        BY DEF NoAct, Act
      <4>2. QED
        BY <3>2, <4>1, SetPending
    <3>3. QED
      BY <1>4, <3>1, <3>2 DEF Return
  <2>4. QED
    BY <2>1, <2>2, <2>3, StayLively
<1>5. CASE RmwSecond
  <2>1. /\ UNCHANGED <<state, active_thread, completed_procs>>
        /\ phase = "rmw" /\ phase' = "run"
    BY <1>5 DEF RmwSecond, schVars, procVars
  <2>2. ~ShuttingDown /\ ~ShuttingDown'
    BY <2>1 DEF ShuttingDown
  <2>3. \A t \in Thread : pending'[t].type = "SHUTDOWN" => t < NProcs
    <3>1. pending[active_thread] \in Action
      BY DEF TypeInv, TypeOK
    <3>2. /\ \A v \in Val : [pending[active_thread] EXCEPT !.type = "ATOMIC_RMW", !.val = v].type
                              = "ATOMIC_RMW"
          /\ [pending[active_thread] EXCEPT !.type = "ATOMIC_CAS_FAILED"].type
                              = "ATOMIC_CAS_FAILED"
      BY <3>1 DEF Action
    <3>3. \E a : a.type # "SHUTDOWN" /\ pending' = [pending EXCEPT ![active_thread] = a]
      <4>1. \/ \E v \in Val : pending' = [pending EXCEPT ![active_thread] =
                       [pending[active_thread] EXCEPT !.type = "ATOMIC_RMW", !.val = v]]
            \/ pending' = [pending EXCEPT ![active_thread] =
                       [pending[active_thread] EXCEPT !.type = "ATOMIC_CAS_FAILED"]]
        BY <1>5 DEF RmwSecond
      <4>2. QED
        BY <3>2, <4>1, Zenon
    <3>4. QED
      BY <3>3, SetPending
  <2>4. QED
    BY <2>1, <2>2, <2>3, StayLively
<1>6. CASE UNCHANGED vars
  BY <1>6 DEF vars, schVars, procVars, ctlVars, Lively, ShuttingDown, Cur, Me
<1>7. QED
  BY <1>1, <1>2, <1>3, <1>4, <1>5, <1>6, UserLively, ExecLively DEF Next, Inside, Finished

\* Lively holds in the initial state.
LEMMA InitLively == ASSUME Init PROVE Lively
  BY ThreadFacts DEF Init, Lively, ShuttingDown, NoAct, Act

\* In every execution the holder of the token runs or shuts its process down.
THEOREM LivelyInvariant == Spec => [](FenceOK /\ Lively)
<1>1. ASSUME Init PROVE FenceOK /\ Lively
  BY <1>1, InitLively DEF Init, FenceOK
<1>2. ASSUME TypeInv, FenceOK /\ Lively, [Next]_vars PROVE (FenceOK /\ Lively)'
  BY <1>2, StepFence, StepLively
<1>3. QED
  BY <1>1, <1>2, TypeInvariant, PTL DEF Spec

\* A process that shut down is not crashed afterwards: evict_clflush and
\* build_read_from crash live processes only, and no thread of a completed process
\* is left to call insert_crash.
THEOREM ShutDownForGood == Spec => CompletedStays
<1>1. ASSUME TypeInv, Lively, [Next]_vars
      PROVE  [\A p \in completed_procs : ~Crashed(p) => crashes'[p] = NotCrashed]_vars
  <2> SUFFICES ASSUME NEW p \in completed_procs, crashes[p] = NotCrashed
               PROVE  crashes'[p] = NotCrashed
    BY DEF Crashed
  <2>1. p \in Proc /\ crashes \in [Proc -> Nat \cup {NotCrashed}] /\ active_thread \in Thread
    BY <1>1 DEF TypeInv, TypeOK
  <2>2. CASE UNCHANGED crashes
    BY <2>2
  <2>3. ASSUME NEW q \in Proc, NEW n \in Nat, crashes' = [crashes EXCEPT ![q] = n],
               IsLive(q) \/ (InsertCrash /\ q = Me)
        PROVE  crashes'[p] = NotCrashed
    <3>1. InsertCrash => Me \notin completed_procs
      BY <1>1, <2>1 DEF InsertCrash, InUserCode, Lively, ShuttingDown, Me
    <3>2. q # p
      BY <2>3, <3>1 DEF IsLive
    <3>3. QED
      BY <2>1, <2>3, <3>2
  <2>4. QED
    BY <1>1, <2>2, <2>3, CrashFrame
<1>2. QED
  BY <1>1, LivelyInvariant, TypeInvariant, PTL DEF Spec, CompletedStays

-----------------------------------------------------------------------------
\* Flushed stores are durable: the clock a clflushopt is given when it leaves the
\* store buffer covers every store its thread had made to the line, and it stays in
\* the flush buffer until begin has been raised.

\* A thread's pending action and its buffered ones carry its own thread id.
Owned ==
    /\ \A t \in Thread : pending[t] # NoAct => pending[t].tid = t
    /\ phase = "rmw" => Cur.type = "ATOMIC_RMWR"
    /\ \A t \in Thread : \A i \in 1 .. Len(storeBuffer[t]) : storeBuffer[t][i].tid = t

\* cl_to_last_wr_clf is no older than any store of its thread to the line.
StoresCovered ==
    /\ \A w \in Word : \A i \in 1 .. Len(obj_to_wr[w]) :
           obj_to_wr[w][i].seq <= cl_to_last_wr_clf[obj_to_wr[w][i].tid][LineOf[w]]
    /\ \A t \in Thread, l \in Line : cl_to_last_wr_clf[t][l] <= next_sequence_num

\* A promise is kept by every begin, or by a flush that still waits.
Covers(t, l) ==
    \E i \in 1 .. Len(flushBuffer[t]) :
        /\ LineOf[flushBuffer[t][i].loc] = l
        /\ promised[t][l] <= flushBuffer[t][i].ee

Kept(t, l) == \A p \in Proc : promised[t][l] <= cl_begin[p][l]

PromisesKept == \A t \in Thread, l \in Line : Kept(t, l) \/ Covers(t, l)

FlushInv == Owned /\ StoresCovered /\ PromisesKept

----------------------------------------------------------------------------
\* Whose actions are whose.

\* The missing action's type, and its thread.
LEMMA NoActFacts == NoAct.tid = 0 /\ NoAct.type = "NONE"
  BY DEF NoAct, Act

\* A call creates actions of its own thread.
LEMMA IssuedTid ==
    ASSUME NEW t, NEW name, NEW a \in Issued(t, name) PROVE a.tid = t
  BY DEF Issued, Act

\* pending is only set to actions of the active thread, or cleared.
LEMMA PendingFrame ==
    ASSUME TypeInv, Owned, [Next]_vars
    PROVE  \A t \in Thread : pending'[t] # NoAct => pending'[t].tid = t
<1> SUFFICES ASSUME NEW t \in Thread, pending'[t] # NoAct PROVE pending'[t].tid = t
  OBVIOUS
<1>1. /\ pending \in [Thread -> Action] /\ active_thread \in Thread
      /\ pending[t] # NoAct => pending[t].tid = t
  BY DEF TypeInv, TypeOK, Owned
<1>2. CASE UNCHANGED pending
  BY <1>1, <1>2
<1>3. CASE ProcessCrashExit \/ ShutdownDone
  <2>1. pending' = [u \in Thread |-> IF ProcOf[u] = Me THEN NoAct ELSE pending[u]]
    BY <1>3 DEF ProcessCrashExit, ShutdownDone
  <2>2. QED
    BY <1>1, <2>1
<1>4. ASSUME NEW a, pending' = [pending EXCEPT ![active_thread] = a],
             a = NoAct \/ a.tid = active_thread
      PROVE  pending'[t].tid = t
  BY <1>1, <1>4
<1>5. CASE User
  <2>1. CASE Call
    <3>1. \E name \in Calls[active_thread] : \E a \in Issued(active_thread, name) :
              pending' = [pending EXCEPT ![active_thread] = a]
      BY <2>1 DEF Call
    <3>2. QED
      BY <1>4, <3>1, IssuedTid
  <2>2. CASE CallThreadFinish
    BY <1>4, <2>2 DEF CallThreadFinish, Act
  <2>3. CASE CallShutdown
    BY <1>4, <2>3 DEF CallShutdown, Act
  <2>4. QED
    BY <1>2, <1>3, <1>5, <2>1, <2>2, <2>3
       DEF User, CrashedCall, InsertCrash, NoBacktrack
<1>6. CASE Exec
  <2>1. CASE ExecThreadFinish
    BY <1>4, <2>1 DEF ExecThreadFinish
  <2>2. QED
    BY <1>2, <1>6, <2>1
       DEF Exec, ExecStore, ExecCreate, ExecFlush, ExecMfence, ExecRmwr, ExecLoad, ExecNothing, ExecShutdown
<1>7. CASE Drain
  <2>1. CASE PopClflush
    BY <1>2, <1>3, <2>1 DEF PopClflush, CrashSelf
  <2>2. CASE FlushOne
    BY <1>2, <1>3, <2>2 DEF FlushOne, CrashSelf
  <2>3. QED
    BY <1>2, <1>3, <1>7, <2>1, <2>2
       DEF Drain, PopStore, PopClflushopt, PopSfence, SfenceDone, DrainDone, DrainThenRead,
           ShutdownNext
<1>8. CASE Read
  BY <1>2, <1>8, ReadFrameFacts
     DEF Read, ReadRunning, ReadCrash, ReadMust, ReadSkip, ReadLost, ReadPersisted
<1>9. CASE ProcessStoreBuffer
  BY <1>2, <1>9 DEF ProcessStoreBuffer
<1>10. CASE Return
  BY <1>2, <1>4, <1>10 DEF Return
<1>11. CASE RmwSecond
  <2>1. Cur.type = "ATOMIC_RMWR"
    BY <1>11 DEF Owned, RmwSecond
  <2>2. Cur # NoAct
    BY <2>1, NoActFacts
  <2>3. pending[active_thread].tid = active_thread
    BY <1>1, <2>2 DEF Owned, Cur
  <2>4. \/ \E v \in Val :
            pending' = [pending EXCEPT ![active_thread] =
                          [@ EXCEPT !.type = "ATOMIC_RMW", !.val = v]]
        \/ pending' = [pending EXCEPT ![active_thread] =
                          [@ EXCEPT !.type = "ATOMIC_CAS_FAILED"]]
    BY <1>11 DEF RmwSecond
  <2>5. pending[active_thread] \in Action
    BY <1>1
  <2>6. /\ \A v \in Val : [pending[active_thread] EXCEPT !.type = "ATOMIC_RMW", !.val = v].tid
                            = active_thread
        /\ [pending[active_thread] EXCEPT !.type = "ATOMIC_CAS_FAILED"].tid = active_thread
    BY <2>3, <2>5 DEF Action
  <2>7. QED
    BY <1>4, <2>4, <2>6
<1>12. CASE UNCHANGED vars
  BY <1>2, <1>12 DEF vars
<1>13. QED
  BY <1>5, <1>6, <1>7, <1>8, <1>9, <1>10, <1>11, <1>12 DEF Next, Inside, Finished

\* The phase between the halves of a read-modify-write is entered by Return only.
LEMMA RmwFrame ==
    ASSUME TypeInv, Owned, [Next]_vars, phase' = "rmw"
    PROVE  Cur'.type = "ATOMIC_RMWR"
<1>1. CASE UNCHANGED <<phase, pending, active_thread>>
  BY <1>1 DEF Owned, Cur
<1>2. ~ \E st : LastYield(st)
  BY DEF LastYield
<1>3. CASE User
  <2>1. phase = "run"
    BY <1>2, <1>3 DEF User, Call, CrashedCall, CallThreadFinish, CallShutdown, InsertCrash,
                      NoBacktrack, InUserCode, ProcessCrashExit
  <2>2. QED
    BY <1>2, <1>3, <2>1 DEF User, Call, CrashedCall, CallThreadFinish, CallShutdown, InsertCrash,
                      NoBacktrack, ProcessCrashExit, ctlVars
<1>4. CASE Exec
  BY <1>2, <1>4 DEF Exec, ExecStore, ExecCreate, ExecFlush, ExecMfence, ExecRmwr, ExecLoad, ExecNothing,
                    ExecThreadFinish, ExecShutdown, StartDrain, Post, BuildReadFrom
<1>5. CASE Drain
  <2>1. CASE PopClflush
    BY <1>1, <1>2, <2>1 DEF PopClflush, CrashSelf, ProcessCrashExit, schVars
  <2>2. CASE FlushOne
    BY <1>1, <1>2, <2>2 DEF FlushOne, CrashSelf, ProcessCrashExit, schVars, ctlVars
  <2>3. CASE PopStore \/ PopClflushopt \/ PopSfence \/ SfenceDone
    BY <1>1, <2>3 DEF PopStore, PopClflushopt, PopSfence, SfenceDone, schVars
  <2>4. CASE DrainDone \/ DrainThenRead \/ ShutdownNext \/ ShutdownDone
    BY <1>2, <2>4 DEF DrainDone, DrainThenRead, ShutdownNext, ShutdownDone, Post, StartDrain,
                      BuildReadFrom
  <2>5. QED
    BY <1>5, <2>1, <2>2, <2>3, <2>4 DEF Drain
<1>6. CASE Read
  <2>1. CASE ReadCrash
    BY <1>1, <2>1, ReadFrameFacts DEF ReadCrash, ctlVars
  <2>2. CASE ReadRunning \/ ReadMust \/ ReadSkip \/ ReadLost \/ ReadPersisted
    <3>1. \E r : Advance(r)
      BY <2>2 DEF ReadRunning, ReadMust, ReadSkip, ReadLost, ReadPersisted
    <3>2. QED
      BY <3>1 DEF Advance
  <2>3. QED
    BY <1>6, <2>1, <2>2 DEF Read
<1>7. CASE ProcessStoreBuffer
  BY <1>7 DEF ProcessStoreBuffer
<1>8. CASE Return
  BY <1>8 DEF Return, Cur, schVars
<1>9. CASE RmwSecond
  BY <1>9 DEF RmwSecond
<1>10. CASE UNCHANGED vars
  BY <1>1, <1>10 DEF vars, schVars, ctlVars
<1>11. QED
  BY <1>3, <1>4, <1>5, <1>6, <1>7, <1>8, <1>9, <1>10 DEF Next, Inside, Finished

\* The buffers of a thread: what a step does to them.
LEMMA BufferFrame ==
    ASSUME [Next]_vars
    PROVE  \/ UNCHANGED storeBuffer
           \/ ExecStore \/ ExecCreate \/ ExecFlush
           \/ CanPop /\ storeBuffer' = [storeBuffer EXCEPT ![tgt] = Tail(@)]
<1>1. CASE User
  BY <1>1 DEF User, Call, CrashedCall, CallThreadFinish, CallShutdown, InsertCrash,
              NoBacktrack, thrVars
<1>2. CASE Exec
  BY <1>2 DEF Exec, ExecMfence, ExecRmwr, ExecLoad, ExecNothing, ExecThreadFinish,
              ExecShutdown, thrVars
<1>3. CASE Drain
  BY <1>3 DEF Drain, PopStore, PopClflushopt, PopSfence, SfenceDone, PopClflush, FlushOne,
              DrainDone, DrainThenRead, ShutdownNext, ShutdownDone, Pop, thrVars
<1>4. CASE Read
  BY <1>4, ReadFrameFacts
     DEF Read, ReadRunning, ReadCrash, ReadMust, ReadSkip, ReadLost, ReadPersisted
<1>5. CASE ProcessStoreBuffer \/ Return \/ RmwSecond
  BY <1>5 DEF ProcessStoreBuffer, Return, RmwSecond, thrVars
<1>6. CASE UNCHANGED vars
  BY <1>6 DEF vars, thrVars
<1>7. QED
  BY <1>1, <1>2, <1>3, <1>4, <1>5, <1>6 DEF Next, Inside, Finished

\* Every step keeps Owned.
LEMMA StepOwned == ASSUME TypeInv, Owned, [Next]_vars PROVE Owned'
<1>1. ASSUME NEW t \in Thread, NEW i \in 1 .. Len(storeBuffer'[t])
      PROVE  storeBuffer'[t][i].tid = t
  <2>1. /\ storeBuffer \in [Thread -> Seq(Action)] /\ active_thread \in Thread /\ TypeOK
        /\ \A j \in 1 .. Len(storeBuffer[t]) : storeBuffer[t][j].tid = t
        /\ storeBuffer[t] \in Seq(Action) /\ Len(storeBuffer[t]) \in Nat
    <3>1. storeBuffer \in [Thread -> Seq(Action)] /\ active_thread \in Thread /\ TypeOK
      BY DEF TypeInv, TypeOK
    <3>2. storeBuffer[t] \in Seq(Action) /\ Len(storeBuffer[t]) \in Nat
      BY <3>1
    <3>3. \A j \in 1 .. Len(storeBuffer[t]) : storeBuffer[t][j].tid = t
      BY DEF Owned
    <3>4. QED
      BY <3>1, <3>2, <3>3
  <2>2. CASE UNCHANGED storeBuffer
    BY <1>1, <2>1, <2>2
  <2>3. CASE ExecStore \/ ExecCreate \/ ExecFlush
    <3>1. Cur \in Action /\ Cur.tid = active_thread
      <4>1. Executing
        BY <2>3 DEF ExecStore, ExecCreate, ExecFlush
      <4>2. QED
        BY <2>1, <4>1, CurType DEF Executing, Owned, Cur
    <3>2. PICK a \in Action : AddToStoreBuffer(a) /\ a.tid = active_thread
      <4>1. [Cur EXCEPT !.ee = next_sequence_num] \in Action
            /\ [Cur EXCEPT !.ee = next_sequence_num].tid = active_thread
        BY <2>1, <3>1 DEF Action, TypeOK
      <4>2. [Cur EXCEPT !.type = "NONATOMIC_STORE", !.fp = IdFootprint] \in Action
            /\ [Cur EXCEPT !.type = "NONATOMIC_STORE", !.fp = IdFootprint].tid = active_thread
        BY <2>1, <3>1, AddressAssumption DEF Action, Types
      <4>3. QED
        BY <2>3, <3>1, <4>1, <4>2 DEF ExecStore, ExecCreate, ExecFlush
    <3> DEFINE c == CopyAction(a)
    <3>3. c \in Action /\ c.tid = active_thread
      BY <3>2 DEF CopyAction, Action
    <3>4. storeBuffer' = [storeBuffer EXCEPT ![active_thread] = Append(@, c)]
      BY <3>2 DEF AddToStoreBuffer
    <3> HIDE DEF c
    <3>5. CASE t = active_thread
      <4>1. storeBuffer'[t] = Append(storeBuffer[t], c)
        BY <2>1, <3>4, <3>5
      <4>2. i \in 1 .. Len(storeBuffer[t]) + 1
        BY <1>1, <2>1, <3>3, <4>1, AppendProperties
      <4>3. CASE i = Len(storeBuffer[t]) + 1
        BY <2>1, <3>3, <3>5, <4>1, <4>3, AppendProperties
      <4>4. CASE i # Len(storeBuffer[t]) + 1
        <5>1. i \in 1 .. Len(storeBuffer[t])
          <6>1. Len(storeBuffer[t]) \in Nat
            BY <2>1
          <6>2. QED
            BY <4>2, <4>4, <6>1
        <5>2. storeBuffer'[t][i] = storeBuffer[t][i]
          BY <2>1, <3>3, <4>1, <5>1, AppendProperties
        <5>3. QED
          BY <2>1, <5>1, <5>2
      <4>5. QED
        BY <4>3, <4>4
    <3>6. CASE t # active_thread
      BY <1>1, <2>1, <3>4, <3>6
    <3>7. QED
      BY <3>5, <3>6
  <2>4. CASE CanPop /\ storeBuffer' = [storeBuffer EXCEPT ![tgt] = Tail(@)]
    <3>1. CASE t = tgt
      <4>1. storeBuffer'[t] = Tail(storeBuffer[t]) /\ storeBuffer[t] # <<>>
        BY <2>1, <2>4, <3>1 DEF CanPop
      <4>2. /\ Len(Tail(storeBuffer[t])) = Len(storeBuffer[t]) - 1
            /\ \A k \in 1 .. Len(Tail(storeBuffer[t])) : Tail(storeBuffer[t])[k] = storeBuffer[t][k + 1]
        BY <2>1, <4>1, HeadTailProperties
      <4>3. i + 1 \in 1 .. Len(storeBuffer[t]) /\ storeBuffer'[t][i] = storeBuffer[t][i + 1]
        BY <1>1, <2>1, <4>1, <4>2
      <4>4. QED
        BY <2>1, <4>3
    <3>2. CASE t # tgt
      BY <1>1, <2>1, <2>4, <3>2
    <3>3. QED
      BY <3>1, <3>2
  <2>5. QED
    BY <2>2, <2>3, <2>4, BufferFrame
<1>2. QED
  BY <1>1, PendingFrame, RmwFrame DEF Owned

----------------------------------------------------------------------------
\* The newest store of a thread to a line.

\* Only evictions add stores or move cl_to_last_wr_clf.
LEMMA WriteFrame ==
    ASSUME [Next]_vars
    PROVE  \/ UNCHANGED <<obj_to_wr, cl_to_last_wr_clf, next_sequence_num>>
           \/ PopStore \/ PopClflush \/ ExecStore \/ ExecRmwr \/ ExecLoad
<1>1. CASE User
  BY <1>1 DEF User, Call, CrashedCall, CallThreadFinish, CallShutdown, InsertCrash,
              NoBacktrack, thrVars, memVars
<1>2. CASE Exec
  BY <1>2 DEF Exec, ExecCreate, ExecFlush, ExecMfence, ExecNothing, ExecThreadFinish,
              ExecShutdown, thrVars, memVars
<1>3. CASE Drain
  BY <1>3 DEF Drain, PopClflushopt, PopSfence, SfenceDone, FlushOne, DrainDone,
              DrainThenRead, ShutdownNext, ShutdownDone, thrVars, memVars
<1>4. CASE Read
  BY <1>4, ReadFrameFacts
     DEF Read, ReadRunning, ReadCrash, ReadMust, ReadSkip, ReadLost, ReadPersisted
<1>5. CASE ProcessStoreBuffer \/ Return \/ RmwSecond
  BY <1>5 DEF ProcessStoreBuffer, Return, RmwSecond, thrVars, memVars
<1>6. CASE UNCHANGED vars
  BY <1>6 DEF vars, thrVars, memVars
<1>7. QED
  BY <1>1, <1>2, <1>3, <1>4, <1>5, <1>6 DEF Next, Inside, Finished

\* Overwriting an entry of a table with something at least as large.
LEMMA TableRaise ==
    ASSUME NEW S, NEW L, NEW f \in [S -> [L -> Nat]], NEW s \in S, NEW l \in L,
           NEW n \in Nat, \A x \in S, y \in L : f[x][y] <= n
    PROVE  \A x \in S, y \in L :
               /\ [f EXCEPT ![s][l] = n][x][y] \in Nat
               /\ f[x][y] <= [f EXCEPT ![s][l] = n][x][y]
               /\ [f EXCEPT ![s][l] = n][x][y] <= n
               /\ x = s /\ y = l => [f EXCEPT ![s][l] = n][x][y] = n
<1> SUFFICES ASSUME NEW x \in S, NEW y \in L
             PROVE  /\ [f EXCEPT ![s][l] = n][x][y] \in Nat
                    /\ f[x][y] <= [f EXCEPT ![s][l] = n][x][y]
                    /\ [f EXCEPT ![s][l] = n][x][y] <= n
                    /\ x = s /\ y = l => [f EXCEPT ![s][l] = n][x][y] = n
  OBVIOUS
<1>1. f[x][y] \in Nat /\ f[x][y] <= n
  OBVIOUS
<1>2. [f EXCEPT ![s][l] = n][x][y] = IF x = s /\ y = l THEN n ELSE f[x][y]
  OBVIOUS
<1>3. QED
  BY <1>1, <1>2

\* Every step keeps StoresCovered.
LEMMA StepStoresCovered ==
    ASSUME TypeInv, Owned, StoresCovered, [Next]_vars PROVE StoresCovered'
<1>1. /\ TypeOK /\ obj_to_wr \in [Word -> Seq(Action)]
      /\ cl_to_last_wr_clf \in [Thread -> [Line -> Nat]] /\ next_sequence_num \in Nat
      /\ \A w \in Word : LineOf[w] \in Line
      /\ active_thread \in Thread
  BY AddressAssumption DEF TypeInv, TypeOK
<1>2. /\ \A w \in Word : \A i \in 1 .. Len(obj_to_wr[w]) :
           obj_to_wr[w][i].seq <= cl_to_last_wr_clf[obj_to_wr[w][i].tid][LineOf[w]]
      /\ \A t \in Thread, l \in Line : cl_to_last_wr_clf[t][l] <= next_sequence_num
  BY DEF StoresCovered
<1>3. ASSUME NEW w \in Word, NEW i \in 1 .. Len(obj_to_wr[w])
      PROVE  obj_to_wr[w][i] \in Action /\ obj_to_wr[w][i].tid \in Thread
             /\ obj_to_wr[w][i].seq \in Nat
  <2>1. obj_to_wr[w] \in Seq(Action)
    BY <1>1
  <2>2. obj_to_wr[w][i] \in Action
    BY <1>3, <2>1, ElementOfSeq
  <2>3. QED
    BY <2>2 DEF Action
<1>4. CASE UNCHANGED <<obj_to_wr, cl_to_last_wr_clf, next_sequence_num>>
  BY <1>4 DEF StoresCovered
<1>5. CASE PopClflush \/ PopStore
  <2>1. /\ tgt \in Thread /\ LineOf[Popped.loc] \in Line /\ Popped \in Action
        /\ Popped.loc \in Word /\ CanPop
    BY <1>1, <1>5, PoppedFacts DEF PopClflush, PopStore
  <2> DEFINE cl == [cl_to_last_wr_clf EXCEPT ![tgt][LineOf[Popped.loc]] = next_sequence_num]
  <2>2. \A t \in Thread, l \in Line :
            /\ cl[t][l] \in Nat /\ cl_to_last_wr_clf[t][l] <= cl[t][l]
            /\ cl[t][l] <= next_sequence_num
            /\ t = tgt /\ l = LineOf[Popped.loc] => cl[t][l] = next_sequence_num
    BY <1>1, <1>2, <2>1, TableRaise
  <2>3. next_sequence_num' = next_sequence_num + 1
    BY <1>5 DEF PopClflush, PopStore
  <2>4. CASE PopClflush
    <3>1. UNCHANGED obj_to_wr /\ (cl_to_last_wr_clf' = cl \/ UNCHANGED cl_to_last_wr_clf)
      BY <2>4 DEF PopClflush
    <3> HIDE DEF cl
    <3>2. \A t \in Thread, l \in Line :
             /\ cl_to_last_wr_clf'[t][l] \in Nat
             /\ cl_to_last_wr_clf[t][l] <= cl_to_last_wr_clf'[t][l]
             /\ cl_to_last_wr_clf'[t][l] <= next_sequence_num
      BY <1>1, <1>2, <2>2, <3>1
    <3>3. \A t \in Thread, l \in Line : cl_to_last_wr_clf'[t][l] <= next_sequence_num'
      BY <1>1, <2>3, <3>2
    <3>4. ASSUME NEW w \in Word, NEW i \in 1 .. Len(obj_to_wr[w])
          PROVE  obj_to_wr[w][i].seq <= cl_to_last_wr_clf'[obj_to_wr[w][i].tid][LineOf[w]]
      <4>1. /\ obj_to_wr[w][i].tid \in Thread /\ obj_to_wr[w][i].seq \in Nat
            /\ LineOf[w] \in Line
        BY <1>1, <1>3
      <4>2. obj_to_wr[w][i].seq <= cl_to_last_wr_clf[obj_to_wr[w][i].tid][LineOf[w]]
        BY <1>2
      <4>3. cl_to_last_wr_clf[obj_to_wr[w][i].tid][LineOf[w]] \in Nat
        BY <1>1, <4>1
      <4>4. QED
        BY <3>2, <4>1, <4>2, <4>3
    <3>5. QED
      BY <3>1, <3>3, <3>4 DEF StoresCovered
  <2>5. CASE PopStore
    <3> DEFINE s == [Popped EXCEPT !.seq = next_sequence_num]
    <3>1. /\ cl_to_last_wr_clf' = cl
          /\ obj_to_wr' = [obj_to_wr EXCEPT ![Popped.loc] = Append(@, s)]
      BY <2>5 DEF PopStore
    <3>2. s \in Action /\ s.seq = next_sequence_num /\ s.tid = tgt
      <4>1. Popped.tid = tgt
        <5>1. storeBuffer[tgt] \in Seq(Action) /\ storeBuffer[tgt] # <<>>
          BY <1>1, <2>1 DEF TypeOK, CanPop
        <5>2. Popped = storeBuffer[tgt][1] /\ 1 \in 1 .. Len(storeBuffer[tgt])
          BY <5>1 DEF Popped
        <5>3. QED
          BY <2>1, <5>2 DEF Owned
      <4>2. QED
        BY <1>1, <2>1, <4>1 DEF Action
    <3> HIDE DEF cl, s
    <3>3. \A t \in Thread, l \in Line : cl_to_last_wr_clf'[t][l] <= next_sequence_num'
      BY <1>1, <2>2, <2>3, <3>1
    <3>4. ASSUME NEW w \in Word, NEW i \in 1 .. Len(obj_to_wr'[w])
          PROVE  obj_to_wr'[w][i].seq <= cl[obj_to_wr'[w][i].tid][LineOf[w]]
      <4>1. ASSUME i \in 1 .. Len(obj_to_wr[w]), obj_to_wr'[w][i] = obj_to_wr[w][i]
            PROVE  obj_to_wr'[w][i].seq <= cl[obj_to_wr'[w][i].tid][LineOf[w]]
        <5>1. /\ obj_to_wr[w][i].tid \in Thread /\ obj_to_wr[w][i].seq \in Nat
              /\ LineOf[w] \in Line
          BY <1>1, <1>3, <4>1
        <5>2. obj_to_wr[w][i].seq <= cl_to_last_wr_clf[obj_to_wr[w][i].tid][LineOf[w]]
          BY <1>2, <4>1
        <5>3. cl_to_last_wr_clf[obj_to_wr[w][i].tid][LineOf[w]] \in Nat
          BY <1>1, <5>1
        <5>4. QED
          BY <2>2, <4>1, <5>1, <5>2, <5>3
      <4>2. CASE w = Popped.loc
        <5>1. obj_to_wr'[w] = Append(obj_to_wr[w], s) /\ obj_to_wr[w] \in Seq(Action)
          BY <1>1, <3>1, <4>2
        <5>2. /\ Len(obj_to_wr[w]) \in Nat /\ Len(obj_to_wr'[w]) = Len(obj_to_wr[w]) + 1
              /\ obj_to_wr'[w][Len(obj_to_wr[w]) + 1] = s
              /\ \A j \in 1 .. Len(obj_to_wr[w]) : obj_to_wr'[w][j] = obj_to_wr[w][j]
          BY <3>2, <5>1, AppendProperties
        <5>3. CASE i = Len(obj_to_wr[w]) + 1
          <6>1. obj_to_wr'[w][i] = s
            BY <5>2, <5>3
          <6>2. cl[s.tid][LineOf[w]] = next_sequence_num
            BY <2>1, <2>2, <3>2, <4>2
          <6>3. QED
            BY <1>1, <3>2, <6>1, <6>2
        <5>4. CASE i # Len(obj_to_wr[w]) + 1
          <6>1. i \in 1 .. Len(obj_to_wr[w])
            BY <3>4, <5>2, <5>4
          <6>2. QED
            BY <4>1, <5>2, <6>1
        <5>5. QED
          BY <5>3, <5>4
      <4>3. CASE w # Popped.loc
        <5>1. obj_to_wr'[w] = obj_to_wr[w]
          BY <1>1, <3>1, <4>3
        <5>2. QED
          BY <3>4, <4>1, <5>1
      <4>4. QED
        BY <4>2, <4>3
    <3>5. QED
      BY <3>1, <3>3, <3>4 DEF StoresCovered
  <2>6. QED
    BY <1>5, <2>4, <2>5
<1>6. CASE ExecStore \/ ExecRmwr \/ ExecLoad
  <2>1. /\ obj_to_wr' = EnsureInitialValue(obj_to_wr, Cur.loc)
        /\ UNCHANGED <<cl_to_last_wr_clf, next_sequence_num>>
    BY <1>6 DEF ExecStore, ExecRmwr, ExecLoad, thrVars
  <2>2. ASSUME NEW w \in Word, NEW i \in 1 .. Len(obj_to_wr'[w])
        PROVE  obj_to_wr'[w][i].seq <= cl_to_last_wr_clf[obj_to_wr'[w][i].tid][LineOf[w]]
    <3>1. CASE obj_to_wr'[w] = obj_to_wr[w]
      BY <1>2, <2>2, <3>1
    <3>2. CASE obj_to_wr'[w] = <<InitAction(w)>>
      <4>1. InitAction(w).seq = 0 /\ InitAction(w).tid = active_thread
        BY DEF InitAction, Act
      <4>2. i = 1 /\ obj_to_wr'[w][i] = InitAction(w)
        BY <2>2, <3>2
      <4>3. cl_to_last_wr_clf[active_thread][LineOf[w]] \in Nat
        BY <1>1
      <4>4. QED
        BY <4>1, <4>2, <4>3
    <3>3. obj_to_wr'[w] = obj_to_wr[w] \/ obj_to_wr'[w] = <<InitAction(w)>>
      BY <1>1, <2>1 DEF EnsureInitialValue
    <3>4. QED
      BY <3>1, <3>2, <3>3
  <2>3. QED
    BY <1>2, <2>1, <2>2 DEF StoresCovered
<1>7. QED
  BY <1>4, <1>5, <1>6, WriteFrame

----------------------------------------------------------------------------
\* Promises.

\* Only flushes change what is promised.
LEMMA PromiseFrame ==
    ASSUME [Next]_vars
    PROVE  UNCHANGED <<flushBuffer, promised>> \/ PopClflushopt \/ PopClflush \/ FlushOne
<1>1. CASE User
  BY <1>1 DEF User, Call, CrashedCall, CallThreadFinish, CallShutdown, InsertCrash,
              NoBacktrack, thrVars, histVars
<1>2. CASE Exec
  BY <1>2 DEF Exec, ExecStore, ExecCreate, ExecFlush, ExecMfence, ExecRmwr, ExecLoad, ExecNothing,
              ExecThreadFinish, ExecShutdown, thrVars, histVars
<1>3. CASE Drain
  BY <1>3 DEF Drain, PopStore, PopSfence, SfenceDone, DrainDone, DrainThenRead,
              ShutdownNext, ShutdownDone, thrVars, histVars
<1>4. CASE Read
  BY <1>4, ReadFrameFacts
     DEF Read, ReadRunning, ReadCrash, ReadMust, ReadSkip, ReadLost, ReadPersisted
<1>5. CASE ProcessStoreBuffer \/ Return \/ RmwSecond
  BY <1>5 DEF ProcessStoreBuffer, Return, RmwSecond, thrVars, histVars
<1>6. CASE UNCHANGED vars
  BY <1>6 DEF vars, thrVars, histVars
<1>7. QED
  BY <1>1, <1>2, <1>3, <1>4, <1>5, <1>6 DEF Next, Inside, Finished

\* begin never moves back (the persistence half of ConstraintsTighten).
LEMMA BeginGrows ==
    ASSUME TypeInv, [Next]_vars, NEW p \in Proc, NEW l \in Line
    PROVE  /\ cl_begin[p][l] \in Nat /\ cl_begin'[p][l] \in Nat
           /\ cl_begin[p][l] <= cl_begin'[p][l]
<1>1. cl_begin[p][l] \in Nat /\ cl_begin'[p][l] \in Nat
  BY StepTypeInv DEF TypeInv, TypeOK
<1>2. CASE UNCHANGED <<cl_begin, cl_end, seenMax, missedMin>>
  BY <1>1, <1>2
<1>3. CASE PopClflush \/ FlushOne
  BY <1>1, <1>3, FlushRaises
<1>4. CASE ReadRunning \/ ReadMust \/ ReadLost \/ ReadPersisted
  <2>1. Reading
    BY <1>4 DEF ReadRunning, ReadMust, ReadLost, ReadPersisted, Deciding
  <2>2. cl_begin[p][l] <= cl_begin'[p][l]
    BY <1>4, <2>1, ReadRanges
  <2>3. QED
    BY <1>1, <2>2
<1>5. QED
  BY <1>2, <1>3, <1>4, RangeFrame

\* What a promise is made of: no store of the thread to the line is newer than
\* cl_to_last_wr_clf, nor than the clock.
LEMMA PromiseFacts ==
    ASSUME TypeInv, StoresCovered, CanPop, Promise
    PROVE  \E n \in Nat :
             /\ promised' = [promised EXCEPT ![tgt][LineOf[Popped.loc]] = n]
             /\ n <= next_sequence_num
             /\ n <= cl_to_last_wr_clf[tgt][LineOf[Popped.loc]]
<1> DEFINE l == LineOf[Popped.loc]
<1>1. /\ TypeOK /\ next_sequence_num \in Nat /\ obj_to_wr \in [Word -> Seq(Action)]
      /\ cl_to_last_wr_clf \in [Thread -> [Line -> Nat]]
  BY DEF TypeInv, TypeOK
<1>2. tgt \in Thread /\ l \in Line
  BY <1>1, PoppedFacts
<1> HIDE DEF l
<1>3. PICK n \in 0 .. next_sequence_num :
          IsLastStore(tgt, l, n) /\ promised' = [promised EXCEPT ![tgt][l] = n]
  BY DEF Promise, l
<1>4. n \in Nat /\ n <= next_sequence_num
  BY <1>1, <1>3
<1>5. n <= cl_to_last_wr_clf[tgt][l]
  <2> DEFINE own == {s.seq : s \in {r \in StoresOf(l) : r.tid = tgt}}
  <2>1. IF own = {} THEN n = 0 ELSE n \in own
    BY <1>3 DEF IsLastStore
  <2>2. CASE own = {}
    BY <1>1, <1>2, <2>1, <2>2
  <2>3. CASE own # {}
    <3>1. PICK s \in StoresOf(l) : s.tid = tgt /\ s.seq = n
      BY <2>1, <2>3
    <3>2. PICK w \in Word : LineOf[w] = l /\ s \in {obj_to_wr[w][i] : i \in DOMAIN obj_to_wr[w]}
      BY <3>1 DEF StoresOf
    <3>3. PICK i \in DOMAIN obj_to_wr[w] : s = obj_to_wr[w][i]
      BY <3>2
    <3>4. i \in 1 .. Len(obj_to_wr[w])
      BY <1>1, <3>3
    <3>5. obj_to_wr[w][i].seq <= cl_to_last_wr_clf[obj_to_wr[w][i].tid][LineOf[w]]
      BY <3>4 DEF StoresCovered
    <3>6. QED
      BY <3>1, <3>2, <3>3, <3>5
  <2>4. QED
    BY <2>2, <2>3
<1>6. QED
  BY <1>3, <1>4, <1>5 DEF l

\* Every step keeps PromisesKept.
LEMMA StepPromisesKept ==
    ASSUME TypeInv, StoresCovered, PromisesKept, [Next]_vars PROVE PromisesKept'
<1> SUFFICES ASSUME NEW t \in Thread, NEW l \in Line PROVE Kept(t, l)' \/ Covers(t, l)'
  BY DEF PromisesKept
<1>1. /\ TypeOK /\ next_sequence_num \in Nat /\ promised \in [Thread -> [Line -> Nat]]
      /\ flushBuffer \in [Thread -> Seq(Action)] /\ flushBuffer[t] \in Seq(Action)
      /\ cl_to_last_wr_clf \in [Thread -> [Line -> Nat]]
  BY DEF TypeInv, TypeOK
<1>2. Kept(t, l) \/ Covers(t, l)
  BY DEF PromisesKept
<1>3. promised[t][l] \in Nat
  BY <1>1
<1>4. ASSUME promised'[t][l] = promised[t][l], Kept(t, l) PROVE Kept(t, l)'
  <2> SUFFICES ASSUME NEW p \in Proc PROVE promised'[t][l] <= cl_begin'[p][l]
    BY DEF Kept
  <2>1. promised[t][l] <= cl_begin[p][l]
    BY <1>4 DEF Kept
  <2>2. QED
    BY <1>3, <1>4, <2>1, BeginGrows
<1>5. CASE UNCHANGED <<flushBuffer, promised>>
  <2>1. Covers(t, l) => Covers(t, l)'
    BY <1>5 DEF Covers
  <2>2. QED
    BY <1>2, <1>4, <1>5, <2>1
<1>6. CASE PopClflushopt
  <2> DEFINE k == LineOf[Popped.loc]
             f == [Popped EXCEPT !.ee = EarliestEffect(Popped, tgt)]
  <2>1. /\ tgt \in Thread /\ k \in Line /\ Popped \in Action /\ CanPop /\ Promise
        /\ flushBuffer' = [flushBuffer EXCEPT ![tgt] = Append(@, f)]
    BY <1>1, <1>6, PoppedFacts DEF PopClflushopt
  <2>2. PICK n \in Nat : /\ promised' = [promised EXCEPT ![tgt][k] = n]
                         /\ n <= cl_to_last_wr_clf[tgt][k]
    BY <2>1, PromiseFacts
  <2>3. f \in Action /\ LineOf[f.loc] = k /\ n <= f.ee
    <3>1. /\ EarliestEffect(Popped, tgt) \in Nat
          /\ cl_to_last_wr_clf[tgt][k] <= EarliestEffect(Popped, tgt)
      BY <1>1, <2>1, EarliestEffectType
    <3>2. cl_to_last_wr_clf[tgt][k] \in Nat
      BY <1>1, <2>1
    <3>3. f \in Action /\ f.loc = Popped.loc /\ f.ee = EarliestEffect(Popped, tgt)
      BY <2>1, <3>1 DEF Action
    <3>4. QED
      BY <2>2, <3>1, <3>2, <3>3
  <2> HIDE DEF f, k
  <2>4. CASE t = tgt
    <3>1. flushBuffer'[t] = Append(flushBuffer[t], f)
      BY <1>1, <2>1, <2>4
    <3>2. /\ Len(flushBuffer[t]) \in Nat /\ Len(flushBuffer'[t]) = Len(flushBuffer[t]) + 1
          /\ flushBuffer'[t][Len(flushBuffer[t]) + 1] = f
          /\ \A j \in 1 .. Len(flushBuffer[t]) : flushBuffer'[t][j] = flushBuffer[t][j]
      BY <1>1, <2>3, <3>1, AppendProperties
    <3>3. CASE l = k
      <4>1. promised'[t][l] = n
        BY <1>1, <2>1, <2>2, <2>4, <3>3
      <4>2. Len(flushBuffer[t]) + 1 \in 1 .. Len(flushBuffer'[t])
        BY <3>2
      <4>3. LineOf[flushBuffer'[t][Len(flushBuffer[t]) + 1].loc] = l
            /\ promised'[t][l] <= flushBuffer'[t][Len(flushBuffer[t]) + 1].ee
        BY <2>3, <3>2, <3>3, <4>1
      <4>4. QED
        BY <4>2, <4>3 DEF Covers
    <3>4. CASE l # k
      <4>1. promised'[t][l] = promised[t][l]
        BY <1>1, <2>1, <2>2, <3>4
      <4>2. Covers(t, l) => Covers(t, l)'
        <5>1. 1 .. Len(flushBuffer[t]) \subseteq 1 .. Len(flushBuffer'[t])
          BY <3>2
        <5>2. QED
          BY <3>2, <4>1, <5>1 DEF Covers
      <4>3. QED
        BY <1>2, <1>4, <4>1, <4>2
    <3>5. QED
      BY <3>3, <3>4
  <2>5. CASE t # tgt
    <3>1. promised'[t][l] = promised[t][l] /\ flushBuffer'[t] = flushBuffer[t]
      BY <1>1, <2>1, <2>2, <2>5
    <3>2. Covers(t, l) => Covers(t, l)'
      BY <3>1 DEF Covers
    <3>3. QED
      BY <1>2, <1>4, <3>1, <3>2
  <2>6. QED
    BY <2>4, <2>5
<1>7. CASE PopClflush
  <2> DEFINE k == LineOf[Popped.loc]
  <2>1. /\ tgt \in Thread /\ k \in Line /\ CanPop /\ Promise /\ UNCHANGED flushBuffer
        /\ RaiseBegin(k, next_sequence_num)
    BY <1>1, <1>7, PoppedFacts DEF PopClflush
  <2>2. PICK n \in Nat : /\ promised' = [promised EXCEPT ![tgt][k] = n]
                         /\ n <= next_sequence_num
    BY <2>1, PromiseFacts
  <2> HIDE DEF k
  <2>3. CASE t = tgt /\ l = k
    <3>1. promised'[t][l] = n
      BY <1>1, <2>1, <2>2, <2>3
    <3>2. ASSUME NEW p \in Proc PROVE n <= cl_begin'[p][l]
      <4>1. cl_begin'[p][l] \in Nat /\ next_sequence_num <= cl_begin'[p][l]
        BY <1>1, <2>1, <2>3, RaiseBeginFacts
      <4>2. QED
        BY <1>1, <2>2, <4>1
    <3>3. QED
      BY <3>1, <3>2 DEF Kept
  <2>4. CASE ~(t = tgt /\ l = k)
    <3>1. promised'[t][l] = promised[t][l]
      BY <1>1, <2>1, <2>2, <2>4
    <3>2. Covers(t, l) => Covers(t, l)'
      BY <2>1, <3>1 DEF Covers
    <3>3. QED
      BY <1>2, <1>4, <3>1, <3>2
  <2>5. QED
    BY <2>3, <2>4
<1>8. CASE FlushOne
  <2> DEFINE a == Head(flushBuffer[tgt])
  <2>1. /\ flushBuffer[tgt] # <<>> /\ RaiseBegin(LineOf[a.loc], a.ee)
        /\ flushBuffer' = [flushBuffer EXCEPT ![tgt] = Tail(@)]
        /\ UNCHANGED promised
    BY <1>8 DEF FlushOne, histVars
  <2>2. tgt \in Thread /\ flushBuffer[tgt] \in Seq(Action)
    BY <1>1 DEF TypeOK
  <2>3. a \in Action
    BY <2>1, <2>2, HeadTailProperties
  <2>4. LineOf[a.loc] \in Line /\ a.ee \in Nat
    BY <2>3, AddressAssumption DEF Action
  <2>5. a = flushBuffer[tgt][1]
    BY <2>2, <2>1
  <2> HIDE DEF a
  <2>6. CASE Kept(t, l)
    BY <1>4, <2>1, <2>6
  <2>7. CASE Covers(t, l) /\ t # tgt
    <3>1. flushBuffer'[t] = flushBuffer[t]
      BY <1>1, <2>1, <2>7
    <3>2. QED
      BY <2>1, <2>7, <3>1 DEF Covers
  <2>8. CASE Covers(t, l) /\ t = tgt
    <3>1. PICK i \in 1 .. Len(flushBuffer[t]) :
              /\ LineOf[flushBuffer[t][i].loc] = l
              /\ promised[t][l] <= flushBuffer[t][i].ee
      BY <2>8 DEF Covers
    <3>2. CASE i = 1
      <4>1. LineOf[a.loc] = l /\ promised[t][l] <= a.ee
        BY <2>5, <2>8, <3>1, <3>2
      <4>2. ASSUME NEW p \in Proc PROVE promised'[t][l] <= cl_begin'[p][l]
        <5>1. cl_begin'[p][l] \in Nat /\ a.ee <= cl_begin'[p][l]
          BY <1>1, <2>1, <2>4, <4>1, RaiseBeginFacts
        <5>2. QED
          BY <1>3, <2>1, <2>4, <4>1, <5>1
      <4>3. QED
        BY <4>2 DEF Kept
    <3>3. CASE i # 1
      <4>1. /\ flushBuffer'[t] = Tail(flushBuffer[t]) /\ flushBuffer[t] # <<>>
        BY <1>1, <2>1, <2>8
      <4>2. /\ Len(flushBuffer[t]) \in Nat
            /\ Len(Tail(flushBuffer[t])) = Len(flushBuffer[t]) - 1
            /\ \A j \in 1 .. Len(Tail(flushBuffer[t])) :
                  Tail(flushBuffer[t])[j] = flushBuffer[t][j + 1]
        BY <1>1, <4>1, HeadTailProperties
      <4>3. PICK j \in 1 .. Len(flushBuffer'[t]) : j + 1 = i
        <5>1. i - 1 \in 1 .. Len(flushBuffer'[t]) /\ i - 1 + 1 = i
          BY <3>3, <4>1, <4>2
        <5>2. QED
          BY <5>1
      <4>4. flushBuffer'[t][j] = flushBuffer[t][i]
        BY <4>1, <4>2, <4>3
      <4>5. QED
        BY <2>1, <3>1, <4>4 DEF Covers
    <3>4. QED
      BY <3>2, <3>3
  <2>9. QED
    BY <1>2, <2>6, <2>7, <2>8
<1>9. QED
  BY <1>5, <1>6, <1>7, <1>8, PromiseFrame

----------------------------------------------------------------------------
\* The theorem.

\* The initial state satisfies the flush invariant.
LEMMA InitFlushInv == ASSUME Init PROVE FlushInv
<1>1. TypeOK
  BY InitType DEF TypeInv
<1>2. Owned
  BY DEF Init, Owned
<1>3. StoresCovered
  BY DEF Init, StoresCovered
<1>4. PromisesKept
  <2>1. \A t \in Thread, l \in Line : Kept(t, l)
    BY DEF Init, Kept
  <2>2. QED
    BY <2>1 DEF PromisesKept
<1>5. QED
  BY <1>2, <1>3, <1>4 DEF FlushInv

\* Every reachable state of an execution satisfies the flush invariant, the
\* inductive strengthening of FlushDurable: a flush that waits in a flush buffer
\* carries a clock that covers the stores it was issued for.
THEOREM FlushInvariant == Spec => []FlushInv
<1>1. Init => FlushInv
  BY InitFlushInv
<1>2. TypeInv /\ FlushInv /\ [Next]_vars => FlushInv'
  BY StepOwned, StepStoresCovered, StepPromisesKept DEF FlushInv
<1>3. QED
  BY <1>1, <1>2, TypeInvariant, PTL DEF Spec

\* For every program: once none of a thread's clflushopts of a line waits for a
\* fence, every process's begin covers the stores the thread had made to that line
\* when it last flushed it, so that no later crash of anybody loses them.
THEOREM FlushDurability == Spec => []FlushDurable
<1>1. ASSUME TypeInv, FlushInv PROVE FlushDurable
  <2> SUFFICES ASSUME NEW t \in Thread, NEW l \in Line,
                      \A i \in DOMAIN flushBuffer[t] : LineOf[flushBuffer[t][i].loc] # l
               PROVE  \A p \in Proc : promised[t][l] <= cl_begin[p][l]
    BY DEF FlushDurable
  <2>1. flushBuffer[t] \in Seq(Action)
    BY <1>1 DEF TypeInv, TypeOK
  <2>2. ~Covers(t, l)
    BY <2>1 DEF Covers
  <2>3. QED
    BY <1>1, <2>2 DEF FlushInv, PromisesKept, Kept
<1>2. QED
  BY <1>1, FlushInvariant, TypeInvariant, PTL
=============================================================================
