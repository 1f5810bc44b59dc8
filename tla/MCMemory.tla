------------------------------ MODULE MCMemory ------------------------------
(***************************************************************************)
(* Two programs on one cache line of two words, of which an execution runs *)
(* one: a writer with a reader, and a writer that flushes and fences       *)
(* beside a process that reads, fences, flushes and switches backtracking. *)
(***************************************************************************)
EXTENDS MCCXLMemory

VARIABLE program    \* the program this execution runs

Storing  == [calls |-> CutCalls, max |-> CutOps, vals |-> {1, 2}, toggles |-> FALSE]
Flushing == [calls |-> FlushCalls, max |-> FlushOps, vals |-> {1}, toggles |-> TRUE]

\* What either of them does.
EitherCalls == [t \in Thread |-> CutCalls[t] \cup FlushCalls[t]]
EitherOps   == [t \in Thread |-> IF CutOps[t] > FlushOps[t] THEN CutOps[t] ELSE FlushOps[t]]

\* A step in which thread t makes a call makes one of its program's.
Obeys(t) ==
    ops'[t] > ops[t] =>
        /\ ops[t] < program.max[t]
        /\ \/ program.toggles /\ pending'[t] = NoAct
           \/ \E name \in program.calls[t] :
                /\ pending'[t].type = CallType(name)
                /\ pending'[t].val \in program.vals \cup {InitVal}

MemoryInit == Init /\ program \in {Storing, Flushing}

MemoryNext == Next /\ (\A t \in Thread : Obeys(t)) /\ UNCHANGED program

MemorySpec == MemoryInit /\ [][MemoryNext]_<<vars, program>>
=============================================================================
