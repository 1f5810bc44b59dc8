------------------------ MODULE ExecutionLoopProofs ------------------------
(***************************************************************************)
(* What holds of the root process, the execution processes and the         *)
(* processes of the program for every number of processes, every limit and *)
(* every length of the search.                                             *)
(***************************************************************************)
EXTENDS ExecutionLoop, TLAPS

LoopType ==
    /\ root \in Root
    /\ num \in Int
    /\ progc \in Nat
    /\ exec \in Exec
    /\ forked \in 0 .. NProc
    /\ child \in [Proc -> Child]
    /\ left \subseteq Proc
    /\ execution_num \in Int
    /\ rollback_again \in BOOLEAN
    /\ remaining \in Nat
    /\ starts \in Nat
    /\ advances \in Nat

NobodyAlive == \A p \in Proc : ~Alive(p)
NobodyBusy  == \A p \in Proc : ~Busy(p)

\* Shared memory is as finish_execution of the last process left it (or as created):
\* nobody of the program runs, though some may linger, and the number of the next
\* execution is n.
Reset(n) ==
    /\ data = "fresh" /\ left = {} /\ NobodyBusy
    /\ execution_num = n
    /\ rollback_again => starts = advances
    /\ ~rollback_again => remaining = 0 \/ execution_num > MaxExecution

\* Execution n has not come to finish_execution of its last process: those who left
\* have ended or linger, and nobody has left before it was forked.
InUse(n) ==
    /\ data = "used"
    /\ execution_num = n
    /\ starts = advances + 1
    /\ rollback_again
    /\ \A p \in left : child[p] \in {"linger", "exited", "signalled", "dead"}
    /\ exec \in {"map", "fork"} =>
          forked < NProc /\ \A p \in Proc : p >= forked => child[p] = "none"

\* Where the root is, and what it may rely on there.
RootKnows ==
    /\ root \in {"options", "mapping"} =>
          Reset(1) /\ NobodyAlive /\ rollback_again /\ starts = 0
    /\ root = "fork"    => Reset(num) /\ NobodyAlive /\ rollback_again
    /\ root = "waitpid" => InUse(num) \/ (Reset(num + 1) /\ exec \notin {"map", "fork"})
    /\ root = "next"    => NobodyAlive /\ (InUse(num - 1) \/ Reset(num))
    /\ root = "done"    => remaining = 0 \/ num > MaxExecution

\* Where the execution process is.
ExecKnows ==
    /\ root = "waitpid" <=> exec # "none"
    /\ exec = "map" => NobodyAlive
    /\ exec = "exit_ok" => \A p \in Proc : child[p] \in {"dead", "missing"}
    /\ exec = "signalled" => "killed_exec" \in faults

\* Giving up leaves nobody behind, unless the execution process was killed or has
\* fewer programs than processes.
Abandoned ==
    (exec = "exit_fail" \/ root \in {"terminate", "failed"})
        /\ progc = NProc /\ "killed_exec" \notin faults
       => NobodyAlive

LoopInv ==
    /\ LoopType
    /\ RootKnows
    /\ ExecKnows
    /\ Abandoned
    /\ starts <= advances + 1

-----------------------------------------------------------------------------
\* The root process.

LEMMA RootInv ==
    ASSUME LoopInv, RootStep
    PROVE  LoopInv'
<1>1. ASSUME LoadProgram \/ CheckOptions PROVE LoopInv'
  <2>1. root = "options" /\ exec = "none" /\ Reset(1) /\ NobodyAlive /\ rollback_again /\ starts = 0
    BY <1>1 DEF LoadProgram, CheckOptions, LoopInv, RootKnows, ExecKnows
  <2>2. /\ root' \in {"options", "failed", "mapping"} /\ progc' \in Nat
        /\ UNCHANGED <<num, exec, forked, child, token, left, execution_num, rollback_again,
                       data, remaining, starts, advances, faults>>
    BY <1>1 DEF LoadProgram, CheckOptions, execVars, childVars, shVars, histVars, LoopInv, LoopType
  <2>3. NobodyAlive' /\ Reset(1)'
    BY <2>1, <2>2 DEF Reset, NobodyAlive, NobodyBusy, Alive, Busy
  <2>4. LoopType' /\ ExecKnows' /\ Abandoned' /\ starts' <= advances' + 1
    BY <2>1, <2>2, <2>3 DEF LoopInv, LoopType, ExecKnows, Abandoned, Root
  <2>5. RootKnows'
    BY <2>1, <2>2, <2>3 DEF RootKnows
  <2>6. QED
    BY <2>4, <2>5 DEF LoopInv
<1>2. ASSUME CreateModel PROVE LoopInv'
  <2>1. root = "mapping" /\ exec = "none" /\ Reset(1) /\ NobodyAlive /\ rollback_again /\ starts = 0
    BY <1>2 DEF CreateModel, LoopInv, RootKnows, ExecKnows
  <2>2. /\ UNCHANGED <<progc, exec, forked, child, token, left, rollback_again, data, remaining,
                       starts, advances, faults>>
        /\ \/ root' = "failed" /\ UNCHANGED <<num, execution_num>>
           \/ root' = "fork" /\ num' = execution_num' /\ execution_num' \in Int
    BY <1>2, LoopAssumption DEF CreateModel, LoadNodestack, execVars, childVars, histVars
  <2>3. NobodyAlive'
    BY <2>1, <2>2 DEF Reset, NobodyAlive, NobodyBusy, Alive, Busy
  <2>4. LoopType' /\ ExecKnows' /\ Abandoned' /\ starts' <= advances' + 1
    BY <2>1, <2>2, <2>3 DEF LoopInv, LoopType, ExecKnows, Abandoned, Root
  <2>5. RootKnows'
    BY <2>1, <2>2, <2>3 DEF RootKnows, Reset, NobodyBusy, Busy
  <2>6. QED
    BY <2>4, <2>5 DEF LoopInv
<1>3. ASSUME ForkExecution PROVE LoopInv'
  <2>1. root = "fork" /\ exec = "none" /\ Reset(num) /\ NobodyAlive /\ rollback_again
    BY <1>3 DEF ForkExecution, LoopInv, RootKnows, ExecKnows
  <2>2. /\ root' = "waitpid" /\ exec' = "map" /\ forked' = 0 /\ starts' = starts + 1
        /\ data' = "used"
        /\ child' = [p \in Proc |-> IF Alive(p) THEN child[p] ELSE "none"]
        /\ UNCHANGED <<num, progc, token, left, execution_num, rollback_again, remaining,
                       advances, faults>>
    BY <1>3 DEF ForkExecution
  <2>3. child' = [p \in Proc |-> "none"]
    BY <2>1, <2>2 DEF NobodyAlive
  <2>4. NobodyAlive'
    BY <2>3 DEF NobodyAlive, Alive, Busy
  <2>5. LoopType'
    BY <2>2, <2>3, LoopAssumption DEF LoopInv, LoopType, Root, Exec, Child
  <2>6. ExecKnows' /\ Abandoned'
    BY <2>2, <2>4 DEF ExecKnows, Abandoned
  <2>7. starts = advances /\ left = {} /\ execution_num = num
    BY <2>1 DEF Reset
  <2>8. InUse(num)'
    BY <2>1, <2>2, <2>3, <2>7, LoopAssumption DEF InUse
  <2>9. RootKnows' /\ starts' <= advances' + 1
    BY <2>2, <2>5, <2>7, <2>8 DEF RootKnows, LoopType
  <2>10. QED
    BY <2>5, <2>6, <2>9 DEF LoopInv
<1>4. ASSUME WaitExecution PROVE LoopInv'
  <2>1. /\ root = "waitpid" /\ exec \in {"exit_ok", "exit_fail", "signalled"}
        /\ InUse(num) \/ Reset(num + 1)
    BY <1>4 DEF WaitExecution, LoopInv, RootKnows
  <2>2. /\ exec' = "none"
        /\ UNCHANGED <<progc, forked, child, token, left, execution_num, rollback_again, data,
                       remaining, starts, advances, faults>>
        /\ \/ exec = "exit_ok" /\ root' = "next" /\ num' = num + 1
           \/ exec # "exit_ok" /\ root' = "terminate" /\ UNCHANGED num
    BY <1>4 DEF WaitExecution, childVars, shVars, histVars
  <2>3. LoopType' /\ ExecKnows' /\ starts' <= advances' + 1
    BY <2>1, <2>2 DEF LoopInv, LoopType, ExecKnows, Root, Exec
  <2>4. exec = "exit_ok" => NobodyAlive'
    BY <2>2 DEF LoopInv, ExecKnows, NobodyAlive, Alive, Busy
  <2>5. Abandoned'
    BY <2>1, <2>2 DEF LoopInv, Abandoned, ExecKnows, NobodyAlive, Alive, Busy
  <2>6. root' = "next" => InUse(num - 1)' \/ Reset(num)'
    <3> SUFFICES ASSUME root' = "next" PROVE InUse(num - 1)' \/ Reset(num)'
      OBVIOUS
    <3>1. num' - 1 = num /\ num' = num + 1
      BY <2>2 DEF LoopInv, LoopType
    <3>2. CASE InUse(num)
      BY <2>2, <3>1, <3>2 DEF InUse
    <3>3. CASE Reset(num + 1)
      BY <2>1, <2>2, <3>1, <3>3 DEF Reset, NobodyAlive, NobodyBusy, Alive, Busy
    <3>4. QED
      BY <2>1, <3>2, <3>3
  <2>7. RootKnows'
    BY <2>2, <2>4, <2>6 DEF RootKnows
  <2>8. QED
    BY <2>3, <2>5, <2>7 DEF LoopInv
<1>5. ASSUME WaitForNextExecution PROVE LoopInv'
  <2>1. root = "next" /\ exec = "none" /\ NobodyAlive /\ (InUse(num - 1) \/ Reset(num))
    BY <1>5 DEF WaitForNextExecution, LoopInv, RootKnows, ExecKnows
  <2>2. /\ UNCHANGED <<num, progc, exec, forked, child, token, left, execution_num,
                       rollback_again, data, remaining, starts, advances, faults>>
        /\ \/ (num > MaxExecution \/ ~rollback_again) /\ root' = "done"
           \/ rollback_again /\ execution_num >= num /\ root' = "fork"
    BY <1>5 DEF WaitForNextExecution, execVars, childVars, shVars, histVars
  <2>3. LoopType' /\ ExecKnows' /\ Abandoned' /\ starts' <= advances' + 1
    BY <2>1, <2>2 DEF LoopInv, LoopType, ExecKnows, Abandoned, Root
  <2>4. root' = "done" => remaining = 0 \/ num > MaxExecution
    BY <2>1, <2>2 DEF InUse, Reset
  <2>5. root' = "fork" => Reset(num)' /\ NobodyAlive' /\ rollback_again
    <3> SUFFICES ASSUME root' = "fork" PROVE Reset(num)' /\ NobodyAlive' /\ rollback_again
      OBVIOUS
    <3>1. rollback_again /\ execution_num >= num
      BY <2>2
    <3>2. ~InUse(num - 1)
      BY <3>1 DEF InUse, LoopInv, LoopType
    <3>3. Reset(num)
      BY <2>1, <3>2
    <3>4. QED
      BY <2>1, <2>2, <3>1, <3>3 DEF Reset, NobodyAlive, NobodyBusy, Alive, Busy
  <2>6. RootKnows'
    BY <2>2, <2>4, <2>5 DEF RootKnows
  <2>7. QED
    BY <2>3, <2>6 DEF LoopInv
<1>6. ASSUME TerminateEarly PROVE LoopInv'
  <2> rollback_again' \in BOOLEAN
    <3>1. rollback_again' = FALSE
      BY <1>6 DEF TerminateEarly
    <3>2. QED
      BY <3>1
  <2>1. /\ root = "terminate" /\ exec = "none" /\ root' = "failed"
        /\ execution_num' = execution_num + 1 /\ left' = {}
        /\ UNCHANGED <<num, progc, exec, forked, child, remaining, starts, advances, faults>>
    BY <1>6 DEF TerminateEarly, LoopInv, ExecKnows, execVars, histVars
  <2>2. LoopType' /\ starts' <= advances' + 1
    BY <2>1 DEF LoopInv, LoopType, Root
  <2>3. RootKnows' /\ ExecKnows'
    BY <2>1 DEF RootKnows, ExecKnows
  <2>4. Abandoned'
    BY <2>1 DEF LoopInv, Abandoned, NobodyAlive, Alive, Busy
  <2>5. QED
    BY <2>2, <2>3, <2>4 DEF LoopInv
<1>7. ASSUME ForkExecutionFails PROVE LoopInv'
  <2>1. /\ root = "fork" /\ exec = "none" /\ NobodyAlive /\ root' = "failed"
        /\ UNCHANGED <<num, progc, exec, forked, child, token, left, execution_num,
                       rollback_again, data, remaining, starts, advances, faults>>
    BY <1>7 DEF ForkExecutionFails, LoopInv, RootKnows, ExecKnows, execVars, childVars,
                shVars, histVars
  <2>2. NobodyAlive'
    BY <2>1 DEF NobodyAlive, Alive, Busy
  <2>3. QED
    BY <2>1, <2>2 DEF LoopInv, LoopType, Root, RootKnows, ExecKnows, Abandoned
<1>8. QED
  BY <1>1, <1>2, <1>3, <1>4, <1>5, <1>6, <1>7 DEF RootStep

-----------------------------------------------------------------------------
\* The execution process.

LEMMA ExecInv ==
    ASSUME LoopInv, ExecStep \/ ExecKilled, \A p \in Proc : ~ReapSignalledKillsAll(p)
    PROVE  LoopInv'
<1>1. /\ exec # "none" /\ root = "waitpid" /\ exec \in Exec
      /\ InUse(num) \/ (Reset(num + 1) /\ exec \notin {"map", "fork"})
  BY DEF ExecStep, ExecKilled, MapCxl, ForkChild, ForkChildFails, ReapedAll, ReapExited,
         ReapSignalled,
         LoopInv, ExecKnows, RootKnows, LoopType
<1>2. UNCHANGED <<root, num, progc, token, left, execution_num, rollback_again, data, remaining,
                  starts, advances>>
  BY DEF ExecStep, ExecKilled, MapCxl, ForkChild, ForkChildFails, ReapedAll, ReapExited,
         ReapSignalled,
         rootVars, childVars, shVars, histVars
<1>3. CASE MapCxl
  <2>1. exec = "map" /\ exec' \in {"fork", "exit_fail"} /\ UNCHANGED <<forked, child, faults>>
    BY <1>3 DEF MapCxl, childVars, histVars
  <2>2. NobodyAlive' /\ InUse(num)'
    BY <1>1, <1>2, <2>1 DEF LoopInv, ExecKnows, NobodyAlive, Alive, Busy, InUse
  <2>3. LoopType'
    BY <1>2, <2>1 DEF LoopInv, LoopType, Exec
  <2>4. RootKnows' /\ ExecKnows' /\ Abandoned' /\ starts' <= advances' + 1
    BY <1>1, <1>2, <2>1, <2>2 DEF LoopInv, RootKnows, ExecKnows, Abandoned
  <2>5. QED
    BY <2>3, <2>4 DEF LoopInv
<1>4. CASE ForkChild \/ ForkChildFails
  <2> PICK c \in {"init", "missing"} : child' = [child EXCEPT ![forked] = c]
    BY <1>4 DEF ForkChild, ForkChildFails
  <2>1. /\ exec = "fork" /\ forked < NProc /\ forked' = forked + 1
        /\ exec' = IF forked + 1 = NProc THEN "reap" ELSE "fork"
        /\ InUse(num)
    BY <1>1, <1>4 DEF ForkChild, ForkChildFails
  <2>2. /\ forked \in Proc /\ child \in [Proc -> Child] /\ forked \in Nat /\ NProc \in Nat
        /\ left \subseteq Proc
    BY <2>1, LoopAssumption DEF LoopInv, LoopType, Proc
  <2>3. LoopType'
    BY <1>2, <2>1, <2>2 DEF LoopInv, LoopType, Exec, Child
  <2>4. child[forked] = "none"
    BY <2>1, <2>2 DEF InUse
  <2>5. \A p \in left : child'[p] \in {"linger", "exited", "signalled", "dead"}
    BY <2>1, <2>2, <2>4 DEF InUse
  <2>6. exec' = "fork" => forked' < NProc /\ \A p \in Proc : p >= forked' => child'[p] = "none"
    BY <2>1, <2>2 DEF InUse, Proc
  <2>7. InUse(num)'
    BY <1>2, <2>1, <2>5, <2>6 DEF InUse
  <2>8. RootKnows' /\ ExecKnows' /\ Abandoned' /\ starts' <= advances' + 1
    BY <1>1, <1>2, <2>1, <2>7 DEF LoopInv, RootKnows, ExecKnows, Abandoned
  <2>9. QED
    BY <2>3, <2>8 DEF LoopInv
<1>5. ASSUME NEW p \in Proc, ReapExited(p) PROVE LoopInv'
  <2>1. /\ exec = "reap" /\ child' = [child EXCEPT ![p] = "dead"]
        /\ UNCHANGED <<exec, forked, faults>> /\ child \in [Proc -> Child]
    BY <1>5 DEF ReapExited, execVars, histVars, LoopInv, LoopType
  <2>2. LoopType' /\ ExecKnows' /\ Abandoned' /\ starts' <= advances' + 1
    BY <1>1, <1>2, <2>1 DEF LoopInv, LoopType, ExecKnows, Abandoned, Child
  <2>3. (InUse(num) => InUse(num)') /\ (Reset(num + 1) => Reset(num + 1)')
    BY <1>2, <2>1 DEF InUse, Reset, NobodyBusy, Busy, LoopInv, LoopType
  <2>4. RootKnows'
    BY <1>1, <1>2, <2>1, <2>3 DEF RootKnows
  <2>5. QED
    BY <2>2, <2>4 DEF LoopInv
<1>6. ASSUME NEW p \in Proc, ReapSignalled(p) PROVE LoopInv'
  <2>1. /\ exec = "reap" /\ exec' = "exit_fail" /\ UNCHANGED <<forked, faults>>
        /\ child' = [q \in Proc |-> IF q = p \/ q < progc THEN "dead" ELSE child[q]]
        /\ child \in [Proc -> Child]
    BY <1>6 DEF ReapSignalled, histVars, LoopInv, LoopType
  <2>2. progc = NProc => NobodyAlive'
    BY <2>1, LoopAssumption DEF NobodyAlive, Alive, Busy, Proc
  <2>3. LoopType' /\ ExecKnows' /\ Abandoned' /\ starts' <= advances' + 1
    BY <1>1, <1>2, <2>1, <2>2 DEF LoopInv, LoopType, ExecKnows, Abandoned, Child, Exec
  <2>4. (InUse(num) => InUse(num)') /\ (Reset(num + 1) => Reset(num + 1)')
    BY <1>2, <2>1 DEF InUse, Reset, NobodyBusy, Busy, LoopInv, LoopType
  <2>5. RootKnows'
    BY <1>1, <1>2, <2>1, <2>4 DEF RootKnows
  <2>6. QED
    BY <2>3, <2>5 DEF LoopInv
<1>7. CASE ReapedAll
  <2>1. /\ exec = "reap" /\ exec' = "exit_ok" /\ UNCHANGED <<forked, child, faults>>
        /\ \A p \in Proc : child[p] \in {"dead", "missing"}
    BY <1>7 DEF ReapedAll, childVars, histVars
  <2>2. LoopType' /\ ExecKnows' /\ Abandoned' /\ starts' <= advances' + 1
    BY <1>1, <1>2, <2>1 DEF LoopInv, LoopType, ExecKnows, Abandoned, Exec
  <2>3. (InUse(num) => InUse(num)') /\ (Reset(num + 1) => Reset(num + 1)')
    BY <1>2, <2>1 DEF InUse, Reset, NobodyBusy, Busy
  <2>4. RootKnows'
    BY <1>1, <1>2, <2>1, <2>3 DEF RootKnows
  <2>5. QED
    BY <2>2, <2>4 DEF LoopInv
<1>8. CASE ExecKilled
  <2>1. /\ exec' = "signalled" /\ UNCHANGED <<forked, child>>
        /\ faults' = faults \cup {"killed_exec"}
    BY <1>8 DEF ExecKilled, childVars
  <2>2. LoopType' /\ ExecKnows' /\ Abandoned' /\ starts' <= advances' + 1
    BY <1>1, <1>2, <2>1 DEF LoopInv, LoopType, ExecKnows, Abandoned, Exec
  <2>3. (InUse(num) => InUse(num)') /\ (Reset(num + 1) => Reset(num + 1)')
    BY <1>2, <2>1 DEF InUse, Reset, NobodyBusy, Busy
  <2>4. RootKnows'
    BY <1>1, <1>2, <2>1, <2>3 DEF RootKnows
  <2>5. QED
    BY <2>2, <2>4 DEF LoopInv
<1>9. QED
  BY <1>3, <1>4, <1>5, <1>6, <1>7, <1>8 DEF ExecStep

\* kill(-1, SIGKILL) ends everything.
LEMMA KillsAllInv ==
    ASSUME LoopInv, NEW p \in Proc, ReapSignalledKillsAll(p)
    PROVE  LoopInv'
<1>1. /\ root' = "killed" /\ exec' = "none" /\ child' = [q \in Proc |-> "dead"]
      /\ UNCHANGED <<num, progc, forked, token, left, execution_num, rollback_again, data,
                     remaining, starts, advances, faults>>
  BY DEF ReapSignalledKillsAll, shVars, histVars
<1>2. QED
  BY <1>1 DEF LoopInv, LoopType, Root, Exec, Child, RootKnows, ExecKnows, Abandoned

-----------------------------------------------------------------------------
\* The processes of the program.

\* While a process of the program runs, the root waits for its execution or has
\* given up.
LEMMA BusyFacts ==
    ASSUME LoopInv, NEW p \in Proc, Busy(p)
    PROVE  /\ ~NobodyAlive
           /\ root \notin {"options", "mapping", "fork", "next"}
           /\ root = "waitpid" => InUse(num)
           /\ exec \notin {"map", "exit_ok"}
           /\ ~((exec = "exit_fail" \/ root \in {"terminate", "failed"})
                 /\ progc = NProc /\ "killed_exec" \notin faults)
<1>1. ~NobodyAlive /\ ~NobodyBusy
  BY DEF NobodyAlive, NobodyBusy, Alive
<1>2. child[p] \notin {"dead", "missing"}
  BY DEF Busy
<1>3. QED
  BY <1>1, <1>2 DEF LoopInv, RootKnows, ExecKnows, Abandoned, Reset

\* A step of p that does not reset the shared memory.
LEMMA GoesOnInv ==
    ASSUME LoopInv, NEW p \in Proc, Busy(p), NEW c \in Child,
           child' = [child EXCEPT ![p] = c],
           left' = left \/ (left' = left \cup {p} /\ c \in {"exited", "linger"}),
           UNCHANGED <<root, num, progc, exec, forked, execution_num, rollback_again, data,
                       remaining, starts, advances>>,
           "killed_exec" \in faults' <=> "killed_exec" \in faults
    PROVE  LoopInv'
<1>1. child \in [Proc -> Child] /\ left \subseteq Proc
  BY DEF LoopInv, LoopType
<1>2. LoopType' /\ starts' <= advances' + 1
  BY <1>1 DEF LoopInv, LoopType
<1>3. ExecKnows' /\ Abandoned'
  BY BusyFacts DEF LoopInv, ExecKnows, Abandoned
<1>4. ASSUME InUse(num) PROVE InUse(num)'
  <2>1. p \notin left /\ child[p] # "none"
    BY <1>4 DEF InUse, Busy
  <2>2. \A q \in Proc \ {p} : child'[q] = child[q]
    BY <1>1
  <2>3. \A q \in left' : child'[q] \in {"linger", "exited", "signalled", "dead"}
    BY <1>1, <1>4, <2>1, <2>2 DEF InUse
  <2>4. exec \in {"map", "fork"} =>
           forked < NProc /\ \A q \in Proc : q >= forked => child'[q] = "none"
    BY <1>4, <2>1, <2>2 DEF InUse
  <2>5. QED
    BY <1>4, <2>3, <2>4 DEF InUse
<1>5. RootKnows'
  BY <1>4, BusyFacts DEF LoopInv, RootKnows
<1>6. QED
  BY <1>2, <1>3, <1>5 DEF LoopInv

\* finish_execution of the last process: everybody else has ended.
LEMMA FinishLastInv ==
    ASSUME LoopInv, NEW p \in Proc, FinishLast(p)
    PROVE  LoopInv'
<1>1. Busy(p) /\ child[p] = "run"
  BY DEF FinishLast, HasToken, Busy
<1>2. /\ child' = [child EXCEPT ![p] = "exited"] /\ left' = {} /\ data' = "fresh"
      /\ rollback_again' => remaining' = remaining - 1 /\ advances' = advances + 1
      /\ ~rollback_again' => UNCHANGED <<remaining, advances>>
      /\ execution_num' = execution_num + 1
      /\ UNCHANGED <<root, num, progc, exec, forked, starts, faults>>
      /\ Proc \subseteq left \cup {p}
  BY DEF FinishLast, ResetExecutionData, Present, rootVars, execVars
<1>3. /\ rollback_again' \in BOOLEAN
      /\ rollback_again' <=> rollback_again /\ execution_num + 1 <= MaxExecution /\ remaining > 0
  BY DEF FinishLast
<1>4. /\ child \in [Proc -> Child] /\ execution_num \in Int /\ remaining \in Nat
      /\ advances \in Nat /\ starts \in Nat /\ rollback_again \in BOOLEAN
      /\ starts <= advances + 1 /\ num \in Int /\ MaxExecution \in Nat
  BY LoopAssumption DEF LoopInv, LoopType
<1>5. /\ execution_num' \in Int
      /\ remaining' \in Nat /\ advances' \in Nat /\ advances' >= advances
      /\ remaining = 0 => remaining' = 0
  <2>1. CASE rollback_again'
    BY <1>2, <1>3, <1>4, <2>1
  <2>2. CASE ~rollback_again'
    BY <1>2, <1>4, <2>2
  <2>3. QED
    BY <2>1, <2>2
<1>6. LoopType'
  BY <1>2, <1>3, <1>4, <1>5 DEF LoopInv, LoopType, Child
<1>7. starts' <= advances' + 1
  <2>1. starts' = starts
    BY <1>2
  <2>2. /\ advances \in Nat /\ advances' \in Nat /\ starts \in Nat
        /\ starts <= advances + 1 /\ advances <= advances'
    BY <1>4, <1>5
  <2>3. \A a, b, c \in Nat : c <= a + 1 /\ a <= b => c <= b + 1
    OBVIOUS
  <2>4. QED
    BY <2>1, <2>2, <2>3
<1>8. ExecKnows' /\ Abandoned'
  BY <1>1, <1>2, BusyFacts DEF LoopInv, ExecKnows, Abandoned
<1>9. ASSUME InUse(num) PROVE Reset(num + 1)' /\ exec \notin {"map", "fork"}
  <2>1. NobodyBusy'
    <3> SUFFICES ASSUME NEW q \in Proc PROVE child'[q] \notin {"init", "run"}
      BY DEF NobodyBusy, Busy
    <3>1. CASE q = p
      BY <1>2, <1>4, <3>1
    <3>2. CASE q # p
      BY <1>2, <1>4, <1>9, <3>2 DEF InUse
    <3>3. QED
      BY <3>1, <3>2
  <2>2. exec \notin {"map", "fork"}
    <3> SUFFICES ASSUME exec \in {"map", "fork"} PROVE FALSE
      OBVIOUS
    <3>1. forked \in Proc
      BY <1>9, LoopAssumption DEF InUse, LoopInv, LoopType, Proc
    <3>2. forked >= forked
      BY <3>1 DEF Proc
    <3>3. child[forked] = "none"
      BY <1>9, <3>1, <3>2 DEF InUse
    <3>4. QED
      BY <1>1, <1>2, <1>9, <3>1, <3>3 DEF InUse
  <2>3. execution_num = num /\ starts = advances + 1 /\ rollback_again
    BY <1>9 DEF InUse
  <2>4. rollback_again' => starts' = advances'
    BY <1>2, <1>4, <2>3
  <2>5. ~rollback_again' => remaining' = 0 \/ execution_num' > MaxExecution
    BY <1>2, <1>4, <1>3, <2>3
  <2>6. QED
    BY <1>2, <2>1, <2>2, <2>3, <2>4, <2>5 DEF Reset
<1>10. RootKnows'
  BY <1>1, <1>2, <1>5, <1>9, BusyFacts DEF LoopInv, RootKnows
<1>11. QED
  BY <1>6, <1>7, <1>8, <1>10 DEF LoopInv

\* A process that lingers and is given the token dies of it.
LEMMA WakesInv ==
    ASSUME LoopInv, NEW p \in Proc, ResetWakes(p)
    PROVE  LoopInv'
<1>1. /\ child[p] = "linger" /\ child' = [child EXCEPT ![p] = "signalled"]
      /\ child \in [Proc -> Child] /\ left \subseteq Proc
      /\ "killed_exec" \in faults' <=> "killed_exec" \in faults
      /\ UNCHANGED <<root, num, progc, exec, forked, token, left, execution_num,
                     rollback_again, data, remaining, starts, advances>>
  BY DEF ResetWakes, rootVars, execVars, shVars, LoopInv, LoopType
<1>2. /\ child'[p] = "signalled"
      /\ \A q \in Proc \ {p} : child'[q] = child[q]
  BY <1>1
<1>3. ~NobodyAlive /\ (NobodyBusy => NobodyBusy')
  BY <1>1, <1>2 DEF NobodyAlive, NobodyBusy, Alive, Busy
<1>4. LoopType' /\ starts' <= advances' + 1
  BY <1>1 DEF LoopInv, LoopType, Child
<1>5. exec # "exit_ok" /\ root \notin {"options", "mapping", "fork", "next"} /\ exec # "map"
  BY <1>1, <1>3 DEF LoopInv, ExecKnows, RootKnows
<1>6. ExecKnows' /\ Abandoned'
  BY <1>1, <1>3, <1>5 DEF LoopInv, ExecKnows, Abandoned
<1>7. (InUse(num) => InUse(num)') /\ (Reset(num + 1) => Reset(num + 1)')
  BY <1>1, <1>2, <1>3 DEF InUse, Reset
<1>8. RootKnows'
  BY <1>1, <1>5, <1>7 DEF LoopInv, RootKnows
<1>9. QED
  BY <1>4, <1>6, <1>8 DEF LoopInv

LEMMA ChildInv ==
    ASSUME LoopInv, NEW p \in Proc, ChildStep(p)
    PROVE  LoopInv'
<1>1. child \in [Proc -> Child] /\ {"run", "linger", "exited", "signalled"} \subseteq Child
  BY DEF LoopInv, LoopType, Child
<1>2. CASE UserInit(p)
  BY <1>1, <1>2, GoesOnInv DEF UserInit, Busy, rootVars, execVars, shVars, histVars
<1>3. CASE UserInitFails(p)
  BY <1>1, <1>3, GoesOnInv DEF UserInitFails, Busy, rootVars, execVars, shVars
<1>4. CASE PassToken(p)
  <2>1. child' = [child EXCEPT ![p] = "run"]
    BY <1>1, <1>4 DEF PassToken, HasToken
  <2>2. QED
    BY <1>1, <1>4, <2>1, GoesOnInv
       DEF PassToken, HasToken, Busy, rootVars, execVars, shVars, histVars
<1>5. CASE FinishNotLast(p)
  BY <1>1, <1>5, GoesOnInv
     DEF FinishNotLast, HasToken, Busy, rootVars, execVars, shVars, histVars
<1>6. CASE FinishLast(p)
  BY <1>6, FinishLastInv
<1>7. CASE LeaveStuck(p)
  BY <1>1, <1>7, GoesOnInv DEF LeaveStuck, HasToken, Busy, rootVars, execVars, shVars
<1>8. CASE DieBySignal(p)
  BY <1>1, <1>8, GoesOnInv DEF DieBySignal, HasToken, Busy, rootVars, execVars, shVars
<1>9. CASE FinishLingers(p)
  BY <1>1, <1>9, GoesOnInv
     DEF FinishLingers, HasToken, Busy, rootVars, execVars, shVars, histVars
<1>10. CASE ResetWakes(p)
  BY <1>10, WakesInv
<1>11. QED
  BY <1>2, <1>3, <1>4, <1>5, <1>6, <1>7, <1>8, <1>9, <1>10 DEF ChildStep, Leave

-----------------------------------------------------------------------------
\* The invariant is inductive.

LEMMA LoopInit ==
    ASSUME Init PROVE LoopInv
<1>1. LoopType
  BY LoopAssumption DEF Init, LoopType, Root, Exec, Child
<1>2. NobodyAlive /\ NobodyBusy
  BY DEF Init, NobodyAlive, NobodyBusy, Alive, Busy
<1>3. RootKnows /\ ExecKnows /\ Abandoned /\ starts <= advances + 1
  BY <1>2 DEF Init, RootKnows, Reset, ExecKnows, Abandoned
<1>4. QED
  BY <1>1, <1>3 DEF LoopInv

LEMMA LoopStutter ==
    ASSUME LoopInv, UNCHANGED vars PROVE LoopInv'
<1>1. UNCHANGED <<root, num, progc, exec, forked, child, token, left, execution_num,
                  rollback_again, data, remaining, starts, advances, faults>>
  BY DEF vars, rootVars, execVars, childVars, shVars, histVars
<1>2. (NobodyAlive' <=> NobodyAlive) /\ (NobodyBusy' <=> NobodyBusy)
  BY <1>1 DEF NobodyAlive, NobodyBusy, Alive, Busy
<1>3. LoopType' /\ ExecKnows' /\ Abandoned' /\ starts' <= advances' + 1
  BY <1>1, <1>2 DEF LoopInv, LoopType, ExecKnows, Abandoned
<1>4. RootKnows'
  BY <1>1, <1>2 DEF LoopInv, RootKnows, Reset, InUse
<1>5. QED
  BY <1>3, <1>4 DEF LoopInv

LEMMA LoopInductive == Spec => []LoopInv
<1>1. Init => LoopInv
  BY LoopInit
<1>2. LoopInv /\ [Next]_vars => LoopInv'
  BY RootInv, ExecInv, KillsAllInv, ChildInv, LoopStutter DEF Next
<1>3. QED
  BY <1>1, <1>2, PTL DEF Spec

-----------------------------------------------------------------------------
\* Results.

\* take_snapshot forks an execution only after finish_execution has reset the
\* shared data and when no process of the previous execution lives.
THEOREM StartsFresh == Spec => []FreshStart
<1>1. LoopInv => FreshStart
  BY DEF LoopInv, RootKnows, Reset, NobodyAlive, FreshStart
<1>2. QED
  BY <1>1, LoopInductive, PTL

\* The root starts exactly one execution per move of the node stack, and its number
\* is the one in shared memory (wait_for_next_execution, finish_execution).
THEOREM NoneTwice == Spec => []EachExecutionOnce
<1>1. LoopInv => EachExecutionOnce
  BY DEF LoopInv, RootKnows, Reset, EachExecutionOnce
<1>2. QED
  BY <1>1, LoopInductive, PTL

\* wait_for_next_execution gives up only when the search is exhausted or at
\* MAX_EXECUTION.
THEOREM StopsRightly == Spec => []StopsWhenExhausted
<1>1. LoopInv => StopsWhenExhausted
  BY DEF LoopInv, RootKnows, StopsWhenExhausted
<1>2. QED
  BY <1>1, LoopInductive, PTL

\* When CXLMC gives up, the kill loop of main has left no process of the program,
\* if each has its own -f option and the execution process itself was not killed.
THEOREM NobodyOrphaned == Spec => []NoOrphans
<1>1. LoopInv => NoOrphans
  BY DEF LoopInv, Abandoned, NobodyAlive, NoOrphans
<1>2. QED
  BY <1>1, LoopInductive, PTL
=============================================================================
