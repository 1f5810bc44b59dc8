----------------------------- MODULE NodeStack -----------------------------
(***************************************************************************)
(* The search over decisions (nodestack.cc) and the part of                *)
(* Model::finish_execution that drives it.  A checked program is a tree: a *)
(* path of choices that is in the domain of prog leads to a decision point *)
(* with prog[path] choices, any other path is a complete execution.  The   *)
(* stack replays the choices up to curr_backtrack, takes the next choice   *)
(* there, and the first choice from then on.                               *)
(*                                                                         *)
(* Positions count from 1; 0 stands for a NULL node pointer, and head is   *)
(* head_idx + 1, the number of decisions made in this execution.           *)
(***************************************************************************)
EXTENDS Integers, Sequences, FiniteSets

CONSTANTS
    Programs,     \* decision trees: functions from paths to numbers of choices
    MaxExecution, \* MAX_EXECUTION
    SaveAt,       \* possible values of the -e option; 0: never save
    IndMod,       \* 2^16: save_state keeps the position to backtrack to in 16 bits
    ChoiceMod,    \* 2^8: and a node's choice and number of choices in 8 bits each
    MaxRestarts   \* bound: how often the checker is restarted from the file

\* Every decision is reached through decisions.  What the file format can hold:
\* no execution makes more than IndMod decisions, and no decision has ChoiceMod
\* choices (all callers of decision_point pass 2).
ASSUME ProgramsAssumption ==
    \A f \in Programs : \A p \in DOMAIN f :
        /\ p \in Seq(Nat)
        /\ \A i \in 1 .. Len(p) :
             LET q == [j \in 1 .. i - 1 |-> p[j]]
             IN q \in DOMAIN f /\ p[i] < f[q]
        /\ Len(p) < IndMod
        /\ f[p] \in 1 .. ChoiceMod - 1

ASSUME LimitAssumption ==
    /\ MaxExecution \in Nat
    /\ SaveAt \subseteq Nat
    /\ IndMod \in Nat \ {0}
    /\ ChoiceMod \in Nat \ {0}
    /\ MaxRestarts \in Nat

VARIABLES
    prog,            \* the checked program
    node_list,       \* nodes [idx, size]: choice taken, number of choices
    last_backtrack,  \* deepest node of this execution with a choice left
    curr_backtrack,  \* where this execution leaves the previous one
    head,            \* head_idx + 1
    execution_num,
    execution_num_save,
    file,            \* what save_state wrote: exec_num, curr_ind and the nodes
    status,          \* running, exhausted, or cutoff at MAX_EXECUTION
    restarts,
    \* history
    path,            \* choices made in this execution
    visited,         \* complete executions explored
    savedVisited     \* ... those before the save

vars == <<prog, node_list, last_backtrack, curr_backtrack, head, execution_num,
          execution_num_save, file, status, restarts, path, visited, savedVisited>>

Node == [idx : Nat, size : Nat]

NoFile == [exec_num |-> 0, curr_ind |-> 0, nodes |-> <<>>]

TypeOK ==
    /\ prog \in Programs
    /\ node_list \in Seq(Node)
    /\ last_backtrack \in Nat
    /\ curr_backtrack \in Nat
    /\ head \in 0 .. Len(node_list)
    /\ execution_num \in Nat
    /\ execution_num_save \in SaveAt
    /\ file \in [exec_num : Nat, curr_ind : Nat, nodes : Seq(Node)]
    /\ status \in {"running", "exhausted", "cutoff"}
    /\ restarts \in Nat
    /\ path \in Seq(Nat)
    /\ visited \subseteq Seq(Nat)
    /\ savedVisited \subseteq Seq(Nat)

HasMore_Mutant(node) == node.idx + 2 < node.size   \* off by one
HasMore(node) == node.idx + 1 < node.size

AtDecision == status = "running" /\ path \in DOMAIN prog

AtLeaf == status = "running" /\ path \notin DOMAIN prog

----------------------------------------------------------------------------
\* NodeStack::explore_next, called from Model::decision_point.

Deepest_Mutant(node) ==   \* keeps the first one
    IF HasMore(node) /\ last_backtrack = 0 THEN head + 1 ELSE last_backtrack
Deepest(node) == IF HasMore(node) THEN head + 1 ELSE last_backtrack

\* The part common to its cases: node is the choice made, at position head + 1.
Choose(node) ==
    /\ head' = head + 1
    /\ last_backtrack' = Deepest(node)
    /\ path' = Append(path, node.idx)
    /\ UNCHANGED <<prog, execution_num, execution_num_save, file, status, restarts,
                   visited, savedVisited>>

\* get_next is NULL: create_node, first choice.
CreateNode ==
    /\ AtDecision
    /\ head = Len(node_list)
    /\ LET node == [idx |-> 0, size |-> prog[path]]
       IN node_list' = Append(node_list, node) /\ Choose(node)
    /\ UNCHANGED curr_backtrack

\* A choice of the previous execution is repeated.
Replay ==
    /\ AtDecision
    /\ head < Len(node_list)
    /\ head + 1 # curr_backtrack
    /\ Choose(node_list[head + 1])
    /\ UNCHANGED <<node_list, curr_backtrack>>

\* The node to backtrack to takes its next choice; pop_restofstack(1).
TakeNext_MutantKeep ==   \* keeps the rest of the stack
    [node_list EXCEPT ![head + 1].idx = @ + 1]
TakeNext_MutantStay ==   \* does not increment
    SubSeq(node_list, 1, head + 1)
TakeNext ==
    Append(SubSeq(node_list, 1, head),
           [node_list[head + 1] EXCEPT !.idx = @ + 1])

Backtrack ==
    /\ AtDecision
    /\ head < Len(node_list)
    /\ head + 1 = curr_backtrack
    /\ node_list' = TakeNext
    /\ Choose(node_list'[head + 1])
    /\ curr_backtrack' = 0

----------------------------------------------------------------------------
\* Model::finish_execution by the last process: another execution follows if the
\* limit allows it and has_another_execution; reset_execution, then save_state.

\* save_state does not truncate: a longer file keeps its tail.
Narrow(node) == [idx |-> node.idx % ChoiceMod, size |-> node.size % ChoiceMod]

Saved == [i \in 1 .. Len(node_list) |-> Narrow(node_list[i])]

Written(old, new) == new \o SubSeq(old, Len(new) + 1, Len(old))

NextExecution ==
    /\ AtLeaf
    /\ last_backtrack # 0
    /\ execution_num + 1 <= MaxExecution
    /\ visited' = visited \cup {path}
    /\ curr_backtrack' = last_backtrack
    /\ last_backtrack' = 0
    /\ head' = 0
    /\ path' = <<>>
    /\ IF execution_num_save = execution_num + 1
       THEN /\ file' = [exec_num |-> execution_num + 1, curr_ind |-> (last_backtrack - 1) % IndMod,
                        nodes |-> Written(file.nodes, Saved)]
            /\ savedVisited' = visited'
       ELSE UNCHANGED <<file, savedVisited>>
    /\ execution_num' = execution_num + 1
    /\ UNCHANGED <<prog, node_list, execution_num_save, status, restarts>>

LastExecution ==
    /\ AtLeaf
    /\ last_backtrack = 0 \/ execution_num + 1 > MaxExecution
    /\ visited' = visited \cup {path}
    /\ status' = IF last_backtrack = 0 THEN "exhausted" ELSE "cutoff"
    /\ execution_num' = execution_num + 1
    /\ UNCHANGED <<prog, node_list, last_backtrack, curr_backtrack, head,
                   execution_num_save, file, restarts, path, savedVisited>>

\* The checker is stopped, or has ended, and is started again with the -l option:
\* set_state rebuilds the stack from the file (src/init.cc, load_nodestack).
LoadedBacktrack_Mutant == 0   \* the position is not restored
LoadedBacktrack_MutantSigned == file.curr_ind - 1   \* off by one, below the bottom
LoadedBacktrack ==
    IF file.curr_ind < Len(file.nodes) THEN file.curr_ind + 1 ELSE 0

Restart ==
    /\ file # NoFile
    /\ restarts < MaxRestarts
    /\ restarts' = restarts + 1
    /\ node_list' = file.nodes
    /\ curr_backtrack' = LoadedBacktrack
    /\ last_backtrack' = 0
    /\ head' = 0
    /\ execution_num' = file.exec_num
    /\ execution_num_save' \in SaveAt
    /\ status' = "running"
    /\ path' = <<>>
    /\ visited' = savedVisited
    /\ UNCHANGED <<prog, file, savedVisited>>

Init ==
    /\ prog \in Programs
    /\ node_list = <<>>
    /\ last_backtrack = 0
    /\ curr_backtrack = 0
    /\ head = 0
    /\ execution_num = 1
    /\ execution_num_save \in SaveAt
    /\ file = NoFile
    /\ status = "running"
    /\ restarts = 0
    /\ path = <<>>
    /\ visited = {}
    /\ savedVisited = {}

Search == CreateNode \/ Replay \/ Backtrack \/ NextExecution \/ LastExecution

Next == Search \/ Restart

Spec == Init /\ [][Next]_vars

\* The executions run one after the other until the search ends.
FairSpec == Spec /\ WF_vars(Search)

----------------------------------------------------------------------------
(***************************************************************************)
(* Properties                                                              *)
(***************************************************************************)

\* last_backtrack is the deepest decision of this execution that has a choice
\* left; nothing below it is cut off before it was tried (explore_next).
LastBacktrackDeepest ==
    /\ last_backtrack <= head
    /\ last_backtrack # 0 => HasMore(node_list[last_backtrack])
    /\ \A i \in last_backtrack + 1 .. head : ~HasMore(node_list[i])

\* A replayed decision point has as many choices as the node recorded for it: the
\* assert in explore_next holds, after a reload too.
ReplayMatches ==
    AtDecision /\ head < Len(node_list) => node_list[head + 1].size = prog[path]

\* No complete execution is explored twice, across a save and reload either.
NoLeafTwice == AtLeaf => path \notin visited

Leaves ==
    ({<<>>} \cup UNION {{Append(p, c) : c \in 0 .. prog[p] - 1} : p \in DOMAIN prog})
        \ DOMAIN prog

\* The search ends without has_another_execution only when every complete
\* execution of the program has been explored.
SearchComplete == status = "exhausted" => visited = Leaves

\* If MAX_EXECUTION allows for all of them, the search explores every execution
\* and ends by itself, however often it is restarted from a file.
SearchEnds == (Cardinality(Leaves) <= MaxExecution) ~> (status = "exhausted")
============================================================================
