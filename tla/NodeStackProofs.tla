-------------------------- MODULE NodeStackProofs --------------------------
(***************************************************************************)
(* The search of nodestack.cc explores every execution of every program    *)
(* exactly once, across saves and reloads.                                 *)
(***************************************************************************)
EXTENDS NodeStack, LeastNatural, SequenceTheorems, TLAPS

\* The choices recorded in the first n nodes of nl.
Prefix(nl, n) == [j \in 1 .. n |-> nl[j].idx]

\* The first n nodes of nl are decisions of prog, with choices in range.
Recorded(nl, n) ==
    \A i \in 1 .. n :
        /\ Prefix(nl, i - 1) \in DOMAIN prog
        /\ nl[i].size = prog[Prefix(nl, i - 1)]
        /\ nl[i].idx < nl[i].size

\* The part of the stack that describes prog: after a reload the nodes behind the
\* one to backtrack to may be left over from a longer file.
Limit == IF curr_backtrack = 0 THEN Len(node_list) ELSE curr_backtrack

StackOK ==
    /\ path = Prefix(node_list, head)
    /\ curr_backtrack = 0 => head = Len(node_list)
    /\ curr_backtrack # 0 => /\ head < curr_backtrack
                             /\ curr_backtrack <= Len(node_list)
                             /\ HasMore(node_list[curr_backtrack])
    /\ Recorded(node_list, Limit)

FileOK ==
    file # NoFile => /\ file.curr_ind < Len(file.nodes)
                     /\ Recorded(file.nodes, file.curr_ind + 1)
                     /\ HasMore(file.nodes[file.curr_ind + 1])

\* Execution v leaves the choices of the first n nodes towards a smaller one; at
\* node k the recorded choice itself counts as smaller.
Branches(nl, n, k, v) ==
    \E i \in 1 .. n :
        /\ i <= Len(v)
        /\ \A j \in 1 .. i - 1 : v[j] = nl[j].idx
        /\ v[i] < nl[i].idx \/ (i = k /\ v[i] = nl[i].idx)

\* What has been explored is what lies before the stack in search order.
VisitedOK ==
    /\ status = "running" =>
         visited = {v \in Leaves : Branches(node_list, Limit, curr_backtrack, v)}
    /\ status = "exhausted" => visited = Leaves
    /\ file # NoFile =>
         savedVisited = {v \in Leaves :
             Branches(file.nodes, file.curr_ind + 1, file.curr_ind + 1, v)}

IInv == TypeOK /\ StackOK /\ FileOK /\ LastBacktrackDeepest /\ VisitedOK

----------------------------------------------------------------------------
\* Two sequences are equal, or one continues the other, or they differ at a first
\* position.
LEMMA FirstDifference ==
    ASSUME NEW v \in Seq(Nat), NEW w \in Seq(Nat),
           ~ \E d \in 1 .. Len(v) : /\ d <= Len(w)
                                    /\ v[d] # w[d]
                                    /\ \A j \in 1 .. d - 1 : v[j] = w[j]
    PROVE  \A j \in 1 .. Len(v) : j <= Len(w) => v[j] = w[j]
<1> DEFINE T == {d \in 1 .. Len(v) : d <= Len(w) /\ v[d] # w[d]}
<1>1. CASE T = {}
  BY <1>1
<1>2. CASE T # {}
  <2>1. T \subseteq Nat
    OBVIOUS
  <2> HIDE DEF T
  <2>2. PICK d \in T : \A y \in T : d <= y
    BY <1>2, <2>1, NatMin
  <2>3. ASSUME NEW j \in 1 .. d - 1 PROVE v[j] = w[j]
    <3>1. d \in 1 .. Len(v) /\ d <= Len(w)
      BY Zenon DEF T
    <3>2. Len(v) \in Nat /\ Len(w) \in Nat
      OBVIOUS
    <3>3. j \in 1 .. Len(v) /\ j <= Len(w) /\ ~(d <= j)
      BY <3>1, <3>2
    <3>4. j \notin T
      BY <2>2, <3>3, Zenon
    <3>5. QED
      BY <3>3, <3>4, Zenon DEF T
  <2>4. QED
    BY <2>2, <2>3 DEF T
<1>3. QED
  BY <1>1, <1>2

\* What Prefix computes.
LEMMA PrefixFacts ==
    ASSUME NEW nl \in Seq(Node), NEW n \in 0 .. Len(nl)
    PROVE  /\ Prefix(nl, n) \in Seq(Nat)
           /\ Len(Prefix(nl, n)) = n
           /\ \A j \in 1 .. n : Prefix(nl, n)[j] = nl[j].idx /\ nl[j].idx \in Nat
<1>1. \A j \in 1 .. n : nl[j].idx \in Nat
  <2>1. \A j \in 1 .. n : nl[j] \in Node
    BY ElementOfSeq
  <2>2. QED
    BY <2>1 DEF Node
<1>2. QED
  BY <1>1 DEF Prefix

\* Two sequences that agree up to n have the same prefix of length n.
LEMMA PrefixSame ==
    ASSUME NEW nl, NEW ml, NEW n \in Nat, \A j \in 1 .. n : nl[j].idx = ml[j].idx
    PROVE  Prefix(nl, n) = Prefix(ml, n)
  BY DEF Prefix

\* The prefix of length n + 1 adds one choice to that of length n.
LEMMA PrefixAppend ==
    ASSUME NEW nl \in Seq(Node), NEW n \in 0 .. Len(nl) - 1
    PROVE  Prefix(nl, n + 1) = Append(Prefix(nl, n), nl[n + 1].idx)
<1>1. n + 1 \in 0 .. Len(nl)
  OBVIOUS
<1>2. QED
  BY <1>1, PrefixFacts DEF Prefix

\* What Recorded says of one node of the stack.
LEMMA RecordedAt ==
    ASSUME NEW nl, NEW n \in Nat, Recorded(nl, n), NEW i \in Nat, i < n
    PROVE  /\ Prefix(nl, i) \in DOMAIN prog
           /\ nl[i + 1].size = prog[Prefix(nl, i)]
           /\ nl[i + 1].idx < nl[i + 1].size
<1>1. PICK k \in 1 .. n : k = i + 1
  OBVIOUS
<1>2. k - 1 = i
  BY <1>1
<1>3. /\ Prefix(nl, k - 1) \in DOMAIN prog
      /\ nl[k].size = prog[Prefix(nl, k - 1)]
      /\ nl[k].idx < nl[k].size
  BY Zenon DEF Recorded
<1>4. QED
  BY <1>1, <1>2, <1>3

\* A stack that agrees with a recorded one is recorded too.
LEMMA RecordedSame ==
    ASSUME NEW nl, NEW ml, NEW n \in Nat, Recorded(nl, n), \A j \in 1 .. n : nl[j] = ml[j]
    PROVE  Recorded(ml, n)
<1> SUFFICES ASSUME NEW i \in 1 .. n
             PROVE  /\ Prefix(ml, i - 1) \in DOMAIN prog
                    /\ ml[i].size = prog[Prefix(ml, i - 1)]
                    /\ ml[i].idx < ml[i].size
  BY DEF Recorded
<1>1. Prefix(nl, i - 1) = Prefix(ml, i - 1)
  BY PrefixSame
<1>2. QED
  BY <1>1 DEF Recorded

----------------------------------------------------------------------------
\* The decision tree.

\* A decision of a program has choices, and its length fits the file format.
LEMMA DecisionFacts ==
    ASSUME prog \in Programs, NEW p \in DOMAIN prog
    PROVE  /\ p \in Seq(Nat)
           /\ \A i \in 1 .. Len(p) : /\ [j \in 1 .. i - 1 |-> p[j]] \in DOMAIN prog
                                     /\ p[i] < prog[[j \in 1 .. i - 1 |-> p[j]]]
           /\ Len(p) < IndMod
           /\ prog[p] \in 1 .. ChoiceMod - 1
  BY ProgramsAssumption

\* Every proper prefix of a leaf is a decision, and its next choice is in range.
LEMMA LeafFacts ==
    ASSUME prog \in Programs, NEW v \in Leaves
    PROVE  /\ v \in Seq(Nat)
           /\ v \notin DOMAIN prog
           /\ \A i \in 1 .. Len(v) : /\ [j \in 1 .. i - 1 |-> v[j]] \in DOMAIN prog
                                     /\ v[i] < prog[[j \in 1 .. i - 1 |-> v[j]]]
<1>1. v \notin DOMAIN prog
  BY DEF Leaves
<1>2. CASE v = <<>>
  BY <1>1, <1>2
<1>3. CASE \E p \in DOMAIN prog : \E c \in 0 .. prog[p] - 1 : v = Append(p, c)
  <2>0. PICK p \in DOMAIN prog : \E c \in 0 .. prog[p] - 1 : v = Append(p, c)
    BY <1>3
  <2>1. PICK c \in 0 .. prog[p] - 1 : v = Append(p, c)
    BY <2>0
  <2>2. /\ p \in Seq(Nat)
        /\ prog[p] \in 1 .. ChoiceMod - 1
        /\ \A i \in 1 .. Len(p) : /\ [j \in 1 .. i - 1 |-> p[j]] \in DOMAIN prog
                                  /\ p[i] < prog[[j \in 1 .. i - 1 |-> p[j]]]
    BY DecisionFacts
  <2>3. c \in Nat /\ c < prog[p]
    BY <2>2, LimitAssumption
  <2>4. v \in Seq(Nat) /\ Len(v) = Len(p) + 1
    BY <2>1, <2>2, <2>3
  <2>5. ASSUME NEW i \in 1 .. Len(v)
        PROVE  /\ [j \in 1 .. i - 1 |-> v[j]] \in DOMAIN prog
               /\ v[i] < prog[[j \in 1 .. i - 1 |-> v[j]]]
    <3>1. CASE i = Len(v)
      <4>1. [j \in 1 .. i - 1 |-> v[j]] = p
        BY <2>1, <2>2, <2>3, <2>4, <3>1
      <4>2. v[i] = c
        BY <2>1, <2>2, <2>3, <2>4, <3>1
      <4>3. QED
        BY <4>1, <4>2, <2>3
    <3>2. CASE i # Len(v)
      <4>1. i \in 1 .. Len(p)
        BY <2>4, <3>2
      <4>2. [j \in 1 .. i - 1 |-> v[j]] = [j \in 1 .. i - 1 |-> p[j]]
        BY <2>1, <2>2, <2>3, <4>1
      <4>3. v[i] = p[i]
        BY <2>1, <2>2, <2>3, <4>1
      <4>4. QED
        BY <4>1, <4>2, <4>3, <2>2
    <3>3. QED
      BY <3>1, <3>2
  <2>6. QED
    BY <1>1, <2>4, <2>5
<1>4. QED
  BY <1>2, <1>3 DEF Leaves

\* Two leaves that agree as far as both go are the same.
LEMMA LeavesDiffer ==
    ASSUME prog \in Programs, NEW v \in Leaves, NEW w \in Leaves,
           \A j \in 1 .. Len(v) : j <= Len(w) => v[j] = w[j]
    PROVE  v = w
<1> DEFINE Cut(s, i) == [j \in 1 .. i - 1 |-> s[j]]
<1>1. /\ v \in Seq(Nat) /\ v \notin DOMAIN prog
      /\ \A i \in 1 .. Len(v) : Cut(v, i) \in DOMAIN prog
  BY LeafFacts
<1>2. /\ w \in Seq(Nat) /\ w \notin DOMAIN prog
      /\ \A i \in 1 .. Len(w) : Cut(w, i) \in DOMAIN prog
  BY LeafFacts
<1>3. CASE Len(v) = Len(w)
  <2>1. \A i \in 1 .. Len(v) : v[i] = w[i]
    BY <1>3
  <2>2. QED
    BY <1>1, <1>2, <1>3, <2>1, SeqEqual
<1>4. CASE Len(v) < Len(w)
  <2>1. Cut(w, Len(v) + 1) = v
    <3>1. v = [j \in 1 .. Len(v) |-> v[j]]
      BY <1>1, <1>2
    <3>2. Len(v) + 1 - 1 = Len(v)
      BY <1>1, <1>2
    <3>3. \A j \in 1 .. Len(v) : w[j] = v[j]
      BY <1>1, <1>2, <1>4
    <3>4. QED
      BY <3>1, <3>2, <3>3
  <2>2. Len(v) + 1 \in 1 .. Len(w)
    BY <1>1, <1>2, <1>4
  <2>3. QED
    BY <2>1, <2>2, <1>1, <1>2
<1>5. CASE Len(w) < Len(v)
  <2>1. Cut(v, Len(w) + 1) = w
    <3>1. w = [j \in 1 .. Len(w) |-> w[j]]
      BY <1>1, <1>2
    <3>2. Len(w) + 1 - 1 = Len(w)
      BY <1>1, <1>2
    <3>3. \A j \in 1 .. Len(w) : v[j] = w[j]
      BY <1>1, <1>2, <1>5
    <3>4. QED
      BY <3>1, <3>2, <3>3
  <2>2. Len(w) + 1 \in 1 .. Len(v)
    BY <1>1, <1>2, <1>5
  <2>3. QED
    BY <2>1, <2>2, <1>1, <1>2
<1>6. QED
  BY <1>1, <1>2, <1>3, <1>4, <1>5

----------------------------------------------------------------------------
\* How the explored part changes with the stack.

\* The explored branches before a node only depend on the nodes up to it.
LEMMA BranchesSame ==
    ASSUME NEW nl, NEW ml, NEW n \in Nat, NEW k, NEW v,
           \A j \in 1 .. n : nl[j].idx = ml[j].idx
    PROVE  Branches(nl, n, k, v) <=> Branches(ml, n, k, v)
<1>1. ASSUME NEW i \in 1 .. n PROVE \A j \in 1 .. i - 1 : nl[j].idx = ml[j].idx
  OBVIOUS
<1>2. QED
  BY <1>1 DEF Branches

\* A new node starts with its first choice: nothing lies before it.
LEMMA BranchesNew ==
    ASSUME NEW nl, NEW ml, NEW n \in Nat, NEW v \in Seq(Nat),
           \A j \in 1 .. n : nl[j].idx = ml[j].idx, ml[n + 1].idx = 0
    PROVE  Branches(nl, n, 0, v) <=> Branches(ml, n + 1, 0, v)
<1>1. Branches(nl, n, 0, v) => Branches(ml, n + 1, 0, v)
  BY DEF Branches
<1>2. ASSUME NEW i \in 1 .. n + 1, i <= Len(v), v[i] < ml[i].idx PROVE i \in 1 .. n
  <2>1. v[i] \in Nat
    BY <1>2, ElementOfSeq
  <2>2. QED
    BY <1>2, <2>1
<1>3. Branches(ml, n + 1, 0, v) => Branches(nl, n, 0, v)
  BY <1>2 DEF Branches
<1>4. QED
  BY <1>1, <1>3

\* Taking the next choice at node n leaves the one it had behind.
LEMMA BranchesTaken ==
    ASSUME NEW nl, NEW ml, NEW n \in Nat \ {0}, NEW v \in Seq(Nat),
           \A j \in 1 .. n - 1 : nl[j].idx = ml[j].idx,
           nl[n].idx \in Nat, ml[n].idx = nl[n].idx + 1
    PROVE  Branches(nl, n, n, v) <=> Branches(ml, n, 0, v)
<1>1. n <= Len(v) => (v[n] < nl[n].idx \/ v[n] = nl[n].idx <=> v[n] < ml[n].idx)
  <2> SUFFICES ASSUME n <= Len(v)
               PROVE  v[n] < nl[n].idx \/ v[n] = nl[n].idx <=> v[n] < ml[n].idx
    OBVIOUS
  <2>1. v[n] \in Nat
    BY ElementOfSeq
  <2>2. QED
    BY <2>1
<1>2. ASSUME Branches(nl, n, n, v) PROVE Branches(ml, n, 0, v)
  <2>1. PICK i \in 1 .. n :
               /\ i <= Len(v)
               /\ \A j \in 1 .. i - 1 : v[j] = nl[j].idx
               /\ v[i] < nl[i].idx \/ (i = n /\ v[i] = nl[i].idx)
    BY <1>2 DEF Branches
  <2>2. v[i] < ml[i].idx
    <3>1. CASE i = n
      BY <1>1, <2>1, <3>1
    <3>2. CASE i # n
      BY <2>1, <3>2
    <3>3. QED
      BY <3>1, <3>2
  <2>3. \A j \in 1 .. i - 1 : v[j] = ml[j].idx
    BY <2>1
  <2>4. QED
    BY <2>1, <2>2, <2>3 DEF Branches
<1>3. ASSUME Branches(ml, n, 0, v) PROVE Branches(nl, n, n, v)
  <2>1. PICK i \in 1 .. n :
               /\ i <= Len(v)
               /\ \A j \in 1 .. i - 1 : v[j] = ml[j].idx
               /\ v[i] < ml[i].idx \/ (i = 0 /\ v[i] = ml[i].idx)
    BY <1>3, Zenon DEF Branches
  <2>2. v[i] < nl[i].idx \/ (i = n /\ v[i] = nl[i].idx)
    <3>1. CASE i = n
      BY <1>1, <2>1, <3>1
    <3>2. CASE i # n
      <4>1. i # 0 /\ i \in 1 .. n - 1
        BY <3>2
      <4>2. nl[i].idx = ml[i].idx
        BY <4>1
      <4>3. QED
        BY <2>1, <4>1, <4>2, Zenon
    <3>3. QED
      BY <3>1, <3>2
  <2>3. \A j \in 1 .. i - 1 : v[j] = nl[j].idx
    BY <2>1
  <2>4. QED
    BY <2>1, <2>2, <2>3 DEF Branches
<1>4. QED
  BY <1>2, <1>3

\* At the end of an execution the stack holds exactly its choices.
LEMMA AtLeafFacts ==
    ASSUME TypeOK, StackOK, AtLeaf
    PROVE  /\ curr_backtrack = 0
           /\ head = Len(node_list)
           /\ Len(node_list) \in Nat
           /\ Recorded(node_list, Len(node_list))
           /\ path \in Leaves
<1>1. Len(node_list) \in Nat /\ head \in Nat
  BY DEF TypeOK
<1>2. curr_backtrack = 0
  <2>1. SUFFICES ASSUME curr_backtrack # 0 PROVE FALSE
    OBVIOUS
  <2>2. Limit = curr_backtrack /\ head < Limit /\ Limit \in Nat
    BY <1>1, <2>1 DEF StackOK, Limit, TypeOK
  <2>3. Prefix(node_list, head) \in DOMAIN prog
    BY <1>1, <2>2, RecordedAt DEF StackOK
  <2>4. QED
    BY <2>3 DEF StackOK, AtLeaf
<1>3. head = Len(node_list) /\ Recorded(node_list, Len(node_list))
  BY <1>2 DEF StackOK, Limit
<1>4. path \in Leaves
  <2>1. path \notin DOMAIN prog /\ path = Prefix(node_list, head)
    BY DEF AtLeaf, StackOK
  <2>2. CASE head = 0
    <3>1. path = <<>>
      BY <2>1, <2>2 DEF Prefix
    <3>2. QED
      BY <2>1, <3>1 DEF Leaves
  <2>3. CASE head # 0
    <3> DEFINE p == Prefix(node_list, head - 1)
               c == node_list[head].idx
    <3>1. head - 1 \in 0 .. Len(node_list) - 1 /\ head - 1 + 1 = head
      BY <1>1, <1>3, <2>3
    <3>2. path = Append(p, c)
      BY <2>1, <3>1, PrefixAppend DEF TypeOK
    <3>3. p \in DOMAIN prog /\ node_list[head].size = prog[p] /\ c < prog[p]
      BY <1>1, <1>3, <2>3 DEF Recorded
    <3>4. c \in Nat /\ prog[p] \in Nat
      <4>1. node_list[head] \in Node
        BY <1>1, <1>3, <2>3, ElementOfSeq DEF TypeOK
      <4>2. QED
        BY <3>3, <4>1 DEF Node
    <3>5. c \in 0 .. prog[p] - 1
      BY <3>3, <3>4
    <3>6. QED
      BY <2>1, <3>2, <3>3, <3>5 DEF Leaves
  <2>4. QED
    BY <2>2, <2>3
<1>5. QED
  BY <1>1, <1>2, <1>3, <1>4

\* An execution that shares the choices up to last_backtrack is this one or has
\* been explored: the decisions behind last_backtrack have no choice left.
LEMMA LeafSplit ==
    ASSUME TypeOK, StackOK, LastBacktrackDeepest, AtLeaf,
           NEW v \in Leaves, last_backtrack <= Len(v),
           \A j \in 1 .. last_backtrack : v[j] = node_list[j].idx
    PROVE  v = path \/ Branches(node_list, Len(node_list), 0, v)
<1>1. /\ head = Len(node_list)
      /\ Len(node_list) \in Nat
      /\ Recorded(node_list, Len(node_list))
      /\ path \in Leaves
  BY AtLeafFacts
<1>2. /\ v \in Seq(Nat)
      /\ \A i \in 1 .. Len(v) : v[i] < prog[[j \in 1 .. i - 1 |-> v[j]]]
  BY LeafFacts DEF TypeOK
<1>3. /\ path \in Seq(Nat)
      /\ Len(path) = Len(node_list)
      /\ \A j \in 1 .. Len(node_list) : path[j] = node_list[j].idx
  BY <1>1, PrefixFacts DEF TypeOK, StackOK
<1>4. SUFFICES ASSUME v # path PROVE Branches(node_list, Len(node_list), 0, v)
  OBVIOUS
<1>5. PICK d \in 1 .. Len(v) : /\ d <= Len(path)
                               /\ v[d] # path[d]
                               /\ \A j \in 1 .. d - 1 : v[j] = path[j]
  <2>1. ~ \A j \in 1 .. Len(v) : j <= Len(path) => v[j] = path[j]
    BY <1>1, <1>4, LeavesDiffer DEF TypeOK
  <2>2. QED
    BY <2>1, <1>2, <1>3, FirstDifference
<1>6. d \in 1 .. Len(node_list)
  BY <1>2, <1>3, <1>5
<1>7. \A j \in 1 .. d - 1 : v[j] = node_list[j].idx
  BY <1>3, <1>5, <1>6
<1>8. node_list[d].idx \in Nat /\ node_list[d].size \in Nat /\ v[d] \in Nat
  <2>1. node_list[d] \in Node /\ v[d] \in Nat
    BY <1>2, <1>5, <1>6, ElementOfSeq DEF TypeOK
  <2>2. QED
    BY <2>1 DEF Node
<1>9. v[d] < node_list[d].size
  <2>1. Prefix(node_list, d - 1) = [j \in 1 .. d - 1 |-> v[j]]
    BY <1>7 DEF Prefix
  <2>2. QED
    BY <1>1, <1>2, <1>5, <1>6, <2>1 DEF Recorded
<1>10. ~ HasMore(node_list[d])
  <2>1. d \in last_backtrack + 1 .. head
    BY <1>1, <1>3, <1>5, <1>6 DEF TypeOK
  <2>2. QED
    BY <2>1 DEF LastBacktrackDeepest
<1>11. v[d] < node_list[d].idx
  <2>1. v[d] # node_list[d].idx
    BY <1>3, <1>5, <1>6
  <2>2. QED
    BY <1>8, <1>9, <1>10, <2>1 DEF HasMore
<1>12. QED
  BY <1>5, <1>6, <1>7, <1>11 DEF Branches

----------------------------------------------------------------------------
\* The inductive invariant, one lemma per action.

\* The initial state satisfies the inductive invariant.
LEMMA InitIInv ==
    ASSUME Init PROVE IInv
<1>1. TypeOK
  BY DEF Init, TypeOK, NoFile
<1>2. StackOK
  <2>1. path = Prefix(node_list, head)
    BY DEF Init, Prefix
  <2>2. Limit = 0
    BY DEF Init, Limit
  <2>3. Recorded(node_list, Limit)
    BY <2>2 DEF Recorded
  <2>4. QED
    BY <2>1, <2>3 DEF Init, StackOK
<1>3. FileOK
  BY DEF Init, FileOK
<1>4. LastBacktrackDeepest
  BY DEF Init, LastBacktrackDeepest
<1>5. VisitedOK
  <2>1. Limit = 0
    BY DEF Init, Limit
  <2>2. \A v \in Leaves : ~Branches(node_list, Limit, curr_backtrack, v)
    BY <2>1 DEF Branches
  <2>3. visited = {v \in Leaves : Branches(node_list, Limit, curr_backtrack, v)}
    BY <2>2 DEF Init
  <2>4. QED
    BY <2>3 DEF Init, VisitedOK
<1>6. QED
  BY <1>1, <1>2, <1>3, <1>4, <1>5 DEF IInv

\* The file is about prog, which never changes.
LEMMA FileKept ==
    ASSUME FileOK, UNCHANGED <<prog, file>>
    PROVE  FileOK'
  BY DEF FileOK, Recorded

\* What was explored before the save still is what lies before the saved stack.
LEMMA SavedKept ==
    ASSUME VisitedOK, UNCHANGED <<prog, file, savedVisited>>
    PROVE  (file # NoFile =>
              savedVisited = {v \in Leaves :
                Branches(file.nodes, file.curr_ind + 1, file.curr_ind + 1, v)})'
<1>1. Leaves' = Leaves
  BY DEF Leaves
<1>2. QED
  BY <1>1 DEF VisitedOK

\* explore_next with a new node keeps the invariant.
LEMMA CreateNodeIInv ==
    ASSUME IInv, CreateNode PROVE IInv'
<1> DEFINE node == [idx |-> 0, size |-> prog[path]]
<1>1. /\ TypeOK /\ StackOK /\ FileOK /\ LastBacktrackDeepest /\ VisitedOK
      /\ AtDecision /\ head = Len(node_list) /\ node_list' = Append(node_list, node)
      /\ curr_backtrack' = curr_backtrack /\ head' = head + 1
      /\ last_backtrack' = Deepest(node) /\ path' = Append(path, node.idx)
      /\ UNCHANGED <<prog, execution_num, execution_num_save, file, status, restarts,
                     visited, savedVisited>>
  BY DEF IInv, CreateNode, Choose
<1>2. /\ node_list \in Seq(Node) /\ Len(node_list) \in Nat /\ head \in Nat
      /\ last_backtrack \in Nat /\ curr_backtrack \in Nat
  BY <1>1 DEF TypeOK
<1>3. node \in Node /\ prog[path] \in Nat /\ prog[path] > 0
  <2>1. prog[path] \in 1 .. ChoiceMod - 1
    BY <1>1, DecisionFacts DEF TypeOK, AtDecision
  <2>2. QED
    BY <2>1, LimitAssumption DEF Node
<1>4. /\ node_list' \in Seq(Node) /\ Len(node_list') = Len(node_list) + 1
      /\ node_list'[Len(node_list) + 1] = node
      /\ \A j \in 1 .. Len(node_list) : node_list'[j] = node_list[j]
  BY <1>1, <1>2, <1>3, AppendProperties
<1>5. TypeOK'
  BY <1>1, <1>2, <1>3, <1>4 DEF TypeOK, Deepest, HasMore
<1>6. curr_backtrack = 0 /\ Limit = Len(node_list) /\ Limit' = Len(node_list) + 1
  BY <1>1, <1>2, <1>4 DEF StackOK, Limit
<1>7. StackOK'
  <2>1. path' = Prefix(node_list', head')
    <3>1. Prefix(node_list', head) = Prefix(node_list, head)
      BY <1>1, <1>2, <1>4, PrefixSame
    <3>2. Prefix(node_list', head + 1) = Append(Prefix(node_list', head), node_list'[head + 1].idx)
      <4>1. head \in 0 .. Len(node_list') - 1 /\ node_list' \in Seq(Node)
        BY <1>1, <1>2, <1>4
      <4>2. QED
        BY <4>1, PrefixAppend
    <3>3. path = Prefix(node_list, head)
      BY <1>1 DEF StackOK
    <3>4. QED
      BY <1>1, <1>4, <3>1, <3>2, <3>3
  <2>2. ASSUME NEW i \in 1 .. Len(node_list) + 1
        PROVE  /\ Prefix(node_list', i - 1) \in DOMAIN prog
               /\ node_list'[i].size = prog[Prefix(node_list', i - 1)]
               /\ node_list'[i].idx < node_list'[i].size
    <3>1. Prefix(node_list', i - 1) = Prefix(node_list, i - 1)
      BY <1>2, <1>4, PrefixSame
    <3>2. CASE i \in 1 .. Len(node_list)
      BY <1>1, <1>4, <1>6, <3>1, <3>2 DEF StackOK, Recorded
    <3>3. CASE i = Len(node_list) + 1
      <4>1. Prefix(node_list, i - 1) = path
        BY <1>1, <1>2, <3>3 DEF StackOK
      <4>2. QED
        BY <1>1, <1>3, <1>4, <3>1, <3>3, <4>1 DEF AtDecision
    <3>4. QED
      BY <1>2, <3>2, <3>3
  <2>3. Recorded(node_list, Limit)'
    BY <1>1, <1>6, <2>2 DEF Recorded
  <2>4. QED
    BY <1>1, <1>4, <1>6, <2>1, <2>3 DEF StackOK
<1>8. FileOK'
  BY <1>1, FileKept
<1>9. LastBacktrackDeepest'
  <2>1. \A i \in 1 .. head : node_list'[i] = node_list[i]
    BY <1>1, <1>4
  <2>2. node_list'[head + 1] = node
    BY <1>1, <1>4
  <2>3. CASE HasMore(node)
    BY <1>1, <1>2, <2>2, <2>3 DEF LastBacktrackDeepest, Deepest
  <2>4. CASE ~HasMore(node)
    BY <1>1, <1>2, <2>1, <2>2, <2>4 DEF LastBacktrackDeepest, Deepest
  <2>5. QED
    BY <2>3, <2>4
<1>10. VisitedOK'
  <2>1. Leaves' = Leaves
    BY <1>1 DEF Leaves
  <2>2. ASSUME NEW v \in Leaves
        PROVE  Branches(node_list, Limit, curr_backtrack, v)
                 <=> Branches(node_list', Limit', curr_backtrack', v)
    <3>1. v \in Seq(Nat)
      BY <1>1, LeafFacts DEF TypeOK
    <3>2. \A j \in 1 .. Len(node_list) : node_list[j].idx = node_list'[j].idx
      BY <1>4
    <3>3. node_list'[Len(node_list) + 1].idx = 0
      BY <1>4
    <3>4. Branches(node_list, Len(node_list), 0, v)
             <=> Branches(node_list', Len(node_list) + 1, 0, v)
      BY <1>2, <3>1, <3>2, <3>3, BranchesNew
    <3>5. QED
      BY <1>1, <1>6, <3>4
  <2>3. visited' = visited /\ status' = "running" /\ status = "running"
    BY <1>1 DEF AtDecision
  <2>4. visited = {v \in Leaves : Branches(node_list, Limit, curr_backtrack, v)}
    BY <1>1, <2>3 DEF VisitedOK
  <2>5. visited' = {v \in Leaves' : Branches(node_list', Limit', curr_backtrack', v)}
    BY <2>1, <2>2, <2>3, <2>4
  <2>6. QED
    BY <1>1, <2>3, <2>5, SavedKept DEF VisitedOK
<1>11. QED
  BY <1>5, <1>7, <1>8, <1>9, <1>10 DEF IInv

\* explore_next repeating a choice keeps the invariant.
LEMMA ReplayIInv ==
    ASSUME IInv, Replay PROVE IInv'
<1> DEFINE node == node_list[head + 1]
<1>1. /\ TypeOK /\ StackOK /\ FileOK /\ LastBacktrackDeepest /\ VisitedOK
      /\ AtDecision /\ head < Len(node_list) /\ head + 1 # curr_backtrack
      /\ head' = head + 1
      /\ last_backtrack' = Deepest(node) /\ path' = Append(path, node.idx)
      /\ UNCHANGED <<prog, node_list, curr_backtrack, execution_num, execution_num_save,
                     file, status, restarts, visited, savedVisited>>
  BY DEF IInv, Replay, Choose
<1>2. /\ node_list \in Seq(Node) /\ Len(node_list) \in Nat /\ head \in Nat
      /\ last_backtrack \in Nat /\ curr_backtrack \in Nat
  BY <1>1 DEF TypeOK
<1>3. node \in Node
  BY <1>1, <1>2, ElementOfSeq
<1>4. node.idx \in Nat
  BY <1>3 DEF Node
<1>5. TypeOK'
  BY <1>1, <1>2, <1>4 DEF TypeOK, Deepest
<1>6. Limit' = Limit
  BY <1>1 DEF Limit
<1>7. StackOK'
  <2>1. path' = Prefix(node_list', head')
    <3>1. Prefix(node_list, head + 1) = Append(Prefix(node_list, head), node.idx)
      <4>1. head \in 0 .. Len(node_list) - 1
        BY <1>1, <1>2
      <4>2. QED
        BY <1>2, <4>1, PrefixAppend
    <3>2. QED
      BY <1>1, <3>1 DEF StackOK
  <2>2. Recorded(node_list, Limit)'
    BY <1>1, <1>6 DEF StackOK, Recorded
  <2>3. curr_backtrack # 0 /\ head + 1 < curr_backtrack
    BY <1>1, <1>2 DEF StackOK
  <2>4. QED
    BY <1>1, <2>1, <2>2, <2>3 DEF StackOK
<1>8. FileOK'
  BY <1>1, FileKept
<1>9. LastBacktrackDeepest'
  <2>1. CASE HasMore(node)
    BY <1>1, <1>2, <2>1 DEF LastBacktrackDeepest, Deepest
  <2>2. CASE ~HasMore(node)
    BY <1>1, <1>2, <2>2 DEF LastBacktrackDeepest, Deepest
  <2>3. QED
    BY <2>1, <2>2
<1>10. VisitedOK'
  <2>1. Leaves' = Leaves
    BY <1>1 DEF Leaves
  <2>2. QED
    BY <1>1, <1>6, <2>1, SavedKept DEF VisitedOK
<1>11. QED
  BY <1>5, <1>7, <1>8, <1>9, <1>10 DEF IInv

\* explore_next at curr_backtrack keeps the invariant.
LEMMA BacktrackIInv ==
    ASSUME IInv, Backtrack PROVE IInv'
<1> DEFINE node == [node_list[head + 1] EXCEPT !.idx = @ + 1]
<1>1. /\ TypeOK /\ StackOK /\ FileOK /\ LastBacktrackDeepest /\ VisitedOK
      /\ AtDecision /\ head < Len(node_list) /\ head + 1 = curr_backtrack
      /\ head' = head + 1 /\ curr_backtrack' = 0
      /\ node_list' = Append(SubSeq(node_list, 1, head), node)
      /\ last_backtrack' = Deepest(node_list'[head + 1])
      /\ path' = Append(path, node_list'[head + 1].idx)
      /\ UNCHANGED <<prog, execution_num, execution_num_save,
                     file, status, restarts, visited, savedVisited>>
  BY DEF IInv, Backtrack, Choose, TakeNext
<1>2. /\ node_list \in Seq(Node) /\ Len(node_list) \in Nat /\ head \in Nat
      /\ last_backtrack \in Nat /\ curr_backtrack \in Nat
  BY <1>1 DEF TypeOK
<1>3. /\ node_list[head + 1] \in Node /\ node \in Node
      /\ node.idx = node_list[head + 1].idx + 1
      /\ node.size = node_list[head + 1].size
  <2>1. node_list[head + 1] \in Node
    BY <1>1, <1>2, ElementOfSeq
  <2>2. QED
    BY <2>1 DEF Node
<1>4. node_list[head + 1].idx \in Nat
  BY <1>3 DEF Node
<1>5. /\ node_list' \in Seq(Node) /\ Len(node_list') = head + 1
      /\ node_list'[head + 1] = node
      /\ \A j \in 1 .. head : node_list'[j] = node_list[j]
  BY <1>1, <1>2, <1>3
<1>6. TypeOK'
  <2>1. last_backtrack' \in Nat
    BY <1>1, <1>2 DEF Deepest
  <2>2. node_list'[head + 1].idx \in Nat
    BY <1>3, <1>4, <1>5
  <2>3. path' \in Seq(Nat)
    BY <1>1, <2>2 DEF TypeOK
  <2>4. head' \in 0 .. Len(node_list')
    BY <1>1, <1>2, <1>5
  <2>5. QED
    BY <1>1, <1>5, <2>1, <2>3, <2>4 DEF TypeOK
<1>7. Limit = head + 1 /\ Limit' = head + 1
  BY <1>1, <1>2, <1>5 DEF Limit
<1>8. HasMore(node_list[head + 1])
  BY <1>1, <1>2 DEF StackOK
<1>9. StackOK'
  <2>1. path' = Prefix(node_list', head')
    <3>1. Prefix(node_list', head) = Prefix(node_list, head)
      BY <1>2, <1>5, PrefixSame
    <3>2. Prefix(node_list', head + 1) = Append(Prefix(node_list', head), node_list'[head + 1].idx)
      <4>1. head \in 0 .. Len(node_list') - 1 /\ node_list' \in Seq(Node)
        BY <1>2, <1>5
      <4>2. QED
        BY <4>1, PrefixAppend
    <3>3. path = Prefix(node_list, head)
      BY <1>1 DEF StackOK
    <3>4. QED
      BY <1>1, <3>1, <3>2, <3>3
  <2>2. ASSUME NEW i \in 1 .. head + 1
        PROVE  /\ Prefix(node_list', i - 1) \in DOMAIN prog
               /\ node_list'[i].size = prog[Prefix(node_list', i - 1)]
               /\ node_list'[i].idx < node_list'[i].size
    <3>1. Prefix(node_list', i - 1) = Prefix(node_list, i - 1)
      BY <1>2, <1>5, PrefixSame
    <3>2. /\ Prefix(node_list, i - 1) \in DOMAIN prog
          /\ node_list[i].size = prog[Prefix(node_list, i - 1)]
          /\ node_list[i].idx < node_list[i].size
      BY <1>1, <1>7 DEF StackOK, Recorded
    <3>3. CASE i \in 1 .. head
      BY <1>5, <3>1, <3>2, <3>3
    <3>4. CASE i = head + 1
      <4>1. node_list'[i].idx < node_list'[i].size
        BY <1>3, <1>5, <1>8, <3>4 DEF HasMore
      <4>2. QED
        BY <1>3, <1>5, <3>1, <3>2, <3>4, <4>1
    <3>5. QED
      BY <1>2, <3>3, <3>4
  <2>3. Recorded(node_list, Limit)'
    BY <1>1, <1>7, <2>2 DEF Recorded
  <2>4. QED
    BY <1>1, <1>5, <2>1, <2>3 DEF StackOK
<1>10. FileOK'
  BY <1>1, FileKept
<1>11. LastBacktrackDeepest'
  <2>1. CASE HasMore(node)
    BY <1>1, <1>2, <1>5, <2>1 DEF LastBacktrackDeepest, Deepest
  <2>2. CASE ~HasMore(node)
    BY <1>1, <1>2, <1>5, <2>2 DEF LastBacktrackDeepest, Deepest
  <2>3. QED
    BY <2>1, <2>2
<1>12. VisitedOK'
  <2>1. Leaves' = Leaves
    BY <1>1 DEF Leaves
  <2>2. ASSUME NEW v \in Leaves
        PROVE  Branches(node_list, Limit, curr_backtrack, v)
                 <=> Branches(node_list', Limit', curr_backtrack', v)
    <3> DEFINE n == head + 1
    <3>1. v \in Seq(Nat)
      BY <1>1, LeafFacts DEF TypeOK
    <3>2. /\ n \in Nat \ {0}
          /\ \A j \in 1 .. n - 1 : node_list[j].idx = node_list'[j].idx
          /\ node_list[n].idx \in Nat
          /\ node_list'[n].idx = node_list[n].idx + 1
      BY <1>2, <1>3, <1>4, <1>5
    <3> HIDE DEF n
    <3>3. Branches(node_list, n, n, v) <=> Branches(node_list', n, 0, v)
      BY <3>1, <3>2, BranchesTaken
    <3>4. QED
      BY <1>1, <1>7, <3>3 DEF n
  <2>3. visited' = visited /\ status' = "running" /\ status = "running"
    BY <1>1 DEF AtDecision
  <2>4. visited = {v \in Leaves : Branches(node_list, Limit, curr_backtrack, v)}
    BY <1>1, <2>3 DEF VisitedOK
  <2>5. visited' = {v \in Leaves' : Branches(node_list', Limit', curr_backtrack', v)}
    BY <2>1, <2>2, <2>3, <2>4
  <2>6. QED
    BY <1>1, <2>3, <2>5, SavedKept DEF VisitedOK
<1>13. QED
  BY <1>6, <1>9, <1>10, <1>11, <1>12 DEF IInv

\* What has been explored once this execution is counted.
LEMMA ExploredNow ==
    ASSUME IInv, AtLeaf, last_backtrack # 0
    PROVE  visited \cup {path} =
             {v \in Leaves : Branches(node_list, last_backtrack, last_backtrack, v)}
<1> DEFINE n == Len(node_list)
           lb == last_backtrack
<1>1. /\ TypeOK /\ StackOK /\ LastBacktrackDeepest /\ VisitedOK
      /\ prog \in Programs /\ node_list \in Seq(Node)
  BY DEF IInv, TypeOK
<1>2. curr_backtrack = 0 /\ head = n /\ n \in Nat /\ path \in Leaves /\ Limit = n
  BY <1>1, AtLeafFacts DEF Limit
<1>3. lb \in 1 .. n
  BY <1>1, <1>2 DEF TypeOK, LastBacktrackDeepest
<1>4. visited = {v \in Leaves : Branches(node_list, n, 0, v)}
  BY <1>1, <1>2 DEF VisitedOK, AtLeaf
<1>5. Len(path) = n /\ \A j \in 1 .. n : path[j] = node_list[j].idx
  BY <1>1, <1>2, PrefixFacts DEF StackOK
<1>6. Branches(node_list, lb, lb, path)
  <2>1. lb \in 1 .. lb /\ lb <= Len(path)
    BY <1>2, <1>3, <1>5
  <2>2. \A j \in 1 .. lb - 1 : path[j] = node_list[j].idx
    BY <1>2, <1>3, <1>5
  <2>3. path[lb] = node_list[lb].idx
    BY <1>3, <1>5
  <2>4. QED
    BY <2>1, <2>2, <2>3 DEF Branches
<1>7. ASSUME NEW v \in Leaves, Branches(node_list, n, 0, v)
      PROVE  Branches(node_list, lb, lb, v)
  <2>1. PICK i \in 1 .. n : /\ i <= Len(v)
                            /\ \A j \in 1 .. i - 1 : v[j] = node_list[j].idx
                            /\ v[i] < node_list[i].idx
    BY <1>2, <1>7 DEF Branches
  <2>2. Len(v) \in Nat
    BY <1>1, LeafFacts
  <2>3. CASE i <= lb
    <3>1. i \in 1 .. lb
      BY <1>3, <2>3
    <3>2. QED
      BY <2>1, <3>1 DEF Branches
  <2>4. CASE i > lb
    <3>1. lb \in 1 .. lb /\ lb <= Len(v)
      BY <1>2, <1>3, <2>1, <2>2, <2>4
    <3>2. \A j \in 1 .. lb - 1 : v[j] = node_list[j].idx
      BY <1>2, <1>3, <2>1, <2>4
    <3>3. v[lb] = node_list[lb].idx
      BY <1>2, <1>3, <2>1, <2>4
    <3>4. QED
      BY <3>1, <3>2, <3>3 DEF Branches
  <2>5. QED
    BY <1>2, <1>3, <2>3, <2>4
<1>8. ASSUME NEW v \in Leaves, Branches(node_list, lb, lb, v)
      PROVE  v = path \/ Branches(node_list, n, 0, v)
  <2>1. PICK i \in 1 .. lb :
               /\ i <= Len(v)
               /\ \A j \in 1 .. i - 1 : v[j] = node_list[j].idx
               /\ v[i] < node_list[i].idx \/ (i = lb /\ v[i] = node_list[i].idx)
    BY <1>8 DEF Branches
  <2>2. CASE v[i] < node_list[i].idx
    <3>1. i \in 1 .. n
      BY <1>2, <1>3
    <3>2. QED
      BY <2>1, <2>2, <3>1 DEF Branches
  <2>3. CASE i = lb /\ v[i] = node_list[i].idx
    <3>1. lb <= Len(v) /\ \A j \in 1 .. lb : v[j] = node_list[j].idx
      BY <1>2, <1>3, <2>1, <2>3
    <3>2. QED
      BY <1>1, <3>1, LeafSplit
  <2>4. QED
    BY <2>1, <2>2, <2>3
<1>9. QED
  BY <1>2, <1>4, <1>6, <1>7, <1>8

\* The nodes written to the file are the ones of the stack.
LEMMA SavedFacts ==
    ASSUME IInv, AtLeaf
    PROVE  /\ Written(file.nodes, Saved) \in Seq(Node)
           /\ Len(node_list) <= Len(Written(file.nodes, Saved))
           /\ \A i \in 1 .. Len(node_list) : Written(file.nodes, Saved)[i] = node_list[i]
<1> DEFINE n == Len(node_list)
           rest == SubSeq(file.nodes, n + 1, Len(file.nodes))
<1>1. /\ TypeOK /\ StackOK /\ prog \in Programs /\ node_list \in Seq(Node)
      /\ file.nodes \in Seq(Node)
  BY DEF IInv, TypeOK
<1>2. n \in Nat /\ Recorded(node_list, n)
  BY <1>1, AtLeafFacts
<1>3. ASSUME NEW i \in 1 .. n PROVE Saved[i] = node_list[i] /\ Saved[i] \in Node
  <2>1. node_list[i] \in Node
    BY <1>1, ElementOfSeq
  <2>2. /\ Prefix(node_list, i - 1) \in DOMAIN prog
        /\ node_list[i].size = prog[Prefix(node_list, i - 1)]
        /\ node_list[i].idx < node_list[i].size
    BY <1>2 DEF Recorded
  <2>3. node_list[i].size \in 1 .. ChoiceMod - 1
    BY <1>1, <2>2, DecisionFacts
  <2>4. /\ node_list[i].idx % ChoiceMod = node_list[i].idx
        /\ node_list[i].size % ChoiceMod = node_list[i].size
    <3>1. \A x, m \in Nat : x < m => x % m = x
      OBVIOUS
    <3>2. QED
      BY <2>1, <2>2, <2>3, <3>1, LimitAssumption DEF Node
  <2>5. Saved[i] = Narrow(node_list[i])
    BY DEF Saved
  <2>6. QED
    BY <2>1, <2>4, <2>5 DEF Narrow, Node
<1>4. Saved \in Seq(Node) /\ Len(Saved) = n
  BY <1>2, <1>3 DEF Saved
<1>5. rest \in Seq(Node)
  <2>1. \A i \in n + 1 .. Len(file.nodes) : file.nodes[i] \in Node
    BY <1>1, <1>2, ElementOfSeq
  <2>2. n + 1 \in Int /\ Len(file.nodes) \in Int
    BY <1>1, <1>2
  <2>3. QED
    BY <2>1, <2>2, SubSeqProperties
<1>6. Written(file.nodes, Saved) = Saved \o rest
  BY <1>4 DEF Written
<1> HIDE DEF rest
<1>7. /\ Saved \o rest \in Seq(Node)
      /\ Len(Saved \o rest) = n + Len(rest) /\ Len(rest) \in Nat
      /\ \A i \in 1 .. n : (Saved \o rest)[i] = Saved[i]
  <2>1. Len(rest) \in Nat
    BY <1>5
  <2>2. /\ Saved \o rest \in Seq(Node)
        /\ Len(Saved \o rest) = Len(Saved) + Len(rest)
        /\ \A i \in 1 .. Len(Saved) + Len(rest) :
             (Saved \o rest)[i] = IF i <= Len(Saved) THEN Saved[i] ELSE rest[i - Len(Saved)]
    BY <1>4, <1>5, ConcatProperties
  <2> HIDE DEF n
  <2>3. \A i \in 1 .. n : i \in 1 .. n + Len(rest) /\ i <= n
    BY <1>2, <2>1
  <2>4. QED
    BY <1>2, <1>4, <2>1, <2>2, <2>3
<1>8. QED
  BY <1>2, <1>3, <1>6, <1>7

\* finish_execution with another execution to come keeps the invariant.
LEMMA NextExecutionIInv ==
    ASSUME IInv, NextExecution PROVE IInv'
<1> DEFINE lb == last_backtrack
           n == Len(node_list)
<1>1. /\ TypeOK /\ StackOK /\ FileOK /\ LastBacktrackDeepest /\ VisitedOK
      /\ AtLeaf /\ lb # 0
      /\ visited' = visited \cup {path} /\ curr_backtrack' = lb /\ last_backtrack' = 0
      /\ head' = 0 /\ path' = <<>> /\ execution_num' = execution_num + 1
      /\ UNCHANGED <<prog, node_list, execution_num_save, status, restarts>>
  BY DEF IInv, NextExecution
<1>2. /\ node_list \in Seq(Node) /\ lb \in Nat /\ prog \in Programs
      /\ execution_num \in Nat
  BY <1>1 DEF TypeOK
<1>3. head = n /\ n \in Nat /\ Recorded(node_list, n) /\ path \in Leaves
  BY <1>1, AtLeafFacts
<1>4. lb \in 1 .. n /\ HasMore(node_list[lb])
  BY <1>1, <1>2, <1>3 DEF LastBacktrackDeepest
<1>5. Recorded(node_list, lb)
  BY <1>3, <1>4 DEF Recorded
<1>6. (lb - 1) % IndMod = lb - 1 /\ lb - 1 \in Nat
  <2>1. Prefix(node_list, lb - 1) \in DOMAIN prog
    BY <1>3, <1>4 DEF Recorded
  <2>2. Len(Prefix(node_list, lb - 1)) < IndMod
    BY <1>2, <2>1, DecisionFacts
  <2>3. lb - 1 \in 0 .. n
    BY <1>3, <1>4
  <2>4. Len(Prefix(node_list, lb - 1)) = lb - 1
    BY <1>2, <2>3, PrefixFacts
  <2>5. \A x, m \in Nat : x < m => x % m = x
    OBVIOUS
  <2>6. QED
    BY <2>2, <2>3, <2>4, <2>5, LimitAssumption
<1>7. Limit' = lb
  BY <1>1 DEF Limit
<1>8. Leaves' = Leaves
  BY <1>1 DEF Leaves
<1>9. visited' = {v \in Leaves : Branches(node_list, lb, lb, v)}
  BY <1>1, ExploredNow
<1> DEFINE saving == execution_num_save = execution_num + 1
           nodes == Written(file.nodes, Saved)
<1>10. /\ FileOK'
       /\ file' \in [exec_num : Nat, curr_ind : Nat, nodes : Seq(Node)]
       /\ (file # NoFile => savedVisited = {v \in Leaves :
             Branches(file.nodes, file.curr_ind + 1, file.curr_ind + 1, v)})'
       /\ savedVisited' \subseteq Seq(Nat)
  <2>1. CASE saving
    <3>1. /\ file' = [exec_num |-> execution_num + 1, curr_ind |-> lb - 1, nodes |-> nodes]
          /\ savedVisited' = visited'
      BY <1>6, <2>1 DEF NextExecution
    <3>2. nodes \in Seq(Node) /\ n <= Len(nodes) /\ \A i \in 1 .. n : nodes[i] = node_list[i]
      BY <1>1, SavedFacts
    <3> HIDE DEF nodes
    <3>3. /\ file'.nodes = nodes /\ file'.curr_ind + 1 = lb /\ file'.curr_ind < Len(nodes)
          /\ \A i \in 1 .. lb : node_list[i] = nodes[i]
      BY <1>2, <1>3, <1>4, <1>6, <3>1, <3>2
    <3>4. FileOK'
      <4>1. Recorded(nodes, lb)
        BY <1>2, <1>5, <3>3, RecordedSame
      <4>2. HasMore(nodes[lb])
        BY <1>4, <3>3
      <4>3. Recorded(file.nodes, file.curr_ind + 1)'
        BY <1>1, <3>3, <4>1 DEF Recorded
      <4>4. QED
        BY <3>3, <4>2, <4>3 DEF FileOK
    <3>5. savedVisited' = {v \in Leaves : Branches(nodes, lb, lb, v)}
      <4>1. ASSUME NEW v PROVE Branches(node_list, lb, lb, v) <=> Branches(nodes, lb, lb, v)
        <5>1. \A i \in 1 .. lb : node_list[i].idx = nodes[i].idx
          BY <3>3
        <5>2. QED
          BY <1>2, <5>1, BranchesSame
      <4>2. QED
        BY <1>9, <3>1, <4>1
    <3>6. file' \in [exec_num : Nat, curr_ind : Nat, nodes : Seq(Node)]
      BY <1>2, <1>6, <3>1, <3>2
    <3>7. savedVisited' = {v \in Leaves' :
                  Branches(file'.nodes, file'.curr_ind + 1, file'.curr_ind + 1, v)}
      BY <1>8, <3>3, <3>5
    <3>8. QED
      BY <1>8, <3>4, <3>5, <3>6, <3>7, <1>2, LeafFacts
  <2>2. CASE ~saving
    <3>1. UNCHANGED <<file, savedVisited>>
      BY <2>2 DEF NextExecution
    <3>2. FileOK'
      BY <1>1, <3>1, FileKept
    <3>3. (file # NoFile => savedVisited = {v \in Leaves :
                  Branches(file.nodes, file.curr_ind + 1, file.curr_ind + 1, v)})'
      BY <1>1, <3>1, SavedKept
    <3>4. QED
      BY <1>1, <3>1, <3>2, <3>3 DEF TypeOK
  <2>3. QED
    BY <2>1, <2>2
<1>11. TypeOK'
  <2>1. visited' \subseteq Seq(Nat)
    BY <1>2, <1>9, LeafFacts
  <2>2. QED
    BY <1>1, <1>2, <1>3, <1>10, <2>1 DEF TypeOK
<1>12. StackOK'
  <2>1. <<>> = Prefix(node_list, 0)
    BY DEF Prefix
  <2>2. Recorded(node_list, Limit)'
    BY <1>1, <1>5, <1>7 DEF Recorded
  <2>3. QED
    BY <1>1, <1>3, <1>4, <2>1, <2>2 DEF StackOK
<1>13. LastBacktrackDeepest'
  BY <1>1 DEF LastBacktrackDeepest
<1>14. VisitedOK'
  <2>1. status' = "running"
    BY <1>1 DEF AtLeaf
  <2>2. visited' = {v \in Leaves' : Branches(node_list', Limit', curr_backtrack', v)}
    BY <1>1, <1>7, <1>8, <1>9
  <2>3. QED
    BY <1>10, <2>1, <2>2 DEF VisitedOK
<1>15. QED
  BY <1>10, <1>11, <1>12, <1>13, <1>14 DEF IInv

\* finish_execution at the end of the search keeps the invariant.
LEMMA LastExecutionIInv ==
    ASSUME IInv, LastExecution PROVE IInv'
<1>1. /\ TypeOK /\ StackOK /\ FileOK /\ LastBacktrackDeepest /\ VisitedOK
      /\ AtLeaf /\ visited' = visited \cup {path}
      /\ status' = IF last_backtrack = 0 THEN "exhausted" ELSE "cutoff"
      /\ execution_num' = execution_num + 1
      /\ UNCHANGED <<prog, node_list, last_backtrack, curr_backtrack, head,
                     execution_num_save, file, restarts, path, savedVisited>>
  BY DEF IInv, LastExecution
<1>2. TypeOK'
  BY <1>1 DEF TypeOK
<1>3. Limit' = Limit /\ Leaves' = Leaves
  BY <1>1 DEF Limit, Leaves
<1>4. StackOK'
  BY <1>1, <1>3 DEF StackOK, Recorded
<1>5. FileOK'
  BY <1>1, FileKept
<1>6. LastBacktrackDeepest'
  BY <1>1 DEF LastBacktrackDeepest
<1>7. ASSUME last_backtrack = 0 PROVE visited' = Leaves
  <2>1. path \in Leaves /\ curr_backtrack = 0 /\ Limit = Len(node_list)
    BY <1>1, AtLeafFacts DEF Limit
  <2>2. visited = {v \in Leaves : Branches(node_list, Len(node_list), 0, v)}
    BY <1>1, <2>1 DEF VisitedOK, AtLeaf
  <2>3. ASSUME NEW v \in Leaves
        PROVE  v = path \/ Branches(node_list, Len(node_list), 0, v)
    <3>1. 0 <= Len(v)
      <4>1. v \in Seq(Nat)
        BY <1>1, LeafFacts DEF TypeOK
      <4>2. QED
        BY <4>1
    <3>2. QED
      BY <1>1, <1>7, <3>1, LeafSplit
  <2>4. QED
    BY <1>1, <2>1, <2>2, <2>3
<1>8. VisitedOK'
  BY <1>1, <1>3, <1>7, SavedKept DEF VisitedOK
<1>9. QED
  BY <1>2, <1>4, <1>5, <1>6, <1>8 DEF IInv

\* Loading the file keeps the invariant.
LEMMA RestartIInv ==
    ASSUME IInv, Restart PROVE IInv'
<1>1. /\ TypeOK /\ FileOK /\ VisitedOK /\ file # NoFile
      /\ restarts' = restarts + 1 /\ node_list' = file.nodes
      /\ curr_backtrack' = LoadedBacktrack /\ last_backtrack' = 0 /\ head' = 0
      /\ execution_num' = file.exec_num /\ execution_num_save' \in SaveAt
      /\ status' = "running" /\ path' = <<>> /\ visited' = savedVisited
      /\ UNCHANGED <<prog, file, savedVisited>>
  BY DEF IInv, Restart
<1>2. /\ file.nodes \in Seq(Node) /\ file.curr_ind \in Nat /\ file.exec_num \in Nat
      /\ Len(file.nodes) \in Nat
  BY <1>1 DEF TypeOK
<1>3. /\ file.curr_ind < Len(file.nodes)
      /\ Recorded(file.nodes, file.curr_ind + 1)
      /\ HasMore(file.nodes[file.curr_ind + 1])
  BY <1>1 DEF FileOK
<1>4. curr_backtrack' = file.curr_ind + 1 /\ Limit' = file.curr_ind + 1
  BY <1>1, <1>2, <1>3 DEF LoadedBacktrack, Limit
<1>5. TypeOK'
  BY <1>1, <1>2, <1>4 DEF TypeOK
<1>6. StackOK'
  <2>1. <<>> = Prefix(file.nodes, 0)
    BY DEF Prefix
  <2>2. Recorded(node_list, Limit)'
    BY <1>1, <1>3, <1>4 DEF Recorded
  <2>3. QED
    BY <1>1, <1>2, <1>3, <1>4, <2>1, <2>2 DEF StackOK
<1>7. FileOK'
  BY <1>1, FileKept
<1>8. LastBacktrackDeepest'
  BY <1>1 DEF LastBacktrackDeepest
<1>9. VisitedOK'
  <2>1. Leaves' = Leaves
    BY <1>1 DEF Leaves
  <2>2. savedVisited = {v \in Leaves :
               Branches(file.nodes, file.curr_ind + 1, file.curr_ind + 1, v)}
    BY <1>1 DEF VisitedOK
  <2>3. visited' = {v \in Leaves' : Branches(node_list', Limit', curr_backtrack', v)}
    BY <1>1, <1>4, <2>1, <2>2
  <2>4. QED
    BY <1>1, <2>3, SavedKept DEF VisitedOK
<1>10. QED
  BY <1>5, <1>6, <1>7, <1>8, <1>9 DEF IInv

\* A stuttering step keeps the invariant.
LEMMA StutterIInv ==
    ASSUME IInv, UNCHANGED vars PROVE IInv'
<1>1. UNCHANGED <<prog, node_list, last_backtrack, curr_backtrack, head, execution_num,
                  execution_num_save, file, status, restarts, path, visited, savedVisited>>
  BY DEF vars
<1>2. Limit' = Limit /\ Leaves' = Leaves
  BY <1>1 DEF Limit, Leaves
<1>3. TypeOK' /\ LastBacktrackDeepest'
  BY <1>1 DEF IInv, TypeOK, LastBacktrackDeepest
<1>4. StackOK' /\ FileOK'
  BY <1>1, <1>2, FileKept DEF IInv, StackOK, Recorded
<1>5. VisitedOK'
  BY <1>1, <1>2 DEF IInv, VisitedOK
<1>6. QED
  BY <1>3, <1>4, <1>5 DEF IInv

\* Every step keeps the invariant.
LEMMA StepIInv ==
    ASSUME IInv, [Next]_vars PROVE IInv'
  BY CreateNodeIInv, ReplayIInv, BacktrackIInv, NextExecutionIInv, LastExecutionIInv,
     RestartIInv, StutterIInv DEF Next, Search

\* Every reachable state of the search satisfies the inductive invariant.
THEOREM Invariant == Spec => []IInv
<1>1. Init => IInv
  BY InitIInv
<1>2. IInv /\ [Next]_vars => IInv'
  BY StepIInv
<1>3. QED
  BY <1>1, <1>2, PTL DEF Spec

----------------------------------------------------------------------------
\* The theorems.

\* The stack, the file and the counters keep their types: in particular the
\* position read back from a file is a node of the stack or none.
THEOREM TypeCorrect == Spec => []TypeOK
<1>1. IInv => TypeOK
  BY DEF IInv
<1>2. QED
  BY <1>1, Invariant, PTL

\* explore_next always leaves last_backtrack at the deepest decision of this
\* execution that has a choice left.
THEOREM DeepestBacktrack == Spec => []LastBacktrackDeepest
<1>1. IInv => LastBacktrackDeepest
  BY DEF IInv
<1>2. QED
  BY <1>1, Invariant, PTL

\* The assert in explore_next never fails: a replayed decision has as many choices
\* as its node recorded, also after a reload.
THEOREM ReplayAgrees == Spec => []ReplayMatches
<1>1. ASSUME IInv, AtDecision, head < Len(node_list)
      PROVE  node_list[head + 1].size = prog[path]
  <2>1. Limit \in Nat /\ head \in Nat /\ head < Limit
    BY <1>1 DEF IInv, TypeOK, StackOK, Limit
  <2>2. Recorded(node_list, Limit) /\ path = Prefix(node_list, head)
    BY <1>1 DEF IInv, StackOK
  <2>3. QED
    BY <2>1, <2>2, RecordedAt
<1>2. IInv => ReplayMatches
  BY <1>1 DEF ReplayMatches
<1>3. QED
  BY <1>2, Invariant, PTL

\* No execution of any program is explored twice, across saves and reloads.
THEOREM LeafOnce == Spec => []NoLeafTwice
<1>1. ASSUME IInv, AtLeaf PROVE path \notin visited
  <2>1. /\ TypeOK /\ StackOK /\ VisitedOK
        /\ node_list \in Seq(Node)
    BY <1>1 DEF IInv, TypeOK
  <2>2. /\ curr_backtrack = 0 /\ head = Len(node_list) /\ Limit = Len(node_list)
        /\ Len(node_list) \in Nat
    BY <1>1, <2>1, AtLeafFacts DEF Limit
  <2>3. visited = {v \in Leaves : Branches(node_list, Len(node_list), 0, v)}
    BY <1>1, <2>1, <2>2 DEF VisitedOK, AtLeaf
  <2>4. \A j \in 1 .. Len(node_list) : path[j] = node_list[j].idx /\ node_list[j].idx \in Nat
    BY <2>1, <2>2, PrefixFacts DEF StackOK
  <2>5. ~Branches(node_list, Len(node_list), 0, path)
    BY <2>2, <2>4 DEF Branches
  <2>6. QED
    BY <2>3, <2>5
<1>2. IInv => NoLeafTwice
  BY <1>1 DEF NoLeafTwice
<1>3. QED
  BY <1>2, Invariant, PTL

\* When the search ends without another execution to try, every execution of the
\* program has been explored: for every decision tree, every way of saving and
\* reloading, and every MAX_EXECUTION.
THEOREM ExploresAll == Spec => []SearchComplete
<1>1. IInv => SearchComplete
  BY DEF IInv, VisitedOK, SearchComplete
<1>2. QED
  BY <1>1, Invariant, PTL
============================================================================
