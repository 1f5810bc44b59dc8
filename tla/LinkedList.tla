----------------------------- MODULE LinkedList -----------------------------
(***************************************************************************)
(* List of include/list.h, the doubly linked list the model keeps in       *)
(* shared memory (the stores of a word, the threads that wait).            *)
(***************************************************************************)
EXTENDS Integers, Sequences, FiniteSets, SequencesExt

CONSTANTS
    Nodes,      \* bound: the nodes that can be allocated
    Items,
    NULL

(* No node is the null pointer, and neither is what a node holds.          *)
ASSUME ListAssumption ==
    /\ IsFiniteSet(Nodes) /\ NULL \notin Nodes
    /\ NULL \notin [prev: Nodes \cup {NULL}, next: Nodes \cup {NULL}, val: Items]

VARIABLES
    l,      \* head, tail, _size
    ln,     \* ln[n]: prev, next and val of a node, or NULL if n is free
    lSeq    \* history: the sequence the calls so far describe

listVars == <<l, ln, lSeq>>

ListInit ==
    /\ l = [head |-> NULL, tail |-> NULL, size |-> 0]
    /\ ln = [n \in Nodes |-> NULL]
    /\ lSeq = <<>>

(* One list operation works on the header and the nodes together.          *)
list == [hd |-> l, node |-> ln]

Become(s) == l' = s.hd /\ ln' = s.node

Free(s) == { n \in Nodes : s.node[n] = NULL }

New(s, n, prev, next, v) ==
    [s EXCEPT !.node[n] = [prev |-> prev, next |-> next, val |-> v], !.hd.size = @ + 1]

SetHead(s, n) == [s EXCEPT !.hd.head = n]
SetTail(s, n) == [s EXCEPT !.hd.tail = n]
SetPrev(s, n, p) == [s EXCEPT !.node[n].prev = p]
SetNext(s, n, p) == [s EXCEPT !.node[n].next = p]

Delete(s, n) == [s EXCEPT !.node[n] = NULL, !.hd.size = @ - 1]

PushFront(s, n, v) ==
    LET t == New(s, n, NULL, s.hd.head, v)
    IN  SetHead(IF s.hd.head = NULL THEN SetTail(t, n) ELSE SetPrev(t, s.hd.head, n), n)

PushBack(s, n, v) ==
    LET t == New(s, n, s.hd.tail, NULL, v)
    IN  SetTail(IF s.hd.tail = NULL THEN SetHead(t, n) ELSE SetNext(t, s.hd.tail, n), n)

(* add_front and add_back do the same and return the node.                 *)
AddFront(s, n, v) == PushFront(s, n, v)
AddBack(s, n, v)  == PushBack(s, n, v)

PopFront(s) ==
    LET next == s.node[s.hd.head].next
        t    == SetHead(s, next)
    IN  Delete(IF next = NULL THEN SetTail(t, NULL) ELSE SetPrev(t, next, NULL), s.hd.head)

PopBack(s) ==
    LET prev == s.node[s.hd.tail].prev
        t    == SetTail(s, prev)
    IN  Delete(IF prev = NULL THEN SetHead(t, NULL) ELSE SetNext(t, prev, NULL), s.hd.tail)

InsertAfter_MutantNoTail(s, at, n, v) ==
    LET next == s.node[at].next
        t    == SetNext(New(s, n, at, next, v), at, n)
    IN  IF next = NULL THEN t ELSE SetPrev(t, next, n)

InsertAfter(s, at, n, v) ==
    LET next == s.node[at].next
        t    == SetNext(New(s, n, at, next, v), at, n)
    IN  IF next = NULL THEN SetTail(t, n) ELSE SetPrev(t, next, n)

InsertBefore(s, at, n, v) ==
    LET prev == s.node[at].prev
        t    == SetPrev(New(s, n, prev, at, v), at, n)
    IN  IF prev = NULL THEN SetHead(t, n) ELSE SetNext(t, prev, n)

EraseNode(s, n) ==
    LET prev == s.node[n].prev
        next == s.node[n].next
        t    == IF s.hd.head = n THEN SetHead(s, next) ELSE SetNext(s, prev, next)
        u    == IF s.hd.tail = n THEN SetTail(t, prev) ELSE SetPrev(t, next, prev)
    IN  Delete(u, n)

(* The nodes from n on, along the pointers of follow; a walk that does    *)
(* not end within all the nodes is cut off.                                *)
Walk(n, follow) ==
    LET w[k \in Nat] ==
          IF k = 0 THEN <<>>
          ELSE LET x == IF w[k - 1] = <<>> THEN n ELSE follow[Last(w[k - 1])]
               IN  IF x = NULL THEN w[k - 1] ELSE Append(w[k - 1], x)
    IN  w[Cardinality(Nodes) + 1]

Forward(s)  == Walk(s.hd.head, [n \in Nodes \ Free(s) |-> s.node[n].next])
Backward(s) == Walk(s.hd.tail, [n \in Nodes \ Free(s) |-> s.node[n].prev])

(* clear deletes along next from the head.                                 *)
ClearList(s) ==
    LET reached == Range(Forward(s))
    IN  [hd   |-> [head |-> NULL, tail |-> NULL, size |-> 0],
         node |-> [n \in Nodes |-> IF n \in reached THEN NULL ELSE s.node[n]]]

(* operator= and the copy constructor push the items of the other list.    *)
CopyItems(s, items) ==
    FoldLeft(LAMBDA t, v : PushBack(t, CHOOSE n \in Free(t) : TRUE, v), ClearList(s), items)

-----------------------------------------------------------------------------
At(n) == SelectInSeq(Forward(list), LAMBDA x : x = n)

ListPushFront ==
    \E n \in Free(list), v \in Items :
        (Become(PushFront(list, n, v)) \/ Become(AddFront(list, n, v))) /\ lSeq' = <<v>> \o lSeq

ListPushBack ==
    \E n \in Free(list), v \in Items :
        (Become(PushBack(list, n, v)) \/ Become(AddBack(list, n, v))) /\ lSeq' = Append(lSeq, v)

ListPopFront == l.head # NULL /\ Become(PopFront(list)) /\ lSeq' = Tail(lSeq)

ListPopBack == l.tail # NULL /\ Become(PopBack(list)) /\ lSeq' = Front(lSeq)

ListInsertAfter ==
    \E at \in Nodes \ Free(list), n \in Free(list), v \in Items :
        /\ Become(InsertAfter(list, at, n, v))
        /\ lSeq' = InsertAt(lSeq, At(at) + 1, v)

ListInsertBefore ==
    \E at \in Nodes \ Free(list), n \in Free(list), v \in Items :
        /\ Become(InsertBefore(list, at, n, v))
        /\ lSeq' = InsertAt(lSeq, At(at), v)

ListErase ==
    \E n \in Nodes \ Free(list) :
        Become(EraseNode(list, n)) /\ lSeq' = RemoveAt(lSeq, At(n))

ListClear == Become(ClearList(list)) /\ lSeq' = <<>>

ListCopy ==
    \E items \in SeqOf(Items, Cardinality(Nodes)) : Become(CopyItems(list, items)) /\ lSeq' = items

ListNext ==
    \/ ListPushFront   \/ ListPushBack \/ ListPopFront \/ ListPopBack
    \/ ListInsertAfter \/ ListInsertBefore \/ ListErase    \/ ListClear
    \/ ListCopy

ListSpec == ListInit /\ [][ListNext]_listVars

-----------------------------------------------------------------------------
(* After any sequence of calls the pointers are the sequence the calls     *)
(* describe, read along next from head and along prev from tail, size()    *)
(* is its length, and exactly its nodes are allocated.                     *)
ListIsSequence ==
    LET fwd == Forward(list)
    IN  /\ [k \in DOMAIN fwd |-> ln[fwd[k]].val] = lSeq
        /\ Backward(list) = Reverse(fwd)
        /\ l.size = Len(lSeq)
        /\ Range(fwd) = Nodes \ Free(list)
=============================================================================
