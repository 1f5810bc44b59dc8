----------------------------- MODULE HashTable ------------------------------
(***************************************************************************)
(* HashTable and HashSet of include/hash_table.h, the maps the model keeps *)
(* in shared memory: an array of chains that is doubled, and its nodes     *)
(* relinked, by every operation that may insert.  A chain is the sequence  *)
(* of its nodes.                                                           *)
(***************************************************************************)
EXTENDS Integers, Sequences, SequencesExt

CONSTANTS
    Keys, Vals,
    HashOf,         \* HashOf[k]: the template parameter _hash
    InitBuckets     \* the constructor's initial_buckets

ASSUME HashAssumption ==
    /\ HashOf \in [Keys -> Nat]
    /\ InitBuckets \in Nat \ {0}

VARIABLES
    h,      \* the table: chains, _size and threshold
    hStale, \* keys of the nodes to which an iterator may point whose _prev
            \* has been unlinked from the chain
    hMap,   \* history: the map the calls so far describe
    hGhost  \* history: the key erased through such an iterator

hashVars == <<h, hStale, hMap, hGhost>>

DefaultVal == 0    \* _Val()

Node(k, v) == [first |-> k, second |-> v]

Buckets(t) == Len(t.table)

(* (size_t)(buckets * 0.75)                                                *)
Threshold(buckets) == (buckets * 3) \div 4

(* table[0] is the sequence's first element.                               *)
Index(t, k) == (HashOf[k] % Buckets(t)) + 1

Empty(buckets) ==
    [table |-> [b \in 1 .. buckets |-> <<>>], size |-> 0, threshold |-> Threshold(buckets)]

HashInit == h = Empty(InitBuckets) /\ hStale = {} /\ hMap = <<>> /\ hGhost = {}

(* The nodes in the order of begin(), ++, ..., end(): chain after chain,   *)
(* empty chains skipped.                                                   *)
Iterate(t) == FlattenSeq(t.table)

(* Twice the buckets; every node is moved to the front of its new chain.   *)
Rehash(t) ==
    LET new == Empty(2 * Buckets(t))
        Move(tab, node) == [tab EXCEPT ![Index(new, node.first)] = <<node>> \o @]
    IN  [new EXCEPT !.table = FoldLeft(Move, new.table, Iterate(t)), !.size = t.size]

Resize(t) == IF t.size < t.threshold THEN t ELSE Rehash(t)

(* The position of k in its chain, 0 if it is not there.                   *)
Find(t, k) == SelectInSeq(t.table[Index(t, k)], LAMBDA node : node.first = k)

(* A new node goes to the end of its chain.                                *)
Append_At(t, b, node) ==
    [t EXCEPT !.table[b] = Append(@, node), !.size = @ + 1]

Emplace_MutantIndexFirst(t, k, v) ==
    IF Find(t, k) # 0 THEN Resize(t) ELSE Append_At(Resize(t), Index(t, k), Node(k, v))

Emplace(t, k, v) ==
    LET r == Resize(t)
    IN  IF Find(r, k) # 0 THEN r ELSE Append_At(r, Index(r, k), Node(k, v))

(* operator[] followed by the caller's assignment through the reference.   *)
Assign(t, k, v) ==
    LET r == Emplace(t, k, DefaultVal)
    IN  [r EXCEPT !.table[Index(r, k)][Find(r, k)].second = v]

(* erase of an iterator whose _prev is the node before k's, or NULL for    *)
(* the first (find, begin and ++ give these): the node is unlinked (and    *)
(* never freed).                                                           *)
Erase(t, k) ==
    [t EXCEPT !.table[Index(t, k)] = RemoveAt(@, Find(t, k)), !.size = @ - 1]

(* What erase returns is ++pos: the next node of the chain, with the       *)
(* unlinked node as _prev.  (The first node of a later chain has no _prev.)*)
Follower(t, k) ==
    { t.table[Index(t, k)][p].first :
        p \in {q \in DOMAIN t.table[Index(t, k)] : q = Find(t, k) + 1} }

(* erase of such an iterator links the unlinked node past k's node, which  *)
(* stays in its chain.                                                     *)
EraseStale(t) == [t EXCEPT !.size = @ - 1]

Clear(t) == [t EXCEPT !.table = Empty(Buckets(t)).table, !.size = 0]

(* The copy constructor and operator=: as many buckets and the same        *)
(* threshold, then one operator[] for each node.                           *)
CopyOf(t) ==
    FoldLeft(LAMBDA c, node : Assign(c, node.first, node.second), Clear(t), Iterate(t))

-----------------------------------------------------------------------------
Bind(k, v) == [x \in DOMAIN hMap \cup {k} |-> IF x = k THEN v ELSE hMap[x]]

Unbind(k) == [x \in DOMAIN hMap \ {k} |-> hMap[x]]

(* A doubling frees the array that iterators walk: none outlives it.       *)
KeepIterators == hStale' = IF h.size < h.threshold THEN hStale ELSE {}

HashAssign ==
    \E k \in Keys, v \in Vals :
        h' = Assign(h, k, v) /\ hMap' = Bind(k, v) /\ KeepIterators /\ UNCHANGED hGhost

(* try_emplace(key, val) and HashSet::insert are emplace.                  *)
HashEmplace ==
    \E k \in Keys, v \in Vals :
        /\ h' = Emplace(h, k, v)
        /\ hMap' = IF k \in DOMAIN hMap THEN hMap ELSE Bind(k, v)
        /\ KeepIterators /\ UNCHANGED hGhost

HashTryEmplace ==
    \E k \in Keys :
        /\ h' = Emplace(h, k, DefaultVal)
        /\ hMap' = IF k \in DOMAIN hMap THEN hMap ELSE Bind(k, DefaultVal)
        /\ KeepIterators /\ UNCHANGED hGhost

(* at resizes as well; without the key it aborts.                          *)
HashAt ==
    \E k \in Keys :
        /\ Find(Resize(h), k) # 0 /\ h' = Resize(h)
        /\ KeepIterators /\ UNCHANGED <<hMap, hGhost>>

HashErase ==
    \E k \in Keys :
        /\ Find(h, k) # 0
        /\ h' = Erase(h, k)
        /\ hStale' = (hStale \ {k}) \cup Follower(h, k)
        /\ hMap' = Unbind(k)
        /\ UNCHANGED hGhost

HashEraseStale ==
    \E k \in Keys :
        /\ k \in hStale /\ Find(h, k) # 0
        /\ h' = EraseStale(h)
        /\ hMap' = Unbind(k)
        /\ hGhost' = {k} /\ UNCHANGED hStale

(* clear(); operator= of a table to itself is this too, since it clears    *)
(* before it copies.                                                       *)
HashClear == h' = Clear(h) /\ hStale' = {} /\ hMap' = <<>> /\ UNCHANGED hGhost

HashCopy == h' = CopyOf(h) /\ hStale' = {} /\ UNCHANGED <<hMap, hGhost>>

(* A table with an erased node in a chain is followed no further.          *)
HashNext ==
    /\ hGhost = {}
    /\ \/ HashAssign \/ HashEmplace    \/ HashTryEmplace \/ HashAt
       \/ HashErase  \/ HashEraseStale \/ HashClear      \/ HashCopy

HashSpec == HashInit /\ [][HashNext]_hashVars

-----------------------------------------------------------------------------
(* However calls and doublings follow each other, the table is the map     *)
(* they describe: find finds the keys of the map and no others, iteration  *)
(* meets each key exactly once with its last value, size() counts them.    *)
(* The one exception is erase through an iterator whose _prev was erased,  *)
(* such as the one erase itself returned: that key is still found, still   *)
(* met by iteration, and no longer counted.                                *)
HashIsMap ==
    LET nodes == Iterate(h)
    IN  /\ \A k \in Keys : (Find(h, k) # 0) <=> (k \in DOMAIN hMap \cup hGhost)
        /\ h.size = Len(nodes) - (IF hGhost = {} THEN 0 ELSE 1)
        /\ \A a, b \in DOMAIN nodes : nodes[a].first = nodes[b].first => a = b
        /\ { nodes[a] : a \in {b \in DOMAIN nodes : nodes[b].first \notin hGhost} }
             = { Node(k, hMap[k]) : k \in DOMAIN hMap }
=============================================================================
