-------------------------- MODULE ContainerProofs ---------------------------
(***************************************************************************)
(* The containers hold what a map or a sequence would, for every set of    *)
(* keys and items, every hash function and every size.                     *)
(***************************************************************************)
EXTENDS HashTable, LinkedList, Vector, LeastNatural, FiniteSetTheorems, SequenceTheorems, TLAPS

-----------------------------------------------------------------------------
\* Folds.

\* The fold of the community modules goes down from the greatest element of a set.
FoldDown(n, base, F, g) ==
    g = [s \in SUBSET (1 .. n) |->
           IF s = {} THEN base ELSE F[Max(s)][g[s \ {Max(s)}]]]

\* The greatest element of a nonempty set of numbers up to n.
LEMMA MaxUpTo ==
    ASSUME NEW n \in Nat, NEW s \in SUBSET (1 .. n), s # {}
    PROVE  Max(s) \in s /\ \A y \in s : y <= Max(s)
<1>1. s \subseteq Nat /\ \A x \in s : x <= n
  OBVIOUS
<1>2. \E x \in s : \A y \in s : y <= x
  BY <1>1, NatMax
<1>3. \E x \in s : \A y \in s : x >= y
  BY <1>1, <1>2
<1>4. QED
  BY <1>1, <1>3 DEF Max

\* There is such a fold.
LEMMA FoldExists ==
    ASSUME NEW S, NEW base \in S, NEW n \in Nat, NEW F \in [1 .. n -> [S -> S]]
    PROVE  \E g \in [SUBSET (1 .. n) -> S] : FoldDown(n, base, F, g)
<1> DEFINE Has(m) == \E g \in [SUBSET (1 .. m) -> S] : FoldDown(m, base, F, g)
           T == {m \in 0 .. n : ~Has(m)}
<1> SUFFICES ASSUME ~Has(n) PROVE FALSE
  OBVIOUS
<1>1. PICK m \in T : \A k \in T : m <= k
  <2> HIDE DEF Has
  <2>1. T \subseteq Nat /\ n \in T
    OBVIOUS
  <2>2. QED
    BY <2>1, NatMin
<1>2. m \in 0 .. n /\ ~Has(m) /\ (m # 0 => Has(m - 1))
  <2> HIDE DEF Has
  <2>1. m \in 0 .. n /\ ~Has(m)
    OBVIOUS
  <2>2. m # 0 => m - 1 \in 0 .. n /\ ~(m <= m - 1)
    BY <2>1
  <2>3. QED
    BY <1>1, <2>1, <2>2
<1>3. CASE m = 0
  <2> DEFINE g == [s \in SUBSET (1 .. 0) |-> base]
  <2>1. SUBSET (1 .. 0) = {{}}
    OBVIOUS
  <2>2. g \in [SUBSET (1 .. 0) -> S]
    OBVIOUS
  <2>3. FoldDown(0, base, F, g)
    BY <2>1 DEF FoldDown
  <2>4. QED
    BY <1>2, <1>3, <2>2, <2>3
<1>4. CASE m # 0
  <2>1. m \in Nat /\ m <= n /\ m > 0
    BY <1>2, <1>4
  <2>2. PICK p \in [SUBSET (1 .. m - 1) -> S] : FoldDown(m - 1, base, F, p)
    BY <1>2, <1>4
  <2> DEFINE g == [s \in SUBSET (1 .. m) |-> IF m \in s THEN F[m][p[s \ {m}]] ELSE p[s]]
  <2>3. ASSUME NEW s \in SUBSET (1 .. m)
        PROVE  /\ m \in s => Max(s) = m /\ s \ {m} \in SUBSET (1 .. m - 1)
               /\ m \notin s => s \in SUBSET (1 .. m - 1)
               /\ s # {} => Max(s) \in s /\ s \ {Max(s)} \in SUBSET (1 .. m)
    <3>1. s # {} => Max(s) \in s /\ \A y \in s : y <= Max(s)
      BY <2>1, MaxUpTo
    <3>2. m \in s => Max(s) = m /\ s \ {m} \in SUBSET (1 .. m - 1)
      <4> SUFFICES ASSUME m \in s PROVE Max(s) = m /\ s \ {m} \in SUBSET (1 .. m - 1)
        OBVIOUS
      <4>1. Max(s) \in 1 .. m /\ m <= Max(s)
        BY <3>1
      <4>2. QED
        BY <2>1, <4>1
    <3>3. m \notin s => s \in SUBSET (1 .. m - 1)
      BY <2>1
    <3>4. QED
      BY <3>1, <3>2, <3>3
  <2>4. g \in [SUBSET (1 .. m) -> S]
    <3>1. m \in 1 .. n
      BY <1>4, <2>1
    <3>2. F[m] \in [S -> S]
      BY <3>1
    <3>3. QED
      BY <2>3, <3>2
  <2>5. ASSUME NEW s \in SUBSET (1 .. m)
        PROVE  g[s] = IF s = {} THEN base ELSE F[Max(s)][g[s \ {Max(s)}]]
    <3>1. CASE m \in s
      <4>1. g[s] = F[m][p[s \ {m}]] /\ Max(s) = m
        BY <2>3, <3>1
      <4>2. g[s \ {m}] = p[s \ {m}]
        BY <2>3, <3>1
      <4>3. QED
        BY <3>1, <4>1, <4>2
    <3>2. CASE m \notin s
      <4>1. s \in SUBSET (1 .. m - 1) /\ g[s] = p[s]
        BY <2>3, <3>2
      <4>2. p[s] = IF s = {} THEN base ELSE F[Max(s)][p[s \ {Max(s)}]]
        BY <2>2, <4>1 DEF FoldDown
      <4>3. s # {} => g[s \ {Max(s)}] = p[s \ {Max(s)}]
        BY <2>3, <3>2
      <4>4. QED
        BY <4>1, <4>2, <4>3
    <3>3. QED
      BY <3>1, <3>2
  <2>6. FoldDown(m, base, F, g)
    <3>1. g = [s \in SUBSET (1 .. m) |-> g[s]]
      OBVIOUS
    <3> HIDE DEF g
    <3>2. QED
      BY <2>5, <3>1 DEF FoldDown
  <2>7. QED
    BY <1>2, <2>4, <2>6
<1>5. QED
  BY <1>3, <1>4

\* A fold over a sequence goes through the sets of its first elements.
LEMMA FirstElements ==
    ASSUME NEW k \in Nat \ {0}
    PROVE  1 .. k # {} /\ Max(1 .. k) = k /\ (1 .. k) \ {k} = 1 .. (k - 1)
<1>1. k \in 1 .. k /\ (1 .. k) \ {k} = 1 .. (k - 1) /\ (1 .. k) # {} /\ k \in Nat
  OBVIOUS
<1>2. Max(1 .. k) \in 1 .. k /\ \A y \in 1 .. k : y <= Max(1 .. k)
  BY <1>1, MaxUpTo
<1>3. Max(1 .. k) \in 1 .. k /\ k <= Max(1 .. k)
  BY <1>1, <1>2
<1>4. Max(1 .. k) = k
  BY <1>3
<1>5. QED
  BY <1>1, <1>4

-----------------------------------------------------------------------------
\* The hash table.

HNode == [first: Keys, second: Vals \cup {DefaultVal}]

Elems(s) == {s[a] : a \in 1 .. Len(s)}

DistinctKeys(s) == \A a, b \in 1 .. Len(s) : s[a].first = s[b].first => a = b

\* Every node is in the chain its key hashes to, and no key is there twice.
ChainsOf(tab, t) ==
    /\ tab \in Seq(Seq(HNode)) /\ Len(tab) = Buckets(t) /\ Buckets(t) > 0
    /\ \A b \in 1 .. Len(tab) :
         /\ DistinctKeys(tab[b])
         /\ \A x \in Elems(tab[b]) : Index(t, x.first) = b

InChains(tab) == UNION {Elems(tab[b]) : b \in 1 .. Len(tab)}

Content(t) == InChains(t.table)

\* The table is in order: the chains are, and size counts the nodes.
Ordered(t) ==
    /\ t \in [table: Seq(Seq(HNode)), size: Nat, threshold: Nat]
    /\ ChainsOf(t.table, t)
    /\ IsFiniteSet(Content(t)) /\ t.size = Cardinality(Content(t))

\* Moving the nodes into a new table.
MoveTo(tab, buckets, node) ==
    [tab EXCEPT ![Index(Empty(buckets), node.first)] = <<node>> \o @]

LEMMA RehashFold ==
    ASSUME NEW t, Buckets(t) \in Nat \ {0}, Iterate(t) \in Seq(HNode)
    PROVE  LET buckets == 2 * Buckets(t)
               nodes == Iterate(t)
           IN  \E f :
                  /\ f[0] = Empty(buckets).table
                  /\ \A k \in 1 .. Len(nodes) : f[k] = MoveTo(f[k - 1], buckets, nodes[k])
                  /\ Rehash(t) = [Empty(buckets) EXCEPT !.table = f[Len(nodes)], !.size = t.size]
<1> DEFINE buckets == 2 * Buckets(t)
           nodes == Iterate(t)
           S == [1 .. buckets -> Seq(HNode)]
           n == Len(nodes)
           base == Empty(buckets).table
           F == [k \in 1 .. n |-> [tab \in S |-> MoveTo(tab, buckets, nodes[k])]]
<1>1. /\ n \in Nat /\ DOMAIN nodes = 1 .. n /\ \A k \in 1 .. n : nodes[k] \in HNode
      /\ buckets \in Nat \ {0}
  OBVIOUS
<1>2. base \in S
  BY DEF Empty
<1>3. ASSUME NEW tab \in S, NEW node \in HNode PROVE MoveTo(tab, buckets, node) \in S
  <2>1. Index(Empty(buckets), node.first) \in 1 .. buckets
    BY HashAssumption DEF Index, Empty, Buckets, HNode
  <2>2. QED
    BY <2>1 DEF MoveTo
<1>4. F \in [1 .. n -> [S -> S]]
  BY <1>1, <1>3
<1>5. PICK g \in [SUBSET (1 .. n) -> S] : FoldDown(n, base, F, g)
  <2> HIDE DEF S, n, base, F
  <2>1. QED
    BY <1>1, <1>2, <1>4, FoldExists
<1> DEFINE it == CHOOSE it :
                   it = [s \in SUBSET DOMAIN nodes |->
                           IF s = {} THEN base
                           ELSE MoveTo(it[s \ {Max(s)}], buckets, nodes[Max(s)])]
<1>6. it = [s \in SUBSET DOMAIN nodes |->
              IF s = {} THEN base ELSE MoveTo(it[s \ {Max(s)}], buckets, nodes[Max(s)])]
  <2>1. ASSUME NEW s \in SUBSET (1 .. n), s # {}
        PROVE  F[Max(s)][g[s \ {Max(s)}]] = MoveTo(g[s \ {Max(s)}], buckets, nodes[Max(s)])
    BY <1>1, <2>1, MaxUpTo
  <2>2. g = [s \in SUBSET DOMAIN nodes |->
              IF s = {} THEN base ELSE MoveTo(g[s \ {Max(s)}], buckets, nodes[Max(s)])]
    BY <1>1, <1>5, <2>1 DEF FoldDown
  <2> HIDE DEF base
  <2>3. QED
    BY <2>2
<1>7. Rehash(t) = [Empty(buckets) EXCEPT !.table = it[DOMAIN nodes], !.size = t.size]
  BY Zenon DEF Rehash, MoveTo, FoldLeft, MapThenFoldSet
<1> HIDE DEF it, base, buckets, nodes
<1> DEFINE f == [k \in 0 .. n |-> it[1 .. k]]
<1>8. f[0] = base /\ f[n] = it[DOMAIN nodes]
  <2>1. {} = 1 .. 0
    OBVIOUS
  <2>2. QED
    BY <1>1, <1>6, <2>1
<1>9. ASSUME NEW k \in 1 .. n PROVE f[k] = MoveTo(f[k - 1], buckets, nodes[k])
  <2>1. (1 .. k) \in SUBSET DOMAIN nodes /\ k \in Nat \ {0} /\ k - 1 \in 0 .. n /\ k \in 0 .. n
    BY <1>1
  <2>2. (1 .. k) # {} /\ Max(1 .. k) = k /\ (1 .. k) \ {k} = 1 .. (k - 1)
    BY <2>1, FirstElements
  <2> DEFINE s == 1 .. k
  <2>3. it[s] = IF s = {} THEN base ELSE MoveTo(it[s \ {Max(s)}], buckets, nodes[Max(s)])
    <3> HIDE DEF s
    <3>1. QED
      BY <1>6, <2>1 DEF s
  <2>4. it[1 .. k] = MoveTo(it[1 .. (k - 1)], buckets, nodes[k])
    BY <2>2, <2>3
  <2>5. QED
    BY <2>1, <2>4
<1> HIDE DEF f
<1>10. QED
  BY <1>7, <1>8, <1>9, Zenon DEF buckets, nodes, base, n

\* Iteration goes through the chains one after the other.
LEMMA IterateFold ==
    ASSUME NEW tab \in Seq(Seq(HNode)), Len(tab) > 0
    PROVE  \E f : /\ f[1] = tab[1]
                  /\ \A i \in 2 .. Len(tab) : f[i] = f[i - 1] \o tab[i]
                  /\ FlattenSeq(tab) = f[Len(tab)]
<1> DEFINE n == Len(tab)
           S == Seq(HNode)
           F == [i \in 1 .. n |-> [x \in S |-> x \o tab[i]]]
<1>1. n \in Nat /\ n > 0 /\ \A i \in 1 .. n : tab[i] \in S
  OBVIOUS
<1>2. <<>> \in S /\ F \in [1 .. n -> [S -> S]]
  BY <1>1
<1>3. PICK g \in [SUBSET (1 .. n) -> S] : FoldDown(n, <<>>, F, g)
  <2> HIDE DEF S, n, F
  <2>1. QED
    BY <1>1, <1>2, FoldExists
<1>4. ASSUME NEW i \in 1 .. n PROVE g[1 .. i] = g[1 .. (i - 1)] \o tab[i]
  <2>1. (1 .. i) \in SUBSET (1 .. n) /\ (1 .. (i - 1)) \in SUBSET (1 .. n) /\ i \in Nat \ {0}
    BY <1>1
  <2>2. (1 .. i) # {} /\ Max(1 .. i) = i /\ (1 .. i) \ {i} = 1 .. (i - 1)
    BY <2>1, FirstElements
  <2> DEFINE s == 1 .. i
  <2>3. g[s] = IF s = {} THEN <<>> ELSE F[Max(s)][g[s \ {Max(s)}]]
    <3> HIDE DEF s, F
    <3>1. QED
      BY <1>3, <2>1 DEF s, FoldDown
  <2>4. g[1 .. i] = F[i][g[1 .. (i - 1)]]
    <3> HIDE DEF F
    <3>1. QED
      BY <2>2, <2>3
  <2>5. QED
    BY <2>1, <2>4
<1>5. g[1 .. 0] = <<>>
  <2>1. {} = 1 .. 0
    OBVIOUS
  <2>2. QED
    BY <1>3, <2>1 DEF FoldDown
<1> DEFINE e == [i \in 1 .. Len(tab) |-> g[1 .. i]]
           fl == CHOOSE fl : fl = [i \in 1 .. Len(tab) |->
                                     IF i = 1 THEN tab[i] ELSE fl[i - 1] \o tab[i]]
<1>6. e = [i \in 1 .. Len(tab) |-> IF i = 1 THEN tab[i] ELSE e[i - 1] \o tab[i]]
  <2>1. ASSUME NEW i \in 1 .. n PROVE e[i] = IF i = 1 THEN tab[i] ELSE e[i - 1] \o tab[i]
    <3>1. CASE i = 1
      <4>1. e[i] = g[1 .. i] /\ i - 1 = 0 /\ tab[i] \in Seq(HNode)
        BY <1>1, <3>1
      <4>2. e[i] = <<>> \o tab[i]
        <5> HIDE DEF e
        <5>1. QED
          BY <1>4, <1>5, <4>1
      <4>3. <<>> \o tab[i] = tab[i]
        BY <4>1, ConcatEmptySeq
      <4>4. QED
        BY <3>1, <4>2, <4>3
    <3>2. CASE i # 1
      <4>1. i - 1 \in 1 .. n
        BY <1>1, <3>2
      <4>2. QED
        BY <1>4, <3>2, <4>1
    <3>3. QED
      BY <3>1, <3>2
  <2>2. e = [i \in 1 .. n |-> e[i]]
    OBVIOUS
  <2> HIDE DEF e
  <2>3. QED
    BY <2>1, <2>2
<1>7. fl = [i \in 1 .. Len(tab) |-> IF i = 1 THEN tab[i] ELSE fl[i - 1] \o tab[i]]
  <2> HIDE DEF e
  <2>1. QED
    BY <1>6
<1>8. FlattenSeq(tab) = fl[Len(tab)]
  <2>1. Len(tab) # 0
    BY <1>1
  <2>2. QED
    BY <2>1, Zenon DEF FlattenSeq
<1> HIDE DEF fl
<1>9. fl[1] = tab[1] /\ \A i \in 2 .. Len(tab) : fl[i] = fl[i - 1] \o tab[i]
  <2>1. fl[1] = tab[1]
    BY <1>1, <1>7
  <2>2. ASSUME NEW i \in 2 .. Len(tab) PROVE fl[i] = fl[i - 1] \o tab[i]
    <3>1. i \in 1 .. Len(tab) /\ i # 1
      BY <1>1
    <3> DEFINE x == fl[i - 1]
    <3>2. fl[i] = x \o tab[i]
      <4> HIDE DEF n, S
      <4>1. QED
        BY <1>7, <3>1
    <3>3. QED
      BY <3>2
  <2>3. QED
    BY <2>1, <2>2
<1>10. QED
  BY <1>8, <1>9, Zenon

\* What a concatenation of chains holds.
LEMMA ConcatNodes ==
    ASSUME NEW s \in Seq(HNode), NEW u \in Seq(HNode)
    PROVE  /\ s \o u \in Seq(HNode)
           /\ Elems(s \o u) = Elems(s) \cup Elems(u)
           /\ (/\ DistinctKeys(s) /\ DistinctKeys(u)
               /\ \A x \in Elems(s), y \in Elems(u) : x.first # y.first) => DistinctKeys(s \o u)
<1> DEFINE c == s \o u
           m == Len(s)
           n == Len(u)
<1>1. /\ c \in Seq(HNode) /\ Len(c) = m + n /\ m \in Nat /\ n \in Nat
      /\ \A a \in 1 .. m : c[a] = s[a]
      /\ \A a \in (m + 1) .. (m + n) : c[a] = u[a - m]
  BY ConcatProperties
<1> HIDE DEF c
<1>2. Elems(c) \subseteq Elems(s) \cup Elems(u)
  <2> SUFFICES ASSUME NEW a \in 1 .. (m + n) PROVE c[a] \in Elems(s) \cup Elems(u)
    BY <1>1 DEF Elems
  <2>1. CASE a <= m
    BY <1>1, <2>1 DEF Elems
  <2>2. CASE a > m
    <3>1. a \in (m + 1) .. (m + n) /\ a - m \in 1 .. n
      BY <1>1, <2>2
    <3>2. QED
      BY <1>1, <3>1 DEF Elems
  <2>3. QED
    BY <1>1, <2>1, <2>2
<1>3. Elems(s) \subseteq Elems(c)
  <2> SUFFICES ASSUME NEW a \in 1 .. m PROVE s[a] \in Elems(c)
    BY DEF Elems
  <2>1. a \in 1 .. Len(c) /\ c[a] = s[a]
    BY <1>1
  <2>2. QED
    BY <2>1 DEF Elems
<1>4. Elems(u) \subseteq Elems(c)
  <2> SUFFICES ASSUME NEW a \in 1 .. n PROVE u[a] \in Elems(c)
    BY DEF Elems
  <2>1. a + m \in 1 .. Len(c) /\ a + m \in (m + 1) .. (m + n) /\ (a + m) - m = a
    BY <1>1
  <2>2. c[a + m] = u[a]
    BY <1>1, <2>1
  <2>3. QED
    BY <2>1, <2>2 DEF Elems
<1>5. ASSUME DistinctKeys(s), DistinctKeys(u),
             \A x \in Elems(s), y \in Elems(u) : x.first # y.first
      PROVE  DistinctKeys(c)
  <2> SUFFICES ASSUME NEW a \in 1 .. (m + n), NEW b \in 1 .. (m + n), c[a].first = c[b].first
               PROVE  a = b
    BY <1>1 DEF DistinctKeys
  <2>0. ASSUME NEW i \in 1 .. m, NEW j \in (m + 1) .. (m + n) PROVE c[i].first # c[j].first
    <3>1. j - m \in 1 .. n
      BY <1>1
    <3>2. c[i] \in Elems(s) /\ c[j] \in Elems(u)
      BY <1>1, <3>1 DEF Elems
    <3>3. QED
      BY <1>5, <3>2
  <2>1. CASE a <= m /\ b <= m
    <3>1. a \in 1 .. m /\ b \in 1 .. m
      BY <1>1, <2>1
    <3>2. s[a].first = s[b].first
      BY <1>1, <3>1
    <3>3. QED
      BY <1>5, <3>1, <3>2 DEF DistinctKeys
  <2>2. CASE a > m /\ b > m
    <3>1. a - m \in 1 .. n /\ b - m \in 1 .. n /\ a \in (m + 1) .. (m + n) /\ b \in (m + 1) .. (m + n)
      BY <1>1, <2>2
    <3>2. u[a - m].first = u[b - m].first
      BY <1>1, <3>1
    <3>3. a - m = b - m
      BY <1>5, <3>1, <3>2 DEF DistinctKeys
    <3>4. QED
      BY <1>1, <3>1, <3>3
  <2>3. CASE a <= m /\ b > m
    <3>1. a \in 1 .. m /\ b \in (m + 1) .. (m + n)
      BY <1>1, <2>3
    <3>2. QED
      BY <2>0, <3>1
  <2>4. CASE a > m /\ b <= m
    <3>1. b \in 1 .. m /\ a \in (m + 1) .. (m + n)
      BY <1>1, <2>4
    <3>2. QED
      BY <2>0, <3>1
  <2>5. QED
    BY <1>1, <2>1, <2>2, <2>3, <2>4
<1>6. QED
  BY <1>1, <1>2, <1>3, <1>4, <1>5 DEF c

\* A chain of one node.
LEMMA OneNode ==
    ASSUME NEW x \in HNode
    PROVE  <<x>> \in Seq(HNode) /\ Elems(<<x>>) = {x} /\ DistinctKeys(<<x>>)
<1>1. <<x>> \in Seq(HNode) /\ Len(<<x>>) = 1 /\ <<x>>[1] = x
  OBVIOUS
<1> DEFINE c == <<x>>
<1> HIDE DEF c
<1>2. c \in Seq(HNode) /\ Len(c) = 1 /\ c[1] = x
  BY <1>1 DEF c
<1>3. Elems(c) = {x} /\ DistinctKeys(c)
  BY <1>2 DEF Elems, DistinctKeys
<1>4. QED
  BY <1>2, <1>3 DEF c

\* Appending a node.
LEMMA AppendNode ==
    ASSUME NEW s \in Seq(HNode), NEW x \in HNode
    PROVE  Append(s, x) = s \o <<x>>
  OBVIOUS

\* The elements of a sequence by their place.
LEMMA ElemsAre ==
    ASSUME NEW s, NEW a \in 1 .. Len(s)
    PROVE  s[a] \in Elems(s)
  BY DEF Elems

\* Iteration meets the nodes of all chains, each key once.
LEMMA IterateNodes ==
    ASSUME NEW tab, NEW t, ChainsOf(tab, t)
    PROVE  /\ FlattenSeq(tab) \in Seq(HNode)
           /\ Elems(FlattenSeq(tab)) = InChains(tab)
           /\ DistinctKeys(FlattenSeq(tab))
<1>1. /\ tab \in Seq(Seq(HNode)) /\ Len(tab) \in Nat \ {0}
      /\ \A b \in 1 .. Len(tab) : /\ tab[b] \in Seq(HNode) /\ DistinctKeys(tab[b])
                                  /\ \A x \in Elems(tab[b]) : Index(t, x.first) = b
  BY DEF ChainsOf
<1>2. PICK f : /\ f[1] = tab[1]
               /\ \A k \in 2 .. Len(tab) : f[k] = f[k - 1] \o tab[k]
               /\ FlattenSeq(tab) = f[Len(tab)]
  <2>1. tab \in Seq(Seq(HNode)) /\ Len(tab) > 0
    BY <1>1
  <2>2. QED
    BY <2>1, IterateFold, Zenon
<1> DEFINE n == Len(tab) - 1
           Upto(k) == UNION {Elems(tab[b]) : b \in 1 .. k}
           Good(k) == /\ f[k] \in Seq(HNode) /\ DistinctKeys(f[k])
                      /\ Elems(f[k]) = Upto(k)
           T == {k \in 0 .. n : Good(k + 1)}
<1>3. ASSUME NEW k \in 1 .. Len(tab), NEW x \in Upto(k) PROVE Index(t, x.first) \in 1 .. k
  <2>1. PICK b \in 1 .. k : x \in Elems(tab[b])
    OBVIOUS
  <2>2. b \in 1 .. Len(tab)
    BY <1>1
  <2>3. QED
    BY <1>1, <2>1, <2>2
<1>4. Good(1)
  <2>1. Upto(1) = Elems(tab[1])
    OBVIOUS
  <2> HIDE DEF Upto
  <2>2. QED
    BY <1>1, <1>2, <2>1
<1>5. ASSUME NEW k \in 2 .. Len(tab), Good(k - 1) PROVE Good(k)
  <2>1. k \in 1 .. Len(tab) /\ k - 1 \in 1 .. Len(tab) /\ k \notin 1 .. k - 1
    BY <1>1
  <2>2. Upto(k) = Upto(k - 1) \cup Elems(tab[k])
    <3>1. 1 .. k = (1 .. (k - 1)) \cup {k}
      BY <1>1, <2>1
    <3>2. QED
      BY <3>1
  <2>3. \A x \in Upto(k - 1), y \in Elems(tab[k]) : x.first # y.first
    <3> HIDE DEF Upto
    <3>1. QED
      BY <1>1, <1>3, <2>1
  <2> HIDE DEF Upto
  <2>4. f[k] = f[k - 1] \o tab[k]
    BY <1>2
  <2>5. QED
    BY <1>1, <1>5, <2>1, <2>2, <2>3, <2>4, ConcatNodes
<1> HIDE DEF Good
<1>6. n \in Nat /\ n + 1 = Len(tab)
  BY <1>1
<1>7. 0 \in T
  BY <1>4, <1>6
<1>8. ASSUME NEW k \in 1 .. n, k - 1 \in T PROVE k \in T
  <2>1. k + 1 \in 2 .. Len(tab) /\ (k + 1) - 1 = (k - 1) + 1 /\ k \in 0 .. n
    BY <1>6
  <2>2. Good((k + 1) - 1)
    BY <1>8, <2>1
  <2>3. QED
    BY <1>5, <2>1, <2>2
<1>9. \A k \in 0 .. n : k \in T
  <2> HIDE DEF T, n
  <2>1. QED
    BY <1>6, <1>7, <1>8, StepByStep
<1>10. Good(Len(tab))
  <2>1. n \in T
    BY <1>6, <1>9
  <2>2. QED
    BY <1>6, <2>1
<1>11. QED
  BY <1>2, <1>10 DEF Good, InChains

\* A node is in one chain only, its key is nowhere else.
LEMMA KeysOnce ==
    ASSUME NEW tab, NEW t, ChainsOf(tab, t), NEW x \in InChains(tab), NEW y \in InChains(tab),
           x.first = y.first
    PROVE  x = y
<1>1. PICK a \in 1 .. Len(tab) : x \in Elems(tab[a])
  BY DEF InChains
<1>2. PICK b \in 1 .. Len(tab) : y \in Elems(tab[b])
  BY DEF InChains
<1>3. a = b /\ DistinctKeys(tab[a])
  BY <1>1, <1>2 DEF ChainsOf
<1>4. QED
  BY <1>1, <1>2, <1>3 DEF Elems, DistinctKeys

\* As many nodes as iteration meets.
LEMMA IterateCounts ==
    ASSUME NEW tab, NEW t, ChainsOf(tab, t)
    PROVE  IsFiniteSet(InChains(tab)) /\ Cardinality(InChains(tab)) = Len(FlattenSeq(tab))
<1> DEFINE s == FlattenSeq(tab)
           n == Len(s)
<1>1. s \in Seq(HNode) /\ Elems(s) = InChains(tab) /\ DistinctKeys(s)
  BY IterateNodes
<1> HIDE DEF s
<1>2. n \in Nat /\ s \in [1 .. n -> Elems(s)]
  BY <1>1 DEF Elems
<1>3. s \in Bijection(1 .. n, Elems(s))
  BY <1>1, <1>2 DEF Bijection, Injection, IsInjective, Surjection, Elems, DistinctKeys
<1>4. ExistsBijection(1 .. n, Elems(s))
  BY <1>3 DEF ExistsBijection
<1>5. IsFiniteSet(1 .. n) /\ Cardinality(1 .. n) = n
  <2>1. IsFiniteSet(1 .. n) /\ Cardinality(1 .. n) = IF 1 > n THEN 0 ELSE n - 1 + 1
    BY <1>2, FS_Interval
  <2>2. QED
    BY <1>2, <2>1
<1>6. QED
  BY <1>1, <1>4, <1>5, FS_Bijection DEF s

\* The chain of a key.
LEMMA IndexRange ==
    ASSUME NEW t, Buckets(t) \in Nat \ {0}, NEW k \in Keys
    PROVE  Index(t, k) \in 1 .. Buckets(t)
<1>1. HashOf[k] \in Nat
  BY HashAssumption
<1>2. HashOf[k] % Buckets(t) \in 0 .. (Buckets(t) - 1)
  BY <1>1
<1>3. QED
  BY <1>2 DEF Index

\* The chains only depend on how many there are.
LEMMA SameIndex ==
    ASSUME NEW t, NEW u, Buckets(t) = Buckets(u), NEW tab, ChainsOf(tab, t)
    PROVE  ChainsOf(tab, u) /\ \A k : Index(t, k) = Index(u, k)
<1>1. \A k : Index(t, k) = Index(u, k)
  BY DEF Index
<1>2. QED
  BY <1>1 DEF ChainsOf

PutChain(tab, b, c) == [tab EXCEPT ![b] = c]

\* One chain is replaced by another.
LEMMA ChainReplaced ==
    ASSUME NEW tab, NEW t, ChainsOf(tab, t), NEW b \in 1 .. Len(tab), NEW c \in Seq(HNode),
           DistinctKeys(c), \A x \in Elems(c) : Index(t, x.first) = b
    PROVE  /\ ChainsOf(PutChain(tab, b, c), t)
           /\ InChains(PutChain(tab, b, c)) = (InChains(tab) \ Elems(tab[b])) \cup Elems(c)
<1> DEFINE new == PutChain(tab, b, c)
<1>1. /\ new \in Seq(Seq(HNode)) /\ Len(new) = Len(tab) /\ new[b] = c
      /\ \A d \in 1 .. Len(tab) : d # b => new[d] = tab[d]
  BY DEF ChainsOf, PutChain
<1> HIDE DEF new
<1>2. ChainsOf(new, t)
  <2>1. ASSUME NEW d \in 1 .. Len(new)
        PROVE  DistinctKeys(new[d]) /\ \A x \in Elems(new[d]) : Index(t, x.first) = d
    <3>1. CASE d = b
      BY <1>1, <3>1
    <3>2. CASE d # b
      BY <1>1, <3>2 DEF ChainsOf
    <3>3. QED
      BY <3>1, <3>2
  <2>2. QED
    BY <1>1, <2>1 DEF ChainsOf
<1>3. ASSUME NEW x \in InChains(new) PROVE x \in (InChains(tab) \ Elems(tab[b])) \cup Elems(c)
  <2>1. PICK d \in 1 .. Len(tab) : x \in Elems(new[d])
    BY <1>1 DEF InChains
  <2>2. CASE d = b
    BY <1>1, <2>1, <2>2
  <2>3. CASE d # b
    <3>1. x \in Elems(tab[d]) /\ x \notin Elems(tab[b])
      BY <1>1, <2>1, <2>3 DEF ChainsOf
    <3>2. QED
      BY <3>1 DEF InChains
  <2>4. QED
    BY <2>2, <2>3
<1>4. ASSUME NEW x \in (InChains(tab) \ Elems(tab[b])) \cup Elems(c) PROVE x \in InChains(new)
  <2>1. CASE x \in Elems(c)
    BY <1>1, <2>1 DEF InChains
  <2>2. CASE x \notin Elems(c)
    <3>1. PICK d \in 1 .. Len(tab) : x \in Elems(tab[d]) /\ d # b
      BY <2>2 DEF InChains
    <3>2. QED
      BY <1>1, <3>1 DEF InChains
  <2>3. QED
    BY <2>1, <2>2
<1>5. QED
  BY <1>2, <1>3, <1>4 DEF new

\* What find finds.
LEMMA FindNode ==
    ASSUME NEW t, ChainsOf(t.table, t), NEW k \in Keys
    PROVE  LET b == Index(t, k)
               c == t.table[b]
               p == Find(t, k)
           IN  /\ b \in 1 .. Len(t.table) /\ c \in Seq(HNode) /\ p \in 0 .. Len(c)
               /\ p # 0 => c[p].first = k /\ c[p] \in Content(t)
               /\ p = 0 => \A x \in Content(t) : x.first # k
<1> DEFINE b == Index(t, k)
           c == t.table[b]
           p == Find(t, k)
           I == {a \in 1 .. Len(c) : c[a].first = k}
<1>1. b \in 1 .. Len(t.table) /\ c \in Seq(HNode)
  <2>1. Buckets(t) \in Nat \ {0} /\ Len(t.table) = Buckets(t) /\ t.table \in Seq(Seq(HNode))
    BY DEF ChainsOf
  <2>2. QED
    BY <2>1, IndexRange
<1>2. p = IF I # {} THEN Min(I) ELSE 0
  BY DEF Find, SelectInSeq
<1>3. CASE I = {}
  <2>1. p = 0
    BY <1>2, <1>3
  <2>2. ASSUME NEW x \in Content(t), x.first = k PROVE FALSE
    <3>1. PICK d \in 1 .. Len(t.table) : x \in Elems(t.table[d])
      BY DEF Content, InChains
    <3>2. d = b
      BY <2>2, <3>1 DEF ChainsOf
    <3>3. QED
      BY <1>3, <2>2, <3>1, <3>2 DEF Elems
  <2>3. QED
    BY <1>1, <2>1, <2>2
<1>4. CASE I # {}
  <2>1. I \subseteq Nat
    OBVIOUS
  <2>2. \E x \in I : \A y \in I : x <= y
    <3> HIDE DEF I
    <3>1. QED
      BY <1>4, <2>1, NatMin
  <2>3. p \in I
    <3> HIDE DEF I, p
    <3>1. QED
      BY <1>2, <1>4, <2>2, Zenon DEF Min
  <2>4. p \in 1 .. Len(c) /\ c[p].first = k
    BY <2>3
  <2> HIDE DEF p
  <2>5. c[p] \in Content(t)
    BY <1>1, <2>4 DEF Content, InChains, Elems
  <2>6. p # 0 /\ p \in 0 .. Len(c)
    BY <1>1, <2>4
  <2>7. QED
    BY <1>1, <2>4, <2>5, <2>6 DEF p
<1>5. QED
  BY <1>3, <1>4

\* A chain with a node of a new key at either end.
LEMMA ChainWith ==
    ASSUME NEW old \in Seq(HNode), DistinctKeys(old), NEW x \in HNode,
           \A y \in Elems(old) : y.first # x.first
    PROVE  \A c \in {<<x>> \o old, Append(old, x)} :
             c \in Seq(HNode) /\ Elems(c) = Elems(old) \cup {x} /\ DistinctKeys(c)
<1> DEFINE one == <<x>>
<1>1. one \in Seq(HNode) /\ Elems(one) = {x} /\ DistinctKeys(one) /\ Append(old, x) = old \o one
  BY OneNode, AppendNode
<1> HIDE DEF one
<1>2. LET c == one \o old IN c \in Seq(HNode) /\ Elems(c) = Elems(old) \cup {x} /\ DistinctKeys(c)
  BY <1>1, ConcatNodes
<1>3. LET c == old \o one IN c \in Seq(HNode) /\ Elems(c) = Elems(old) \cup {x} /\ DistinctKeys(c)
  BY <1>1, ConcatNodes
<1>4. QED
  BY <1>1, <1>2, <1>3 DEF one

WithNode(old, x) == {<<x>> \o old, Append(old, x)}

\* A node whose key is new comes into its chain.
LEMMA NodeAdded ==
    ASSUME NEW tab, NEW t, ChainsOf(tab, t), NEW x \in HNode, NEW b, b = Index(t, x.first),
           \A y \in InChains(tab) : y.first # x.first,
           NEW c \in WithNode(tab[b], x)
    PROVE  /\ ChainsOf(PutChain(tab, b, c), t)
           /\ InChains(PutChain(tab, b, c)) = InChains(tab) \cup {x}
<1> DEFINE old == tab[b]
<1>1. b \in 1 .. Len(tab) /\ old \in Seq(HNode) /\ DistinctKeys(old)
  <2>1. Buckets(t) \in Nat \ {0} /\ Len(tab) = Buckets(t) /\ tab \in Seq(Seq(HNode))
    BY DEF ChainsOf
  <2>2. x.first \in Keys
    BY DEF HNode
  <2>3. b \in 1 .. Len(tab)
    BY <2>1, <2>2, IndexRange
  <2>4. QED
    BY <2>1, <2>3 DEF ChainsOf
<1>2. Elems(old) \subseteq InChains(tab) /\ \A y \in Elems(old) : Index(t, y.first) = b
  BY <1>1 DEF InChains, ChainsOf
<1>3. c \in Seq(HNode) /\ Elems(c) = Elems(old) \cup {x} /\ DistinctKeys(c)
  <2>1. \A y \in Elems(old) : y.first # x.first
    BY <1>2
  <2>2. c \in {<<x>> \o old, Append(old, x)}
    BY DEF WithNode
  <2> HIDE DEF old
  <2>3. QED
    BY <1>1, <2>1, <2>2, ChainWith, Zenon
<1>4. \A y \in Elems(c) : Index(t, y.first) = b
  BY <1>2, <1>3
<1>5. /\ ChainsOf(PutChain(tab, b, c), t)
      /\ InChains(PutChain(tab, b, c)) = (InChains(tab) \ Elems(tab[b])) \cup Elems(c)
  <2> HIDE DEF old
  <2>1. QED
    BY <1>1, <1>3, <1>4, ChainReplaced
<1>6. QED
  BY <1>2, <1>3, <1>5

\* A table without nodes.
LEMMA NoNodes ==
    ASSUME NEW n \in Nat \ {0}
    PROVE  /\ ChainsOf(Empty(n).table, Empty(n)) /\ InChains(Empty(n).table) = {}
           /\ Empty(n) \in [table: Seq(Seq(HNode)), size: Nat, threshold: Nat]
           /\ Buckets(Empty(n)) = n /\ Empty(n).size = 0
<1> DEFINE tab == Empty(n).table
<1>1. tab = [b \in 1 .. n |-> <<>>] /\ Empty(n).size = 0
  BY DEF Empty
<1>2. <<>> \in Seq(HNode) /\ Len(<<>>) = 0 /\ Elems(<<>>) = {} /\ DistinctKeys(<<>>)
  BY DEF Elems, DistinctKeys
<1>3. tab \in Seq(Seq(HNode)) /\ Len(tab) = n /\ \A b \in 1 .. n : tab[b] = <<>>
  BY <1>1
<1>4. Threshold(n) \in Nat
  BY DEF Threshold
<1>5. Empty(n) = [table |-> tab, size |-> 0, threshold |-> Threshold(n)]
  BY DEF Empty
<1>0. Buckets(Empty(n)) = n
  BY <1>3 DEF Buckets
<1> HIDE DEF tab
<1>6. ChainsOf(tab, Empty(n)) /\ InChains(tab) = {}
  BY <1>0, <1>2, <1>3 DEF ChainsOf, InChains
<1>7. Empty(n) \in [table: Seq(Seq(HNode)), size: Nat, threshold: Nat]
  BY <1>3, <1>4, <1>5
<1>8. QED
  BY <1>0, <1>1, <1>3, <1>6, <1>7 DEF tab

\* Iteration of an ordered table.
LEMMA IterateOrdered ==
    ASSUME NEW t, Ordered(t)
    PROVE  /\ Iterate(t) \in Seq(HNode) /\ Elems(Iterate(t)) = Content(t)
           /\ DistinctKeys(Iterate(t)) /\ t.size = Len(Iterate(t))
  BY IterateNodes, IterateCounts DEF Ordered, Iterate, Content

\* Relinking the nodes into twice the chains loses none and adds none.
LEMMA RehashKeeps ==
    ASSUME NEW t, Ordered(t)
    PROVE  Ordered(Rehash(t)) /\ Content(Rehash(t)) = Content(t)
<1> DEFINE buckets == 2 * Buckets(t)
           nodes == Iterate(t)
           n == Len(nodes)
           new == Empty(buckets)
<1>1. nodes \in Seq(HNode) /\ Elems(nodes) = Content(t) /\ DistinctKeys(nodes) /\ n \in Nat
  BY IterateOrdered
<1>2. Buckets(t) \in Nat \ {0} /\ buckets \in Nat \ {0}
  BY DEF Ordered, ChainsOf
<1>3. PICK f : /\ f[0] = new.table
               /\ \A k \in 1 .. n : f[k] = MoveTo(f[k - 1], buckets, nodes[k])
               /\ Rehash(t) = [new EXCEPT !.table = f[n], !.size = t.size]
  BY <1>1, <1>2, RehashFold, Zenon
<1>4. /\ ChainsOf(new.table, new) /\ InChains(new.table) = {}
      /\ new \in [table: Seq(Seq(HNode)), size: Nat, threshold: Nat]
      /\ Buckets(new) = buckets
  <2> HIDE DEF buckets
  <2>1. QED
    BY <1>2, NoNodes
<1> HIDE DEF buckets, nodes, new
<1> DEFINE First(k) == {nodes[a] : a \in 1 .. k}
           T == {k \in 0 .. n : ChainsOf(f[k], new) /\ InChains(f[k]) = First(k)}
<1>5. 0 \in T
  <2>1. First(0) = {} /\ 0 \in 0 .. n
    BY <1>1
  <2>2. QED
    BY <1>3, <1>4, <2>1
<1>6. ASSUME NEW k \in 1 .. n, k - 1 \in T PROVE k \in T
  <2> DEFINE tab == f[k - 1]
             x == nodes[k]
             b == Index(new, x.first)
             c == <<x>> \o tab[b]
  <2>1. ChainsOf(tab, new) /\ InChains(tab) = First(k - 1) /\ x \in HNode
    BY <1>1, <1>6
  <2>2. \A y \in First(k - 1) : y.first # x.first
    <3> SUFFICES ASSUME NEW a \in 1 .. (k - 1) PROVE nodes[a].first # nodes[k].first
      OBVIOUS
    <3>1. a \in 1 .. n /\ k \in 1 .. n /\ a # k
      BY <1>1
    <3>2. QED
      BY <1>1, <3>1 DEF DistinctKeys
  <2>3. First(k) = First(k - 1) \cup {x}
    <3>1. 1 .. k = (1 .. (k - 1)) \cup {k}
      BY <1>1
    <3>2. QED
      BY <3>1
  <2>4. f[k] = PutChain(tab, b, c)
    <3>1. f[k] = MoveTo(tab, buckets, x)
      BY <1>3
    <3>2. QED
      BY <3>1 DEF MoveTo, new, PutChain
  <2>5. ChainsOf(f[k], new) /\ InChains(f[k]) = First(k - 1) \cup {x}
    <3>1. c \in WithNode(tab[b], x) /\ b = Index(new, x.first)
      BY DEF WithNode
    <3> HIDE DEF tab, x, First, b, c
    <3>2. QED
      <4>1. ChainsOf(tab, new) /\ x \in HNode /\ \A y \in InChains(tab) : y.first # x.first
        BY <2>1, <2>2
      <4>2. /\ ChainsOf(PutChain(tab, b, c), new)
            /\ InChains(PutChain(tab, b, c)) = InChains(tab) \cup {x}
        BY <3>1, <4>1, NodeAdded
      <4>3. QED
        BY <2>1, <2>4, <4>2
  <2>6. k \in 0 .. n
    BY <1>1
  <2>7. QED
    BY <2>3, <2>5, <2>6
<1>7. \A k \in 0 .. n : k \in T
  <2> HIDE DEF T, n
  <2>1. QED
    BY <1>1, <1>5, <1>6, StepByStep
<1>8. ChainsOf(f[n], new) /\ InChains(f[n]) = Content(t)
  <2>1. n \in T
    BY <1>1, <1>7
  <2>2. First(n) = Elems(nodes)
    BY DEF Elems
  <2>3. QED
    BY <1>1, <2>1, <2>2
<1> DEFINE r == Rehash(t)
<1>9. r.table = f[n] /\ r.size = t.size /\ r \in [table: Seq(Seq(HNode)), size: Nat, threshold: Nat]
  <2>1. f[n] \in Seq(Seq(HNode)) /\ t.size \in Nat
    BY <1>8 DEF ChainsOf, Ordered
  <2>2. QED
    BY <1>3, <1>4, <2>1
<1> HIDE DEF r
<1>10. Buckets(r) = Buckets(new)
  BY <1>8, <1>9 DEF Buckets, ChainsOf
<1>11. ChainsOf(r.table, r)
  BY <1>8, <1>9, <1>10, SameIndex
<1>12. QED
  BY <1>8, <1>9, <1>11 DEF r, Ordered, Content

\* So does resize.
LEMMA ResizeKeeps ==
    ASSUME NEW t, Ordered(t)
    PROVE  Ordered(Resize(t)) /\ Content(Resize(t)) = Content(t)
  BY RehashKeeps DEF Resize

\* emplace of a key that is not there.
LEMMA AppendKeeps ==
    ASSUME NEW t, Ordered(t), NEW x \in HNode, \A y \in Content(t) : y.first # x.first
    PROVE  /\ Ordered(Append_At(t, Index(t, x.first), x))
           /\ Content(Append_At(t, Index(t, x.first), x)) = Content(t) \cup {x}
<1> DEFINE b == Index(t, x.first)
           r == Append_At(t, b, x)
           c == Append(t.table[b], x)
<1>1. /\ t \in [table: Seq(Seq(HNode)), size: Nat, threshold: Nat] /\ ChainsOf(t.table, t)
      /\ IsFiniteSet(Content(t)) /\ t.size = Cardinality(Content(t))
  BY DEF Ordered
<1>2. r = [t EXCEPT !.table = PutChain(t.table, b, c), !.size = t.size + 1]
  BY <1>1 DEF Append_At, PutChain
<1>3. c \in WithNode(t.table[b], x) /\ b = Index(t, x.first)
  BY DEF WithNode
<1>4. \A y \in InChains(t.table) : y.first # x.first
  BY DEF Content
<1> HIDE DEF b, c, r
<1>5. /\ ChainsOf(PutChain(t.table, b, c), t)
      /\ InChains(PutChain(t.table, b, c)) = InChains(t.table) \cup {x}
  <2> DEFINE tab == t.table
  <2>1. ChainsOf(tab, t) /\ c \in WithNode(tab[b], x) /\ \A y \in InChains(tab) : y.first # x.first
    BY <1>1, <1>3, <1>4
  <2> HIDE DEF tab
  <2>2. ChainsOf(PutChain(tab, b, c), t) /\ InChains(PutChain(tab, b, c)) = InChains(tab) \cup {x}
    BY <1>3, <2>1, NodeAdded
  <2>3. QED
    BY <2>2 DEF tab
<1>6. /\ r \in [table: Seq(Seq(HNode)), size: Nat, threshold: Nat]
      /\ r.table = PutChain(t.table, b, c) /\ r.size = t.size + 1
  <2>1. PutChain(t.table, b, c) \in Seq(Seq(HNode)) /\ t.size + 1 \in Nat
    BY <1>1, <1>5 DEF ChainsOf
  <2> DEFINE new == PutChain(t.table, b, c)
  <2> HIDE DEF new
  <2>2. new \in Seq(Seq(HNode)) /\ r = [t EXCEPT !.table = new, !.size = t.size + 1]
    BY <1>2, <2>1 DEF new
  <2>3. r \in [table: Seq(Seq(HNode)), size: Nat, threshold: Nat] /\ r.table = new /\ r.size = t.size + 1
    BY <1>1, <2>1, <2>2
  <2>4. QED
    BY <2>3 DEF new
<1>7. Buckets(t) = Buckets(r)
  BY <1>5, <1>6 DEF Buckets, ChainsOf
<1>8. ChainsOf(r.table, r) /\ Content(r) = Content(t) \cup {x}
  BY <1>5, <1>6, <1>7, SameIndex DEF Content
<1>9. IsFiniteSet(Content(r)) /\ Cardinality(Content(r)) = Cardinality(Content(t)) + 1
  <2>1. x \notin Content(t)
    OBVIOUS
  <2>2. QED
    BY <1>1, <1>8, <2>1, FS_AddElement
<1>10. QED
  BY <1>1, <1>6, <1>8, <1>9 DEF Ordered, r, b

\* emplace and try_emplace add the key only if it is not there.
LEMMA EmplaceKeeps ==
    ASSUME NEW t, Ordered(t), NEW k \in Keys, NEW w \in Vals \cup {DefaultVal}
    PROVE  /\ Ordered(Emplace(t, k, w))
           /\ Content(Emplace(t, k, w)) = IF \E x \in Content(t) : x.first = k THEN Content(t)
                                          ELSE Content(t) \cup {Node(k, w)}
<1> DEFINE r == Resize(t)
<1>1. Ordered(r) /\ Content(r) = Content(t)
  BY ResizeKeeps
<1>2. Emplace(t, k, w) = IF Find(r, k) # 0 THEN r ELSE Append_At(r, Index(r, k), Node(k, w))
  BY DEF Emplace
<1> HIDE DEF r
<1>3. (Find(r, k) # 0) <=> \E x \in Content(r) : x.first = k
  <2>1. ChainsOf(r.table, r)
    BY <1>1 DEF Ordered
  <2>2. QED
    BY <2>1, FindNode
<1>4. Node(k, w) \in HNode /\ Node(k, w).first = k
  BY DEF Node, HNode
<1>5. CASE Find(r, k) # 0
  BY <1>1, <1>2, <1>3, <1>5
<1>6. CASE Find(r, k) = 0
  <2>1. \A y \in Content(r) : y.first # Node(k, w).first
    BY <1>3, <1>4, <1>6
  <2> DEFINE x == Node(k, w)
  <2> HIDE DEF x
  <2>2. x \in HNode /\ x.first = k /\ \A y \in Content(r) : y.first # x.first
    BY <1>4, <2>1 DEF x
  <2>3. /\ Ordered(Append_At(r, Index(r, x.first), x))
        /\ Content(Append_At(r, Index(r, x.first), x)) = Content(r) \cup {x}
    BY <1>1, <2>2, AppendKeeps
  <2>4. QED
    BY <1>1, <1>2, <1>3, <1>6, <2>2, <2>3 DEF x
<1>7. QED
  BY <1>5, <1>6

PutTable(t, b, c, n) == [t EXCEPT !.table = PutChain(t.table, b, c), !.size = n]

IsChain(t, b, c) ==
    /\ b \in 1 .. Len(t.table) /\ c \in Seq(HNode)
    /\ DistinctKeys(c) /\ \A x \in Elems(c) : Index(t, x.first) = b

ContentWith(t, b, c) == (Content(t) \ Elems(t.table[b])) \cup Elems(c)

\* A table of which one chain and the size change.
LEMMA ChainPut ==
    ASSUME NEW t, Ordered(t), NEW b, NEW c, IsChain(t, b, c),
           NEW n \in Nat, n = Cardinality(ContentWith(t, b, c))
    PROVE  Ordered(PutTable(t, b, c, n)) /\ Content(PutTable(t, b, c, n)) = ContentWith(t, b, c)
<1> DEFINE new == PutChain(t.table, b, c)
           r == PutTable(t, b, c, n)
<1>1. t \in [table: Seq(Seq(HNode)), size: Nat, threshold: Nat] /\ ChainsOf(t.table, t)
  BY DEF Ordered
<1>0. /\ b \in 1 .. Len(t.table) /\ c \in Seq(HNode)
      /\ DistinctKeys(c) /\ \A x \in Elems(c) : Index(t, x.first) = b
  BY DEF IsChain
<1>2. ChainsOf(new, t) /\ InChains(new) = (InChains(t.table) \ Elems(t.table[b])) \cup Elems(c)
  <2> DEFINE tab == t.table
  <2>1. ChainsOf(tab, t) /\ b \in 1 .. Len(tab)
    BY <1>0, <1>1
  <2> HIDE DEF tab
  <2>2. /\ ChainsOf(PutChain(tab, b, c), t)
        /\ InChains(PutChain(tab, b, c)) = (InChains(tab) \ Elems(tab[b])) \cup Elems(c)
    BY <1>0, <2>1, ChainReplaced
  <2>3. QED
    BY <2>2 DEF tab
<1> HIDE DEF new
<1>3. new \in Seq(Seq(HNode)) /\ r = [t EXCEPT !.table = new, !.size = n]
  BY <1>2 DEF new, ChainsOf, PutTable
<1> HIDE DEF r
<1>4. /\ r \in [table: Seq(Seq(HNode)), size: Nat, threshold: Nat]
      /\ r.table = new /\ r.size = n
  BY <1>1, <1>3
<1>5. Buckets(t) = Buckets(r)
  BY <1>2, <1>4 DEF Buckets, ChainsOf
<1>6. ChainsOf(r.table, r) /\ Content(r) = ContentWith(t, b, c)
  BY <1>2, <1>4, <1>5, SameIndex DEF Content, ContentWith
<1>7. IsFiniteSet(Content(r))
  BY <1>6, IterateCounts DEF Content
<1>8. QED
  BY <1>4, <1>6, <1>7 DEF Ordered, r

\* A chain without the node at p, and with another value in it.
LEMMA ChainWithout ==
    ASSUME NEW s \in Seq(HNode), DistinctKeys(s), NEW p \in 1 .. Len(s)
    PROVE  /\ RemoveAt(s, p) \in Seq(HNode) /\ DistinctKeys(RemoveAt(s, p))
           /\ Elems(RemoveAt(s, p)) = Elems(s) \ {s[p]}
<1> DEFINE n == Len(s)
           c == RemoveAt(s, p)
           u == SubSeq(s, 1, p - 1)
           w == SubSeq(s, p + 1, n)
<1>1. n \in Nat /\ p \in Int /\ 1 <= p /\ p <= n /\ \A a \in 1 .. n : s[a] \in HNode
  OBVIOUS
<1>2. u \in Seq(HNode) /\ Len(u) = p - 1 /\ \A a \in 1 .. p - 1 : u[a] = s[a]
  <2>1. \A a \in 1 .. p - 1 : s[a] \in HNode
    BY <1>1
  <2>2. QED
    BY <1>1, <2>1, SubSeqProperties
<1>3. w \in Seq(HNode) /\ Len(w) = n - p /\ \A a \in 1 .. n - p : w[a] = s[p + a]
  <2>1. \A a \in p + 1 .. n : s[a] \in HNode
    BY <1>1
  <2>2. /\ w \in Seq(HNode) /\ Len(w) = (IF p + 1 <= n THEN n - (p + 1) + 1 ELSE 0)
        /\ \A a \in 1 .. n - (p + 1) + 1 : w[a] = s[(p + 1) + a - 1]
    BY <1>1, <2>1, SubSeqProperties
  <2>3. QED
    BY <1>1, <2>2
<1>4. c = u \o w
  BY DEF RemoveAt
<1> HIDE DEF u, w, c
<1>5. c \in Seq(HNode) /\ Elems(c) = Elems(u) \cup Elems(w)
  BY <1>2, <1>3, <1>4, ConcatNodes
<1>6. Elems(u) \cup Elems(w) = Elems(s) \ {s[p]}
  <2>1. ASSUME NEW x \in Elems(u) PROVE x \in Elems(s) \ {s[p]}
    <3>1. PICK a \in 1 .. p - 1 : x = s[a]
      BY <1>2 DEF Elems
    <3>2. a \in 1 .. n /\ a # p
      BY <1>1
    <3>3. QED
      BY <1>1, <3>1, <3>2 DEF Elems, DistinctKeys
  <2>2. ASSUME NEW x \in Elems(w) PROVE x \in Elems(s) \ {s[p]}
    <3>1. PICK a \in 1 .. n - p : x = s[p + a]
      BY <1>3 DEF Elems
    <3>2. p + a \in 1 .. n /\ p + a # p
      BY <1>1
    <3>3. QED
      BY <1>1, <3>1, <3>2 DEF Elems, DistinctKeys
  <2>3. ASSUME NEW x \in Elems(s) \ {s[p]} PROVE x \in Elems(u) \cup Elems(w)
    <3>1. PICK a \in 1 .. n : x = s[a] /\ a # p
      BY DEF Elems
    <3>2. CASE a < p
      <4>1. a \in 1 .. p - 1
        BY <1>1, <3>2
      <4>2. QED
        BY <1>2, <3>1, <4>1 DEF Elems
    <3>3. CASE a > p
      <4>1. a - p \in 1 .. n - p /\ p + (a - p) = a
        BY <1>1, <3>3
      <4>2. w[a - p] = x
        BY <1>3, <3>1, <4>1
      <4>3. QED
        BY <1>3, <4>1, <4>2 DEF Elems
    <3>4. QED
      BY <1>1, <3>1, <3>2, <3>3
  <2>4. QED
    BY <2>1, <2>2, <2>3
<1>7. DistinctKeys(u) /\ DistinctKeys(w)
  <2>1. DistinctKeys(u)
    <3> SUFFICES ASSUME NEW a \in 1 .. p - 1, NEW b \in 1 .. p - 1, u[a].first = u[b].first
                 PROVE  a = b
      BY <1>2 DEF DistinctKeys
    <3>1. a \in 1 .. n /\ b \in 1 .. n
      BY <1>1
    <3>2. s[a].first = s[b].first
      BY <1>2
    <3>3. QED
      BY <3>1, <3>2 DEF DistinctKeys
  <2>2. ASSUME NEW a \in 1 .. n - p, NEW b \in 1 .. n - p, w[a].first = w[b].first PROVE a = b
    <3>1. p + a \in 1 .. n /\ p + b \in 1 .. n
      BY <1>1
    <3>2. s[p + a].first = s[p + b].first
      BY <1>3, <2>2
    <3>3. p + a = p + b
      BY <3>1, <3>2 DEF DistinctKeys
    <3>4. QED
      BY <1>1, <3>3
  <2>3. QED
    BY <1>3, <2>1, <2>2 DEF DistinctKeys
<1>8. \A x \in Elems(u), y \in Elems(w) : x.first # y.first
  <2> SUFFICES ASSUME NEW x \in Elems(u), NEW y \in Elems(w) PROVE x.first # y.first
    OBVIOUS
  <2>1. PICK a \in 1 .. p - 1 : x = s[a]
    BY <1>2 DEF Elems
  <2>2. PICK b \in 1 .. n - p : y = s[p + b]
    BY <1>3 DEF Elems
  <2>3. a \in 1 .. n /\ p + b \in 1 .. n /\ a # p + b
    BY <1>1
  <2>4. QED
    BY <2>1, <2>2, <2>3 DEF DistinctKeys
<1>9. DistinctKeys(c)
  BY <1>2, <1>3, <1>4, <1>7, <1>8, ConcatNodes
<1>10. QED
  BY <1>5, <1>6, <1>9 DEF c

LEMMA ChainSet ==
    ASSUME NEW s \in Seq(HNode), DistinctKeys(s), NEW p \in 1 .. Len(s),
           NEW x \in HNode, x.first = s[p].first
    PROVE  LET c == ReplaceAt(s, p, x)
           IN  c \in Seq(HNode) /\ DistinctKeys(c) /\ Elems(c) = (Elems(s) \ {s[p]}) \cup {x}
<1> DEFINE c == ReplaceAt(s, p, x)
<1>1. /\ c \in Seq(HNode) /\ Len(c) = Len(s) /\ c[p] = x
      /\ \A a \in 1 .. Len(s) : a # p => c[a] = s[a]
  BY DEF ReplaceAt
<1> HIDE DEF c
<1>2. \A a \in 1 .. Len(s) : c[a].first = s[a].first
  BY <1>1
<1>3. DistinctKeys(c)
  BY <1>1, <1>2 DEF DistinctKeys
<1>4. \A a \in 1 .. Len(s) : a # p => s[a] # s[p]
  BY DEF DistinctKeys
<1>5. Elems(c) = (Elems(s) \ {s[p]}) \cup {x}
  <2>1. ASSUME NEW a \in 1 .. Len(s) PROVE c[a] \in (Elems(s) \ {s[p]}) \cup {x}
    BY <1>1, <1>4 DEF Elems
  <2>2. ASSUME NEW a \in 1 .. Len(s), s[a] # s[p] PROVE s[a] \in Elems(c)
    BY <1>1, <2>2 DEF Elems
  <2>3. x \in Elems(c)
    BY <1>1 DEF Elems
  <2>4. Elems(c) \subseteq (Elems(s) \ {s[p]}) \cup {x}
    BY <1>1, <2>1 DEF Elems
  <2>5. Elems(s) \ {s[p]} \subseteq Elems(c)
    BY <2>2 DEF Elems
  <2>6. QED
    BY <2>3, <2>4, <2>5
<1>6. QED
  BY <1>1, <1>3, <1>5 DEF c

\* erase takes the node of the key out.
LEMMA EraseKeeps ==
    ASSUME NEW t, Ordered(t), NEW k \in Keys, Find(t, k) # 0
    PROVE  /\ Ordered(Erase(t, k))
           /\ Content(Erase(t, k)) = {x \in Content(t) : x.first # k}
<1> DEFINE b == Index(t, k)
           old == t.table[b]
           p == Find(t, k)
           c == RemoveAt(old, p)
           n == t.size - 1
           r == Erase(t, k)
<1>1. /\ t \in [table: Seq(Seq(HNode)), size: Nat, threshold: Nat] /\ ChainsOf(t.table, t)
      /\ IsFiniteSet(Content(t)) /\ t.size = Cardinality(Content(t))
  BY DEF Ordered
<1>2. /\ b \in 1 .. Len(t.table) /\ old \in Seq(HNode) /\ p \in 1 .. Len(old)
      /\ old[p].first = k /\ old[p] \in Content(t)
  <2>1. /\ b \in 1 .. Len(t.table) /\ old \in Seq(HNode) /\ p \in 0 .. Len(old)
        /\ p # 0 => old[p].first = k /\ old[p] \in Content(t)
    BY <1>1, FindNode
  <2> HIDE DEF old, p, b
  <2>2. p # 0
    BY DEF p
  <2>3. p \in 1 .. Len(old)
    BY <2>1, <2>2
  <2>4. QED
    BY <2>1, <2>2, <2>3
<1>3. r = PutTable(t, b, c, n)
  BY <1>1 DEF Erase, PutChain, PutTable
<1> HIDE DEF b, p, n, r
<1>4. DistinctKeys(old) /\ (\A x \in Elems(old) : Index(t, x.first) = b) /\ Elems(old) \subseteq Content(t)
  BY <1>1, <1>2 DEF ChainsOf, Content, InChains
<1> HIDE DEF old
<1>5. c \in Seq(HNode) /\ DistinctKeys(c) /\ Elems(c) = Elems(old) \ {old[p]}
  BY <1>2, <1>4, ChainWithout
<1> HIDE DEF c
<1>6. (Content(t) \ Elems(old)) \cup Elems(c) = Content(t) \ {old[p]}
  BY <1>2, <1>4, <1>5, ElemsAre
<1>7. Content(t) \ {old[p]} = {x \in Content(t) : x.first # k}
  <2>1. \A x \in Content(t) : x.first = k => x = old[p]
    BY <1>1, <1>2, KeysOnce DEF Content
  <2>2. QED
    BY <1>2, <2>1
<1>8. n \in Nat /\ n = Cardinality(Content(t) \ {old[p]})
  <2>1. IsFiniteSet(Content(t) \ {old[p]}) /\ Cardinality(Content(t) \ {old[p]}) = Cardinality(Content(t)) - 1
    BY <1>1, <1>2, FS_RemoveElement
  <2>2. Cardinality(Content(t) \ {old[p]}) \in Nat
    BY <2>1, FS_CardinalityType
  <2>3. QED
    BY <1>1, <2>1, <2>2 DEF n
<1>9. Ordered(r) /\ Content(r) = (Content(t) \ Elems(old)) \cup Elems(c)
  <2>1. \A x \in Elems(c) : Index(t, x.first) = b
    BY <1>4, <1>5
  <2>2. n = Cardinality(ContentWith(t, b, c)) /\ IsChain(t, b, c)
    BY <1>2, <1>5, <1>6, <1>8, <2>1 DEF old, IsChain, ContentWith
  <2>3. Ordered(PutTable(t, b, c, n)) /\ Content(PutTable(t, b, c, n)) = ContentWith(t, b, c)
    BY <1>8, <2>2, ChainPut
  <2>4. QED
    BY <1>3, <2>3 DEF old, ContentWith
<1>10. QED
  BY <1>6, <1>7, <1>9 DEF r

\* operator[] and an assignment to its result.
LEMMA AssignKeeps ==
    ASSUME NEW t, Ordered(t), NEW k \in Keys, NEW w \in Vals \cup {DefaultVal}
    PROVE  /\ Ordered(Assign(t, k, w))
           /\ Content(Assign(t, k, w)) = {x \in Content(t) : x.first # k} \cup {Node(k, w)}
<1> DEFINE e == Emplace(t, k, DefaultVal)
           b == Index(e, k)
           old == e.table[b]
           p == Find(e, k)
           x == Node(k, w)
           c == ReplaceAt(old, p, x)
           r == Assign(t, k, w)
<1>1. /\ Ordered(e)
      /\ Content(e) = IF \E y \in Content(t) : y.first = k THEN Content(t)
                      ELSE Content(t) \cup {Node(k, DefaultVal)}
  BY EmplaceKeeps
<1>2. r = [e EXCEPT !.table[b][p].second = w]
  BY DEF Assign
<1>3. x \in HNode /\ x.first = k /\ x.second = w /\ Node(k, DefaultVal).first = k
  BY DEF Node, HNode
<1> HIDE DEF e
<1>4. /\ e \in [table: Seq(Seq(HNode)), size: Nat, threshold: Nat] /\ ChainsOf(e.table, e)
      /\ IsFiniteSet(Content(e)) /\ e.size = Cardinality(Content(e))
  BY <1>1 DEF Ordered
<1>5. /\ b \in 1 .. Len(e.table) /\ old \in Seq(HNode) /\ p \in 1 .. Len(old)
      /\ old[p].first = k /\ old[p] \in Content(e)
  <2>1. /\ b \in 1 .. Len(e.table) /\ old \in Seq(HNode) /\ p \in 0 .. Len(old)
        /\ p # 0 => old[p].first = k /\ old[p] \in Content(e)
        /\ p = 0 => \A y \in Content(e) : y.first # k
    BY <1>4, FindNode
  <2> HIDE DEF old, p, b, x
  <2>2. \E y \in Content(e) : y.first = k
    BY <1>1, <1>3
  <2>3. p # 0
    BY <2>1, <2>2
  <2>4. p \in 1 .. Len(old)
    BY <2>1, <2>3
  <2>5. QED
    BY <2>1, <2>3, <2>4
<1> HIDE DEF b, p
<1>6. r = PutTable(e, b, c, e.size)
  <2>1. [old[p] EXCEPT !.second = w] = x
    <3>1. old[p] \in HNode /\ old[p].first = k
      BY <1>5
    <3> HIDE DEF old
    <3>2. QED
      BY <3>1 DEF Node, HNode
  <2>2. r = [e EXCEPT !.table = [e.table EXCEPT ![b] = [old EXCEPT ![p] = [old[p] EXCEPT !.second = w]]]]
    BY <1>2, Zenon
  <2>3. r = [e EXCEPT !.table = PutChain(e.table, b, c)]
    BY <2>1, <2>2 DEF PutChain, ReplaceAt
  <2> DEFINE tab == PutChain(e.table, b, c)
  <2> HIDE DEF tab
  <2>4. r = [e EXCEPT !.table = tab] /\ e \in [table: Seq(Seq(HNode)), size: Nat, threshold: Nat]
    BY <1>4, <2>3 DEF tab
  <2> HIDE DEF r
  <2>5. r = [e EXCEPT !.table = tab, !.size = e.size]
    BY <2>4
  <2>6. QED
    BY <2>5 DEF tab, PutTable
<1>7. DistinctKeys(old) /\ (\A y \in Elems(old) : Index(e, y.first) = b) /\ Elems(old) \subseteq Content(e)
  BY <1>4, <1>5 DEF ChainsOf, Content, InChains
<1> HIDE DEF old, x, r
<1>8. c \in Seq(HNode) /\ DistinctKeys(c) /\ Elems(c) = (Elems(old) \ {old[p]}) \cup {x}
  BY <1>3, <1>5, <1>7, ChainSet
<1> HIDE DEF c
<1>9. (Content(e) \ Elems(old)) \cup Elems(c) = (Content(e) \ {old[p]}) \cup {x}
  BY <1>5, <1>7, <1>8, ElemsAre
<1>10. \A y \in Content(e) : y.first = k => y = old[p]
  BY <1>4, <1>5, KeysOnce DEF Content
<1>11. Content(e) \ {old[p]} = {y \in Content(t) : y.first # k}
  <2>1. Content(e) \ {old[p]} = {y \in Content(e) : y.first # k}
    BY <1>5, <1>10
  <2>2. {y \in Content(e) : y.first # k} = {y \in Content(t) : y.first # k}
    BY <1>1, <1>3
  <2>3. QED
    BY <2>1, <2>2
<1>12. e.size \in Nat /\ e.size = Cardinality((Content(e) \ {old[p]}) \cup {x})
  <2> DEFINE rest == Content(e) \ {old[p]}
  <2>1. IsFiniteSet(rest) /\ Cardinality(rest) = Cardinality(Content(e)) - 1
    BY <1>4, <1>5, FS_RemoveElement
  <2>2. x \notin rest
    BY <1>3, <1>10
  <2> HIDE DEF rest
  <2>3. Cardinality(rest \cup {x}) = Cardinality(rest) + 1
    BY <2>1, <2>2, FS_AddElement
  <2>4. Cardinality(Content(e)) \in Nat
    BY <1>4
  <2>5. QED
    BY <1>4, <2>1, <2>3, <2>4 DEF rest
<1>13. Ordered(r) /\ Content(r) = (Content(e) \ Elems(old)) \cup Elems(c)
  <2>1. \A y \in Elems(c) : Index(e, y.first) = b
    <3>1. Index(e, x.first) = b
      BY <1>3 DEF b
    <3>2. QED
      BY <1>7, <1>8, <3>1
  <2> DEFINE n == e.size
  <2>2. n \in Nat /\ n = Cardinality(ContentWith(e, b, c)) /\ IsChain(e, b, c)
    BY <1>5, <1>8, <1>9, <1>12, <2>1 DEF old, IsChain, ContentWith
  <2>3. r = PutTable(e, b, c, n)
    BY <1>6
  <2> HIDE DEF n
  <2>4. Ordered(PutTable(e, b, c, n)) /\ Content(PutTable(e, b, c, n)) = ContentWith(e, b, c)
    BY <1>1, <2>2, ChainPut
  <2>5. QED
    BY <2>3, <2>4 DEF old, ContentWith
<1>14. QED
  BY <1>9, <1>11, <1>13 DEF r, x

\* clear empties the chains and keeps their number and the threshold.
LEMMA ClearKeeps ==
    ASSUME NEW t, Ordered(t)
    PROVE  Ordered(Clear(t)) /\ Content(Clear(t)) = {}
<1> DEFINE n == Buckets(t)
           tab == Empty(n).table
           r == Clear(t)
<1>1. t \in [table: Seq(Seq(HNode)), size: Nat, threshold: Nat] /\ n \in Nat \ {0}
  BY DEF Ordered, ChainsOf
<1>2. r = [t EXCEPT !.table = tab, !.size = 0]
  BY DEF Clear
<1> HIDE DEF n, r
<1>3. ChainsOf(tab, Empty(n)) /\ InChains(tab) = {} /\ Buckets(Empty(n)) = n
  BY <1>1, NoNodes
<1> HIDE DEF tab
<1>4. tab \in Seq(Seq(HNode)) /\ Len(tab) = n
  BY <1>3 DEF ChainsOf
<1>5. /\ r \in [table: Seq(Seq(HNode)), size: Nat, threshold: Nat]
      /\ r.table = tab /\ r.size = 0
  BY <1>1, <1>2, <1>4
<1>6. Buckets(Empty(n)) = Buckets(r)
  BY <1>3, <1>4, <1>5 DEF Buckets
<1>7. ChainsOf(r.table, r) /\ Content(r) = {}
  BY <1>3, <1>5, <1>6, SameIndex DEF Content
<1>8. QED
  BY <1>5, <1>7, FS_EmptySet DEF Ordered, r

\* Copying goes through the nodes one after the other.
LEMMA CopyFold ==
    ASSUME NEW t, Ordered(t)
    PROVE  LET nodes == Iterate(t)
           IN  \E f :
                  /\ f[0] = Clear(t)
                  /\ \A k \in 1 .. Len(nodes) : f[k] = Assign(f[k - 1], nodes[k].first, nodes[k].second)
                  /\ CopyOf(t) = f[Len(nodes)]
<1> DEFINE nodes == Iterate(t)
           n == Len(nodes)
           S == {u \in [table: Seq(Seq(HNode)), size: Nat, threshold: Nat] : Ordered(u)}
           base == Clear(t)
           F == [k \in 1 .. n |-> [u \in S |-> Assign(u, nodes[k].first, nodes[k].second)]]
<1>1. n \in Nat /\ DOMAIN nodes = 1 .. n /\ \A k \in 1 .. n : nodes[k] \in HNode
  BY IterateOrdered
<1>2. base \in S
  BY ClearKeeps DEF Ordered
<1>3. ASSUME NEW u \in S, NEW node \in HNode PROVE Assign(u, node.first, node.second) \in S
  <2>1. Ordered(u) /\ node.first \in Keys /\ node.second \in Vals \cup {DefaultVal}
    BY DEF HNode
  <2>2. Ordered(Assign(u, node.first, node.second))
    BY <2>1, AssignKeeps
  <2>3. QED
    BY <2>2 DEF Ordered
<1>4. F \in [1 .. n -> [S -> S]]
  BY <1>1, <1>3
<1>5. PICK g \in [SUBSET (1 .. n) -> S] : FoldDown(n, base, F, g)
  <2> HIDE DEF S, n, base, F
  <2>1. QED
    BY <1>1, <1>2, <1>4, FoldExists
<1> DEFINE it == CHOOSE it :
                   it = [s \in SUBSET DOMAIN nodes |->
                           IF s = {} THEN base
                           ELSE Assign(it[s \ {Max(s)}], nodes[Max(s)].first, nodes[Max(s)].second)]
<1>6. it = [s \in SUBSET DOMAIN nodes |->
              IF s = {} THEN base
              ELSE Assign(it[s \ {Max(s)}], nodes[Max(s)].first, nodes[Max(s)].second)]
  <2>1. ASSUME NEW s \in SUBSET (1 .. n), s # {}
        PROVE  F[Max(s)][g[s \ {Max(s)}]]
                 = Assign(g[s \ {Max(s)}], nodes[Max(s)].first, nodes[Max(s)].second)
    <3>1. Max(s) \in 1 .. n /\ s \ {Max(s)} \in SUBSET (1 .. n)
      BY <1>1, <2>1, MaxUpTo
    <3>2. g[s \ {Max(s)}] \in S
      <4> HIDE DEF S
      <4>1. QED
        BY <3>1
    <3> HIDE DEF S
    <3>3. QED
      BY <3>1, <3>2
  <2>2. g = [s \in SUBSET DOMAIN nodes |->
              IF s = {} THEN base
              ELSE Assign(g[s \ {Max(s)}], nodes[Max(s)].first, nodes[Max(s)].second)]
    <3> HIDE DEF F, S, base
    <3>1. QED
      BY <1>1, <1>5, <2>1 DEF FoldDown
  <2> HIDE DEF base
  <2>3. QED
    BY <2>2
<1>7. CopyOf(t) = it[DOMAIN nodes]
  BY Zenon DEF CopyOf, FoldLeft, MapThenFoldSet
<1> HIDE DEF it, base, nodes
<1> DEFINE f == [k \in 0 .. n |-> it[1 .. k]]
<1>8. f[0] = base /\ f[n] = it[DOMAIN nodes]
  <2>1. {} = 1 .. 0
    OBVIOUS
  <2>2. QED
    BY <1>1, <1>6, <2>1
<1>9. ASSUME NEW k \in 1 .. n PROVE f[k] = Assign(f[k - 1], nodes[k].first, nodes[k].second)
  <2>1. (1 .. k) \in SUBSET DOMAIN nodes /\ k \in Nat \ {0} /\ k - 1 \in 0 .. n /\ k \in 0 .. n
    BY <1>1
  <2>2. (1 .. k) # {} /\ Max(1 .. k) = k /\ (1 .. k) \ {k} = 1 .. (k - 1)
    BY <2>1, FirstElements
  <2> DEFINE s == 1 .. k
  <2>3. it[s] = IF s = {} THEN base
                ELSE Assign(it[s \ {Max(s)}], nodes[Max(s)].first, nodes[Max(s)].second)
    <3> HIDE DEF s
    <3>1. QED
      BY <1>6, <2>1 DEF s
  <2>4. it[1 .. k] = Assign(it[1 .. (k - 1)], nodes[k].first, nodes[k].second)
    BY <2>2, <2>3
  <2>5. QED
    BY <2>1, <2>4
<1> HIDE DEF f
<1>10. QED
  BY <1>7, <1>8, <1>9, Zenon DEF nodes, base, n

\* The copy has the nodes of the original.
LEMMA CopyKeeps ==
    ASSUME NEW t, Ordered(t)
    PROVE  Ordered(CopyOf(t)) /\ Content(CopyOf(t)) = Content(t)
<1> DEFINE nodes == Iterate(t)
           n == Len(nodes)
           First(k) == {nodes[a] : a \in 1 .. k}
<1>1. nodes \in Seq(HNode) /\ Elems(nodes) = Content(t) /\ DistinctKeys(nodes) /\ n \in Nat
  BY IterateOrdered
<1>2. PICK f : /\ f[0] = Clear(t)
               /\ \A k \in 1 .. n : f[k] = Assign(f[k - 1], nodes[k].first, nodes[k].second)
               /\ CopyOf(t) = f[n]
  BY CopyFold, Zenon
<1> HIDE DEF nodes
<1> DEFINE T == {k \in 0 .. n : Ordered(f[k]) /\ Content(f[k]) = First(k)}
<1>3. 0 \in T
  <2>1. First(0) = {} /\ 0 \in 0 .. n
    BY <1>1
  <2>2. QED
    BY <1>2, <2>1, ClearKeeps
<1>4. ASSUME NEW k \in 1 .. n, k - 1 \in T PROVE k \in T
  <2> DEFINE u == f[k - 1]
             x == nodes[k]
  <2>1. Ordered(u) /\ Content(u) = First(k - 1) /\ x \in HNode
    BY <1>1, <1>4
  <2>2. x.first \in Keys /\ x.second \in Vals \cup {DefaultVal} /\ Node(x.first, x.second) = x
    <3> HIDE DEF x
    <3>1. QED
      BY <2>1 DEF HNode, Node
  <2>3. \A y \in First(k - 1) : y.first # x.first
    <3> SUFFICES ASSUME NEW a \in 1 .. (k - 1) PROVE nodes[a].first # nodes[k].first
      OBVIOUS
    <3>1. a \in 1 .. n /\ k \in 1 .. n /\ a # k
      BY <1>1
    <3>2. QED
      BY <1>1, <3>1 DEF DistinctKeys
  <2>4. First(k) = First(k - 1) \cup {x}
    <3>1. 1 .. k = (1 .. (k - 1)) \cup {k}
      BY <1>1
    <3>2. QED
      BY <3>1
  <2>5. f[k] = Assign(u, x.first, x.second)
    BY <1>2
  <2> HIDE DEF u, x, First
  <2>6. Ordered(f[k]) /\ Content(f[k]) = {y \in Content(u) : y.first # x.first} \cup {x}
    BY <2>1, <2>2, <2>5, AssignKeeps
  <2>7. Content(f[k]) = First(k) /\ k \in 0 .. n
    BY <1>1, <2>1, <2>3, <2>4, <2>6
  <2>8. QED
    BY <2>6, <2>7
<1>5. \A k \in 0 .. n : k \in T
  <2> HIDE DEF T, n
  <2>1. QED
    BY <1>1, <1>3, <1>4, StepByStep
<1>6. QED
  <2>1. n \in T
    BY <1>1, <1>5
  <2>2. First(n) = Elems(nodes)
    BY DEF Elems
  <2>3. QED
    BY <1>1, <1>2, <2>1, <2>2

MapNodes == {Node(k, hMap[k]) : k \in DOMAIN hMap}

\* The table is in order and its nodes are the pairs of the map.
HashKeeps ==
    /\ Ordered(h) /\ Content(h) = MapNodes
    /\ DOMAIN hMap \subseteq Keys
    /\ \A k \in DOMAIN hMap : hMap[k] \in Vals \cup {DefaultVal}

\* The table t, with the node of the key g too, counts one node fewer.
Haunted(t, g, w) ==
    /\ Ordered(t) /\ Content(t) = MapNodes \cup {Node(g, w)}
    /\ h = EraseStale(t)
    /\ g \in Keys \ DOMAIN hMap /\ hGhost = {g}

HashInv ==
    \/ HashKeeps /\ hGhost = {}
    \/ \E t, g, w : Haunted(t, g, w)

\* The keys of the nodes.
LEMMA MapKeys ==
    /\ \A k \in DOMAIN hMap : Node(k, hMap[k]) \in MapNodes
    /\ \A x \in MapNodes : x.first \in DOMAIN hMap /\ x = Node(x.first, hMap[x.first])
    /\ \A k, w : Node(k, w).first = k
  BY DEF MapNodes, Node

\* What a binding does to the nodes.
LEMMA BindNodes ==
    ASSUME NEW k \in Keys, NEW w \in Vals \cup {DefaultVal}, HashKeeps, hMap' = Bind(k, w)
    PROVE  /\ MapNodes' = {x \in MapNodes : x.first # k} \cup {Node(k, w)}
           /\ DOMAIN hMap' \subseteq Keys
           /\ \A j \in DOMAIN hMap' : hMap'[j] \in Vals \cup {DefaultVal}
<1>1. /\ DOMAIN hMap' = DOMAIN hMap \cup {k}
      /\ \A j \in DOMAIN hMap \cup {k} : hMap'[j] = IF j = k THEN w ELSE hMap[j]
  BY DEF Bind
<1>2. MapNodes' = {Node(j, hMap'[j]) : j \in DOMAIN hMap \cup {k}}
  BY <1>1 DEF MapNodes, Node
<1>3. ASSUME NEW x \in MapNodes' PROVE x \in {y \in MapNodes : y.first # k} \cup {Node(k, w)}
  <2>1. PICK j \in DOMAIN hMap \cup {k} : x = Node(j, hMap'[j])
    BY <1>2
  <2>2. CASE j = k
    BY <1>1, <2>1, <2>2
  <2>3. CASE j # k
    BY <1>1, <2>1, <2>3, MapKeys
  <2>4. QED
    BY <2>2, <2>3
<1>4. ASSUME NEW x \in {y \in MapNodes : y.first # k} PROVE x \in MapNodes'
  BY <1>1, <1>2, MapKeys
<1>5. Node(k, w) \in MapNodes'
  BY <1>1, <1>2
<1>6. QED
  BY <1>1, <1>3, <1>4, <1>5 DEF HashKeeps

\* A key is found if it is in the map.
LEMMA FoundKeys ==
    ASSUME HashKeeps, NEW k \in Keys
    PROVE  (Find(h, k) # 0) <=> (k \in DOMAIN hMap)
<1>1. ChainsOf(h.table, h)
  BY DEF HashKeeps, Ordered
<1>2. (Find(h, k) # 0) <=> \E x \in Content(h) : x.first = k
  BY <1>1, FindNode
<1>3. QED
  BY <1>2, MapKeys DEF HashKeeps

\* Every operation keeps the table what the map is.
THEOREM HashInvariant == HashSpec => []HashInv
<1>1. HashInit => HashInv
  <2> SUFFICES ASSUME HashInit PROVE HashInv
    OBVIOUS
  <2> DEFINE n == InitBuckets
  <2>1. n \in Nat \ {0}
    BY HashAssumption
  <2>2. h = Empty(n) /\ hMap = <<>> /\ hGhost = {}
    BY DEF HashInit
  <2> HIDE DEF n
  <2>3. Ordered(h) /\ Content(h) = {}
    BY <2>1, <2>2, NoNodes, FS_EmptySet DEF Ordered, Content
  <2>4. DOMAIN hMap = {}
    BY <2>2
  <2>5. QED
    BY <2>2, <2>3, <2>4 DEF HashInv, HashKeeps, MapNodes
<1>2. ASSUME hGhost = {}, HashKeeps, HashNext, ~HashEraseStale PROVE HashKeeps'
  <2>1. /\ Ordered(h) /\ Content(h) = MapNodes /\ DOMAIN hMap \subseteq Keys
        /\ \A k \in DOMAIN hMap : hMap[k] \in Vals \cup {DefaultVal}
    BY <1>2 DEF HashKeeps
  <2>2. ASSUME hMap' = hMap PROVE MapNodes' = MapNodes
    BY <2>2 DEF MapNodes, Node
  <2>3. CASE HashAssign
    <3>1. PICK k \in Keys, w \in Vals : h' = Assign(h, k, w) /\ hMap' = Bind(k, w)
      BY <2>3 DEF HashAssign
    <3>2. Ordered(h') /\ Content(h') = {x \in Content(h) : x.first # k} \cup {Node(k, w)}
      BY <2>1, <3>1, AssignKeeps
    <3>3. QED
      BY <1>2, <2>1, <3>1, <3>2, BindNodes DEF HashKeeps
  <2>4. ASSUME NEW k \in Keys, NEW w \in Vals \cup {DefaultVal}, h' = Emplace(h, k, w),
               hMap' = IF k \in DOMAIN hMap THEN hMap ELSE Bind(k, w)
        PROVE  HashKeeps'
    <3>1. /\ Ordered(h')
          /\ Content(h') = IF \E x \in Content(h) : x.first = k THEN Content(h)
                           ELSE Content(h) \cup {Node(k, w)}
      BY <2>1, <2>4, EmplaceKeeps
    <3>2. (\E x \in Content(h) : x.first = k) <=> k \in DOMAIN hMap
      BY <2>1, MapKeys
    <3>3. CASE k \in DOMAIN hMap
      <4>1. hMap' = hMap
        BY <2>4, <3>3
      <4>2. QED
        BY <2>1, <2>2, <3>1, <3>2, <3>3, <4>1 DEF HashKeeps
    <3>4. CASE k \notin DOMAIN hMap
      <4>1. hMap' = Bind(k, w)
        BY <2>4, <3>4
      <4>2. {x \in MapNodes : x.first # k} = MapNodes
        BY <3>4, MapKeys
      <4>3. QED
        BY <1>2, <2>1, <3>1, <3>2, <3>4, <4>1, <4>2, BindNodes DEF HashKeeps
    <3>5. QED
      BY <3>3, <3>4
  <2>5. CASE HashEmplace
    BY <2>4, <2>5 DEF HashEmplace
  <2>6. CASE HashTryEmplace
    BY <2>4, <2>6 DEF HashTryEmplace
  <2>7. CASE HashAt
    BY <2>1, <2>2, <2>7, ResizeKeeps DEF HashAt, HashKeeps
  <2>8. CASE HashErase
    <3>1. PICK k \in Keys : /\ Find(h, k) # 0 /\ h' = Erase(h, k)
                            /\ hMap' = [x \in DOMAIN hMap \ {k} |-> hMap[x]]
      BY <2>8 DEF HashErase, Unbind
    <3>2. Ordered(h') /\ Content(h') = {x \in Content(h) : x.first # k}
      BY <2>1, <3>1, EraseKeeps
    <3>3. DOMAIN hMap' = DOMAIN hMap \ {k} /\ \A j \in DOMAIN hMap' : hMap'[j] = hMap[j]
      BY <3>1
    <3>4. MapNodes' = {x \in MapNodes : x.first # k}
      <4>1. MapNodes' = {Node(j, hMap[j]) : j \in DOMAIN hMap \ {k}}
        BY <3>3 DEF MapNodes, Node
      <4>2. QED
        BY <4>1, MapKeys
    <3>5. QED
      BY <2>1, <3>2, <3>3, <3>4 DEF HashKeeps
  <2>9. CASE HashClear
    <3>1. DOMAIN hMap' = {}
      BY <2>9 DEF HashClear
    <3>2. MapNodes' = {}
      BY <3>1 DEF MapNodes
    <3>3. QED
      BY <2>1, <2>9, <3>1, <3>2, ClearKeeps DEF HashClear, HashKeeps
  <2>10. CASE HashCopy
    BY <2>1, <2>2, <2>10, CopyKeeps DEF HashCopy, HashKeeps
  <2>11. QED
    BY <1>2, <2>3, <2>5, <2>6, <2>7, <2>8, <2>9, <2>10 DEF HashNext
<1>3. ASSUME HashKeeps, HashEraseStale PROVE \E t, g, w : Haunted(t, g, w)'
  <2>1. PICK k \in Keys : /\ Find(h, k) # 0 /\ h' = EraseStale(h)
                          /\ hMap' = Unbind(k) /\ hGhost' = {k}
    BY <1>3 DEF HashEraseStale
  <2>2. PICK t : t = h
    OBVIOUS
  <2>3. PICK w : w = hMap[k]
    OBVIOUS
  <2>4. k \in DOMAIN hMap
    BY <1>3, <2>1, FoundKeys
  <2>5. DOMAIN hMap' = DOMAIN hMap \ {k} /\ \A j \in DOMAIN hMap' : hMap'[j] = hMap[j]
    BY <2>1 DEF Unbind
  <2>6. MapNodes' = {Node(j, hMap[j]) : j \in DOMAIN hMap \ {k}}
    BY <2>5 DEF MapNodes, Node
  <2>7. MapNodes = MapNodes' \cup {Node(k, w)}
    BY <2>3, <2>4, <2>6 DEF MapNodes
  <2>8. Ordered(t) /\ Content(t) = MapNodes
    BY <1>3, <2>2 DEF HashKeeps
  <2>9. h' = EraseStale(t)
    BY <2>1, <2>2
  <2>10. k \in Keys \ DOMAIN hMap'
    BY <2>5
  <2>11. Haunted(t, k, w)'
    BY <2>1, <2>7, <2>8, <2>9, <2>10 DEF Haunted
  <2>12. QED
    BY <2>11
<1>4. ASSUME HashInv, UNCHANGED hashVars PROVE HashInv'
  <2>1. h' = h /\ hMap' = hMap /\ hGhost' = hGhost
    BY <1>4 DEF hashVars
  <2>2. MapNodes' = MapNodes
    BY <2>1 DEF MapNodes, Node
  <2>3. HashKeeps <=> HashKeeps'
    BY <2>1, <2>2 DEF HashKeeps
  <2>4. ASSUME NEW t, NEW g, NEW w PROVE Haunted(t, g, w) <=> Haunted(t, g, w)'
    BY <2>1, <2>2 DEF Haunted
  <2>5. QED
    BY <1>4, <2>1, <2>3, <2>4 DEF HashInv
<1>5. ASSUME HashInv, HashNext PROVE HashInv'
  <2>1. hGhost = {}
    BY <1>5 DEF HashNext
  <2>2. HashKeeps
    BY <1>5, <2>1 DEF HashInv, Haunted
  <2>3. CASE HashEraseStale
    BY <1>3, <2>2, <2>3 DEF HashInv
  <2>4. CASE ~HashEraseStale
    <3>1. hGhost' = {}
      BY <1>5, <2>1, <2>4 DEF HashNext, HashAssign, HashEmplace, HashTryEmplace, HashAt,
                              HashErase, HashClear, HashCopy
    <3>2. HashKeeps'
      BY <1>2, <1>5, <2>1, <2>2, <2>4
    <3>3. QED
      BY <3>1, <3>2 DEF HashInv
  <2>5. QED
    BY <2>3, <2>4
<1>6. QED
  BY <1>1, <1>4, <1>5, PTL DEF HashSpec

\* HashIsMap: however calls and doublings follow each other, find finds the
\* keys of the map and no others, iteration meets each of them once with its
\* value, and size counts them; but a key erased through an iterator whose
\* _prev was erased, such as the one erase returns, is still found and met.
THEOREM HashHoldsMap == HashSpec => []HashIsMap
<1>1. ASSUME HashKeeps, hGhost = {} PROVE HashIsMap
  <2> DEFINE nodes == Iterate(h)
  <2>1. /\ nodes \in Seq(HNode) /\ Elems(nodes) = MapNodes
        /\ DistinctKeys(nodes) /\ h.size = Len(nodes)
    BY <1>1, IterateOrdered DEF HashKeeps
  <2> HIDE DEF nodes
  <2>2. DOMAIN nodes = 1 .. Len(nodes)
    BY <2>1
  <2>3. \A a, b \in DOMAIN nodes : nodes[a].first = nodes[b].first => a = b
    BY <2>1, <2>2 DEF DistinctKeys
  <2>4. {b \in DOMAIN nodes : nodes[b].first \notin hGhost} = 1 .. Len(nodes)
    BY <1>1, <2>2
  <2>5. {nodes[a] : a \in {b \in DOMAIN nodes : nodes[b].first \notin hGhost}}
          = {Node(k, hMap[k]) : k \in DOMAIN hMap}
    BY <2>1, <2>4 DEF Elems, MapNodes
  <2>6. \A k \in Keys : (Find(h, k) # 0) <=> (k \in DOMAIN hMap \cup hGhost)
    BY <1>1, FoundKeys
  <2>7. h.size = Len(nodes) - (IF hGhost = {} THEN 0 ELSE 1)
    BY <1>1, <2>1
  <2>8. QED
    BY <2>3, <2>5, <2>6, <2>7 DEF HashIsMap, nodes
<1>2. ASSUME NEW t, NEW g, NEW w, Haunted(t, g, w) PROVE HashIsMap
  <2> DEFINE nodes == Iterate(h)
  <2>1. /\ Ordered(t) /\ Content(t) = MapNodes \cup {Node(g, w)}
        /\ g \in Keys /\ g \notin DOMAIN hMap /\ hGhost = {g}
    BY <1>2 DEF Haunted
  <2>2. ChainsOf(t.table, t)
    BY <2>1 DEF Ordered
  <2>3. h.table = t.table /\ h.size = t.size - 1
    BY <1>2, <2>1 DEF Haunted, EraseStale, Ordered
  <2>4. nodes = Iterate(t)
    BY <2>3 DEF Iterate
  <2>5. /\ nodes \in Seq(HNode) /\ Elems(nodes) = MapNodes \cup {Node(g, w)}
        /\ DistinctKeys(nodes) /\ t.size = Len(nodes)
    BY <2>1, <2>4, IterateOrdered
  <2> HIDE DEF nodes
  <2>6. DOMAIN nodes = 1 .. Len(nodes)
    BY <2>5
  <2>7. \A a, b \in DOMAIN nodes : nodes[a].first = nodes[b].first => a = b
    BY <2>5, <2>6 DEF DistinctKeys
  <2>8. {nodes[a] : a \in {b \in DOMAIN nodes : nodes[b].first \notin hGhost}}
          = {Node(k, hMap[k]) : k \in DOMAIN hMap}
    <3>1. {nodes[a] : a \in {b \in DOMAIN nodes : nodes[b].first \notin hGhost}}
            = {x \in MapNodes \cup {Node(g, w)} : x.first # g}
      BY <2>1, <2>5, <2>6 DEF Elems
    <3>2. {x \in MapNodes \cup {Node(g, w)} : x.first # g} = MapNodes
      BY <2>1, MapKeys
    <3>3. QED
      BY <3>1, <3>2 DEF MapNodes
  <2>9. ASSUME NEW k \in Keys PROVE (Find(h, k) # 0) <=> (k \in DOMAIN hMap \cup hGhost)
    <3>1. Find(h, k) = Find(t, k)
      BY <2>3 DEF Find, Index, Buckets
    <3>2. (Find(t, k) # 0) <=> \E x \in Content(t) : x.first = k
      BY <2>2, FindNode
    <3>3. QED
      BY <2>1, <3>1, <3>2, MapKeys
  <2>10. h.size = Len(nodes) - (IF hGhost = {} THEN 0 ELSE 1)
    BY <2>1, <2>3, <2>5
  <2>11. QED
    BY <2>7, <2>8, <2>9, <2>10 DEF HashIsMap, nodes
<1>3. HashInv => HashIsMap
  BY <1>1, <1>2 DEF HashInv
<1>4. QED
  BY <1>3, HashInvariant, PTL

-----------------------------------------------------------------------------
\* Sequences.

\* r is s with x put in at p.
Inserted(S, r, s, p, x) ==
    /\ r \in Seq(S) /\ Len(r) = Len(s) + 1
    /\ \A k \in 1 .. Len(s) + 1 : r[k] = IF k < p THEN s[k] ELSE IF k = p THEN x ELSE s[k - 1]

LEMMA InsertAtIs ==
    ASSUME NEW S, NEW s \in Seq(S), NEW p \in 1 .. Len(s) + 1, NEW x \in S
    PROVE  Inserted(S, InsertAt(s, p, x), s, p, x)
<1> DEFINE n == Len(s)
           a == SubSeq(s, 1, p - 1)
           o == <<x>>
           b == SubSeq(s, p, n)
           r == InsertAt(s, p, x)
<1>1. n \in Nat /\ p \in Int /\ 1 <= p /\ p <= n + 1 /\ \A k \in 1 .. n : s[k] \in S
  OBVIOUS
<1>2. a \in Seq(S) /\ Len(a) = p - 1 /\ \A k \in 1 .. p - 1 : a[k] = s[k]
  <2>1. \A k \in 1 .. p - 1 : s[k] \in S
    BY <1>1
  <2>2. QED
    BY <1>1, <2>1, SubSeqProperties
<1>3. b \in Seq(S) /\ Len(b) = n - p + 1 /\ \A k \in 1 .. n - p + 1 : b[k] = s[p + k - 1]
  <2>1. \A k \in p .. n : s[k] \in S
    BY <1>1
  <2>2. /\ b \in Seq(S) /\ Len(b) = (IF p <= n THEN n - p + 1 ELSE 0)
        /\ \A k \in 1 .. n - p + 1 : b[k] = s[p + k - 1]
    BY <1>1, <2>1, SubSeqProperties
  <2>3. QED
    BY <1>1, <2>2
<1>4. o \in Seq(S) /\ Len(o) = 1 /\ o[1] = x
  OBVIOUS
<1>5. r = (a \o o) \o b
  BY DEF InsertAt
<1> HIDE DEF a, o, b, r
<1> DEFINE c == a \o o
<1>6. c \in Seq(S) /\ Len(c) = p /\ \A k \in 1 .. p : c[k] = IF k < p THEN s[k] ELSE x
  <2>1. /\ c \in Seq(S) /\ Len(c) = Len(a) + Len(o)
        /\ \A k \in 1 .. Len(a) + Len(o) : c[k] = IF k <= Len(a) THEN a[k] ELSE o[k - Len(a)]
    BY <1>2, <1>4, ConcatProperties
  <2> HIDE DEF c
  <2>2. Len(c) = p
    BY <1>1, <1>2, <1>4, <2>1
  <2>3. ASSUME NEW k \in 1 .. p PROVE c[k] = IF k < p THEN s[k] ELSE x
    <3>1. CASE k < p
      <4>1. k \in 1 .. p - 1 /\ k \in 1 .. Len(a) + Len(o) /\ k <= Len(a)
        BY <1>1, <1>2, <1>4, <3>1
      <4>2. QED
        BY <1>2, <2>1, <3>1, <4>1
    <3>2. CASE k = p
      <4>1. k \in 1 .. Len(a) + Len(o) /\ ~(k <= Len(a)) /\ k - Len(a) = 1
        BY <1>1, <1>2, <1>4, <3>2
      <4>2. c[k] = o[k - Len(a)]
        BY <2>1, <4>1
      <4>3. QED
        BY <1>1, <1>4, <3>2, <4>1, <4>2
    <3>3. QED
      BY <1>1, <3>1, <3>2
  <2>4. QED
    BY <2>1, <2>2, <2>3
<1>7. /\ r \in Seq(S) /\ Len(r) = Len(c) + Len(b)
      /\ \A k \in 1 .. Len(c) + Len(b) : r[k] = IF k <= Len(c) THEN c[k] ELSE b[k - Len(c)]
  <2> HIDE DEF c
  <2>1. r = c \o b
    BY <1>5 DEF c
  <2>2. QED
    BY <1>3, <1>6, <2>1, ConcatProperties
<1> HIDE DEF c
<1>8. Len(r) = n + 1 /\ Len(c) + Len(b) = n + 1
  BY <1>1, <1>3, <1>6, <1>7
<1>9. ASSUME NEW k \in 1 .. n + 1
      PROVE  r[k] = IF k < p THEN s[k] ELSE IF k = p THEN x ELSE s[k - 1]
  <2>1. CASE k <= p
    <3>1. k \in 1 .. p /\ k <= Len(c)
      BY <1>1, <1>6, <2>1
    <3>2. r[k] = c[k]
      BY <1>7, <1>8, <3>1
    <3>3. QED
      BY <1>1, <1>6, <2>1, <3>1, <3>2
  <2>2. CASE k > p
    <3>1. ~(k <= Len(c)) /\ k - p \in 1 .. n - p + 1 /\ p + (k - p) - 1 = k - 1 /\ Len(c) = p
      BY <1>1, <1>6, <2>2
    <3>2. r[k] = b[k - p]
      BY <1>7, <1>8, <3>1
    <3>3. b[k - p] = s[k - 1]
      BY <1>3, <3>1
    <3>4. QED
      BY <1>1, <2>2, <3>2, <3>3
  <2>3. QED
    BY <1>1, <2>1, <2>2
<1>10. QED
  BY <1>7, <1>8, <1>9 DEF r, Inserted

\* r is s with the element at p taken out.
Removed(S, r, s, p) ==
    /\ r \in Seq(S) /\ Len(r) = Len(s) - 1
    /\ \A k \in 1 .. Len(s) - 1 : r[k] = IF k < p THEN s[k] ELSE s[k + 1]

LEMMA RemoveAtIs ==
    ASSUME NEW S, NEW s \in Seq(S), NEW p \in 1 .. Len(s)
    PROVE  Removed(S, RemoveAt(s, p), s, p)
<1> DEFINE n == Len(s)
           a == SubSeq(s, 1, p - 1)
           b == SubSeq(s, p + 1, n)
           r == RemoveAt(s, p)
<1>1. n \in Nat /\ p \in Int /\ 1 <= p /\ p <= n /\ \A k \in 1 .. n : s[k] \in S
  OBVIOUS
<1>2. a \in Seq(S) /\ Len(a) = p - 1 /\ \A k \in 1 .. p - 1 : a[k] = s[k]
  <2>1. \A k \in 1 .. p - 1 : s[k] \in S
    BY <1>1
  <2>2. QED
    BY <1>1, <2>1, SubSeqProperties
<1>3. b \in Seq(S) /\ Len(b) = n - p /\ \A k \in 1 .. n - p : b[k] = s[p + k]
  <2>1. \A k \in p + 1 .. n : s[k] \in S
    BY <1>1
  <2>2. /\ b \in Seq(S) /\ Len(b) = (IF p + 1 <= n THEN n - (p + 1) + 1 ELSE 0)
        /\ \A k \in 1 .. n - (p + 1) + 1 : b[k] = s[(p + 1) + k - 1]
    BY <1>1, <2>1, SubSeqProperties
  <2>3. QED
    BY <1>1, <2>2
<1>4. r = a \o b
  BY DEF RemoveAt
<1> HIDE DEF a, b, r
<1>5. /\ r \in Seq(S) /\ Len(r) = Len(a) + Len(b)
      /\ \A k \in 1 .. Len(a) + Len(b) : r[k] = IF k <= Len(a) THEN a[k] ELSE b[k - Len(a)]
  BY <1>2, <1>3, <1>4, ConcatProperties
<1>6. Len(r) = n - 1 /\ Len(a) + Len(b) = n - 1
  BY <1>1, <1>2, <1>3, <1>5
<1>7. ASSUME NEW k \in 1 .. n - 1 PROVE r[k] = IF k < p THEN s[k] ELSE s[k + 1]
  <2>1. CASE k < p
    <3>1. k \in 1 .. p - 1 /\ k <= Len(a)
      BY <1>1, <1>2, <2>1
    <3>2. r[k] = a[k]
      BY <1>5, <1>6, <3>1
    <3>3. QED
      BY <1>2, <2>1, <3>1, <3>2
  <2>2. CASE ~(k < p)
    <3>1. ~(k <= Len(a)) /\ Len(a) = p - 1 /\ k - (p - 1) \in 1 .. n - p /\ p + (k - (p - 1)) = k + 1
      BY <1>1, <1>2, <2>2
    <3>2. r[k] = b[k - (p - 1)]
      BY <1>5, <1>6, <3>1
    <3>3. b[k - (p - 1)] = s[k + 1]
      BY <1>3, <3>1
    <3>4. QED
      BY <2>2, <3>2, <3>3
  <2>3. QED
    BY <2>1, <2>2
<1>8. QED
  BY <1>5, <1>6, <1>7 DEF r, Removed

-----------------------------------------------------------------------------
\* The growing array.

VElem == VElems \cup {Zero, Undef}

Cells(n, s, d) == [size |-> n, array |-> s, wild |-> d]

LEMMA CellsFields ==
    ASSUME NEW n, NEW s, NEW d
    PROVE  LET a == Cells(n, s, d)
           IN  /\ a.size = n /\ a.array = s /\ a.wild = d /\ Capacity(a) = Len(s)
               /\ \A m : [a EXCEPT !.size = m] = Cells(m, s, d)
               /\ \A m : [a EXCEPT !.array = m] = Cells(n, m, d)
               /\ \A m : [a EXCEPT !.wild = m] = Cells(n, s, m)
  BY DEF Cells, Capacity

\* realloc keeps the old elements.
Reallocated(s, m) == [k \in 1 .. m |-> IF k <= Len(s) THEN s[k] ELSE Undef]

LEMMA ReallocIs ==
    ASSUME NEW d, NEW n, NEW s \in Seq(VElem), NEW m
    PROVE  Realloc(Cells(n, s, d), m) = Cells(n, Reallocated(s, m), d)
<1>1. Realloc(Cells(n, s, d), m) = [Cells(n, s, d) EXCEPT !.array = Reallocated(s, m)]
  BY DEF Realloc, Reallocated, Cells
<1> DEFINE r == Reallocated(s, m)
<1> HIDE DEF r
<1>2. [Cells(n, s, d) EXCEPT !.array = r] = Cells(n, r, d)
  BY DEF Cells
<1>3. QED
  BY <1>1, <1>2 DEF r

\* The array after a growth to psize elements.
GrownArray(s, n, psize) ==
    IF psize > n /\ psize > Len(s)
    THEN Reallocated(s, 2 * psize) ELSE s

LEMMA GrownArrayIs ==
    ASSUME NEW s \in Seq(VElem), NEW n \in Nat, n <= Len(s), NEW psize \in Nat
    PROVE  LET r == GrownArray(s, n, psize)
           IN  /\ r \in Seq(VElem) /\ psize <= Len(r) /\ Len(s) <= Len(r)
               /\ \A k \in 1 .. Len(s) : r[k] = s[k]
<1> DEFINE r == GrownArray(s, n, psize)
           u == [k \in 1 .. 2 * psize |-> IF k <= Len(s) THEN s[k] ELSE Undef]
<1>1. CASE psize > n /\ psize > Len(s)
  <2>1. r = u
    BY <1>1 DEF GrownArray, Reallocated
  <2>2. \A k \in 1 .. 2 * psize : (IF k <= Len(s) THEN s[k] ELSE Undef) \in VElem
    BY DEF VElem
  <2>3. 2 * psize \in Nat /\ u \in Seq(VElem) /\ Len(u) = 2 * psize
    BY <2>2
  <2>4. Len(s) \in Nat /\ psize <= 2 * psize /\ Len(s) <= 2 * psize
    BY <1>1
  <2>5. QED
    BY <2>1, <2>3, <2>4
<1>2. CASE ~(psize > n /\ psize > Len(s))
  BY <1>2 DEF GrownArray
<1>3. QED
  BY <1>1, <1>2

LEMMA VResizeIs ==
    ASSUME NEW d, NEW s \in Seq(VElem), NEW n \in Nat, NEW psize \in Nat
    PROVE  VResize(Cells(n, s, d), psize) = Cells(psize, GrownArray(s, n, psize), d)
<1> DEFINE a == Cells(n, s, d)
           b == IF psize > n /\ psize > Len(s) THEN Realloc(a, 2 * psize) ELSE a
<1>1. VResize(a, psize) = [b EXCEPT !.size = psize]
  BY DEF VResize, Cells, Capacity
<1>2. b = Cells(n, GrownArray(s, n, psize), d)
  BY ReallocIs, Zenon DEF GrownArray
<1> DEFINE r == GrownArray(s, n, psize)
<1> HIDE DEF b, r
<1>3. [b EXCEPT !.size = psize] = Cells(psize, r, d)
  BY <1>2 DEF Cells, r
<1>4. QED
  BY <1>1, <1>3 DEF r

Put(s, index, x) == [s EXCEPT ![index + 1] = x]

LEMMA SetIs ==
    ASSUME NEW d, NEW n, NEW s \in Seq(VElem), NEW index \in Nat, index < Len(s), NEW x \in VElem
    PROVE  Set(Cells(n, s, d), index, x) = Cells(n, Put(s, index, x), d)
  BY DEF Set, Cells, Capacity, Put

LEMMA PutIs ==
    ASSUME NEW s \in Seq(VElem), NEW index \in Nat, index < Len(s), NEW x \in VElem
    PROVE  /\ Put(s, index, x) \in Seq(VElem) /\ Len(Put(s, index, x)) = Len(s)
           /\ \A k \in 1 .. Len(s) : Put(s, index, x)[k] = IF k = index + 1 THEN x ELSE s[k]
<1>1. index + 1 \in 1 .. Len(s)
  OBVIOUS
<1>2. QED
  BY <1>1, ExceptSeq DEF Put

LEMMA PushItemIs ==
    ASSUME NEW d, NEW s \in Seq(VElem), Len(s) > 0, NEW n \in Nat, n <= Len(s), NEW x \in VElem
    PROVE  \E r \in Seq(VElem) :
              /\ PushItem(Cells(n, s, d), x) = Cells(n + 1, r, d)
              /\ n + 1 <= Len(r) /\ r[n + 1] = x /\ \A k \in 1 .. n : r[k] = s[k]
<1> DEFINE u == Reallocated(s, 2 * Len(s))
           w == IF n >= Len(s) THEN u ELSE s
           r == Put(w, n, x)
<1>1. \A k \in 1 .. 2 * Len(s) : (IF k <= Len(s) THEN s[k] ELSE Undef) \in VElem
  BY DEF VElem
<1>2. /\ 2 * Len(s) \in Nat /\ u \in Seq(VElem) /\ Len(u) = 2 * Len(s)
      /\ \A k \in 1 .. 2 * Len(s) : u[k] = IF k <= Len(s) THEN s[k] ELSE Undef
  BY <1>1 DEF Reallocated
<1> HIDE DEF u
<1>3. w \in Seq(VElem) /\ n < Len(w) /\ \A k \in 1 .. Len(s) : w[k] = s[k]
  <2>1. n \in Nat /\ Len(s) \in Nat /\ Len(s) > 0 /\ n <= Len(s)
    OBVIOUS
  <2>2. CASE n >= Len(s)
    <3>1. n < 2 * Len(s)
      BY <2>1, <2>2
    <3>2. QED
      BY <1>2, <2>1, <2>2, <3>1
  <2>3. CASE ~(n >= Len(s))
    BY <2>1, <2>3
  <2>4. QED
    BY <2>2, <2>3
<1>4. PushItem(Cells(n, s, d), x) = Set(Cells(n + 1, w, d), n, x)
  <2> DEFINE a == Cells(n, s, d)
             b == IF n >= Len(s) THEN Realloc(a, 2 * Len(s)) ELSE a
  <2>1. PushItem(a, x) = Set([b EXCEPT !.size = @ + 1], n, x)
    BY DEF PushItem, Cells, Capacity
  <2>2. b = Cells(n, w, d)
    BY ReallocIs, Zenon DEF u
  <2> HIDE DEF b, w
  <2>3. [b EXCEPT !.size = @ + 1] = Cells(n + 1, w, d)
    BY <2>2 DEF Cells
  <2>4. QED
    BY <2>1, <2>3
<1> HIDE DEF w
<1>5. /\ Set(Cells(n + 1, w, d), n, x) = Cells(n + 1, r, d)
      /\ r \in Seq(VElem) /\ Len(r) = Len(w)
      /\ \A k \in 1 .. Len(w) : r[k] = IF k = n + 1 THEN x ELSE w[k]
  <2> DEFINE m == n + 1
  <2> HIDE DEF m
  <2>1. w \in Seq(VElem) /\ n \in Nat /\ n < Len(w) /\ x \in VElem
    BY <1>3
  <2>2. Set(Cells(m, w, d), n, x) = Cells(m, Put(w, n, x), d)
    BY <2>1, SetIs
  <2>3. QED
    BY <2>1, <2>2, PutIs DEF m
<1> HIDE DEF r
<1>6. n + 1 <= Len(r) /\ r[n + 1] = x /\ \A k \in 1 .. n : r[k] = s[k]
  <2>1. n + 1 \in 1 .. Len(w) /\ Len(w) \in Nat
    BY <1>3
  <2>2. ASSUME NEW k \in 1 .. n PROVE r[k] = s[k]
    <3>1. k \in 1 .. Len(w) /\ k # n + 1 /\ k \in 1 .. Len(s)
      BY <2>1
    <3>2. QED
      BY <1>3, <1>5, <3>1
  <2>3. QED
    BY <1>5, <2>1, <2>2
<1>7. QED
  BY <1>4, <1>5, <1>6

\* Without capacity there is no room after doubling it either.
LEMMA PushWild ==
    ASSUME NEW d, NEW s \in Seq(VElem), Len(s) = 0, NEW x
    PROVE  /\ PushItem(Cells(0, s, d), x) = Cells(1, Reallocated(s, 0), TRUE)
           /\ Len(Reallocated(s, 0)) = 0
<1> DEFINE a == Cells(0, s, d)
           r == Reallocated(s, 0)
<1>1. Len(r) = 0
  BY DEF Reallocated
<1>2. Realloc(a, 0) = Cells(0, r, d)
  BY ReallocIs
<1> DEFINE b == [Realloc(a, 0) EXCEPT !.size = @ + 1]
<1>3. PushItem(a, x) = Set(b, 0, x)
  BY DEF PushItem, Cells, Capacity
<1> HIDE DEF r
<1>4. b = Cells(1, r, d)
  BY <1>2 DEF Cells
<1> HIDE DEF b
<1>5. Set(Cells(1, r, d), 0, x) = Cells(1, r, TRUE)
  <2>1. Capacity(Cells(1, r, d)) = 0
    BY <1>1, CellsFields
  <2>2. ~(0 < Capacity(Cells(1, r, d)))
    BY <2>1
  <2>3. [Cells(1, r, d) EXCEPT !.wild = TRUE] = Cells(1, r, TRUE)
    <3> DEFINE Wild(c) == [Cells(1, r, d) EXCEPT !.wild = c]
    <3>1. \A c : Wild(c) = Cells(1, r, c)
      BY CellsFields
    <3> HIDE DEF Wild
    <3>2. Wild(TRUE) = Cells(1, r, TRUE)
      BY <3>1, Zenon
    <3>3. QED
      BY <3>2, Zenon DEF Wild
  <2>4. QED
    BY <2>2, <2>3, Zenon DEF Set
<1>6. PushItem(a, x) = Cells(1, r, TRUE)
  BY <1>3, <1>4, <1>5
<1>7. QED
  BY <1>1, <1>6 DEF r

InsertSteps(f, a, size, index, x) ==
    /\ f[0] = VResize(a, a.size + 1)
    /\ \A j \in 1 .. (size - 1) - index : f[j] = Set(f[j - 1], size - j, f[j - 1].array[size - j])
    /\ InsertElem(a, index, x) = Set(f[(size - 1) - index], index, x)

\* Making room for an element goes from the last place down.
LEMMA InsertFold ==
    ASSUME NEW d, NEW a, NEW size \in Nat, NEW s \in Seq(VElem), size <= Len(s),
           NEW index \in 0 .. size - 1, NEW x, VResize(a, a.size + 1) = Cells(size, s, d)
    PROVE  \E f : InsertSteps(f, a, size, index, x)
<1> DEFINE base == VResize(a, a.size + 1)
           n == (size - 1) - index
           steps == [j \in 1 .. base.size - 1 - index |-> base.size - j]
           A == {q \in Seq(VElem) : Len(q) = Len(s)}
           S == {Cells(size, u, d) : u \in A}
           F == [j \in 1 .. n |-> [c \in S |-> Set(c, steps[j], c.array[steps[j]])]]
<1>1. n \in Nat /\ size \in Nat /\ index \in Nat /\ n = (size - 1) - index /\ Len(s) \in Nat /\ base.size = size
  BY CellsFields
<1>2. DOMAIN steps = 1 .. n /\ \A j \in 1 .. n : steps[j] = size - j
  <2> HIDE DEF base
  <2>1. QED
    BY <1>1
<1> HIDE DEF steps
<1>3. base \in S
  OBVIOUS
<1>4. F \in [1 .. n -> [S -> S]]
  <2> SUFFICES ASSUME NEW j \in 1 .. n, NEW c \in S PROVE Set(c, steps[j], c.array[steps[j]]) \in S
    OBVIOUS
  <2>1. PICK u \in Seq(VElem) : Len(u) = Len(s) /\ c = Cells(size, u, d)
    OBVIOUS
  <2> DEFINE i == steps[j]
             y == u[i]
  <2>2. i \in Nat /\ i < Len(u) /\ i \in 1 .. Len(u)
    BY <1>1, <1>2, <2>1
  <2>3. y \in VElem
    BY <2>2
  <2>4. c.array = u
    BY <2>1, CellsFields
  <2> HIDE DEF i, y
  <2>5. Set(c, i, y) = Cells(size, Put(u, i, y), d)
    BY <2>1, <2>2, <2>3, SetIs
  <2>6. Put(u, i, y) \in A
    BY <2>1, <2>2, <2>3, PutIs
  <2> HIDE DEF A
  <2>7. QED
    BY <2>4, <2>5, <2>6 DEF i, y
<1>5. PICK g \in [SUBSET (1 .. n) -> S] : FoldDown(n, base, F, g)
  <2> HIDE DEF S, n, base, F
  <2>1. QED
    BY <1>1, <1>3, <1>4, FoldExists, ZenonT(30)
<1> HIDE DEF S
<1> DEFINE it == CHOOSE it :
                   it = [z \in SUBSET DOMAIN steps |->
                           IF z = {} THEN base
                           ELSE Set(it[z \ {Max(z)}], steps[Max(z)], it[z \ {Max(z)}].array[steps[Max(z)]])]
<1>6. it = [z \in SUBSET DOMAIN steps |->
              IF z = {} THEN base
              ELSE Set(it[z \ {Max(z)}], steps[Max(z)], it[z \ {Max(z)}].array[steps[Max(z)]])]
  <2>1. ASSUME NEW z \in SUBSET (1 .. n), z # {}
        PROVE  F[Max(z)][g[z \ {Max(z)}]]
                 = Set(g[z \ {Max(z)}], steps[Max(z)], g[z \ {Max(z)}].array[steps[Max(z)]])
    <3>1. Max(z) \in 1 .. n /\ z \ {Max(z)} \in SUBSET (1 .. n)
      BY <1>1, <2>1, MaxUpTo
    <3>2. g[z \ {Max(z)}] \in S
      BY <3>1
    <3>3. QED
      BY <3>1, <3>2
  <2>2. g = [z \in SUBSET DOMAIN steps |->
              IF z = {} THEN base
              ELSE Set(g[z \ {Max(z)}], steps[Max(z)], g[z \ {Max(z)}].array[steps[Max(z)]])]
    <3> HIDE DEF F, base
    <3>1. QED
      BY <1>2, <1>5, <2>1 DEF FoldDown
  <2> HIDE DEF base
  <2>3. QED
    BY <2>2
<1>7. InsertElem(a, index, x) = Set(it[DOMAIN steps], index, x)
  BY Zenon DEF InsertElem, FoldLeft, MapThenFoldSet, steps
<1> HIDE DEF it, base
<1> DEFINE f == [k \in 0 .. n |-> it[1 .. k]]
<1>8. f[0] = base /\ f[n] = it[DOMAIN steps]
  <2>1. {} = 1 .. 0
    OBVIOUS
  <2>2. it[{}] = base
    BY <1>6
  <2>3. QED
    BY <1>1, <1>2, <2>1, <2>2
<1>9. ASSUME NEW k \in 1 .. n PROVE f[k] = Set(f[k - 1], steps[k], f[k - 1].array[steps[k]])
  <2>1. (1 .. k) \in SUBSET DOMAIN steps /\ k \in Nat \ {0} /\ k - 1 \in 0 .. n /\ k \in 0 .. n
    BY <1>1, <1>2
  <2>2. (1 .. k) # {} /\ Max(1 .. k) = k /\ (1 .. k) \ {k} = 1 .. (k - 1)
    BY <2>1, FirstElements
  <2> DEFINE z == 1 .. k
  <2>3. it[z] = IF z = {} THEN base
                ELSE Set(it[z \ {Max(z)}], steps[Max(z)], it[z \ {Max(z)}].array[steps[Max(z)]])
    <3> HIDE DEF z
    <3>1. QED
      BY <1>6, <2>1 DEF z
  <2>4. it[1 .. k] = Set(it[1 .. (k - 1)], steps[k], it[1 .. (k - 1)].array[steps[k]])
    BY <2>2, <2>3
  <2>5. QED
    BY <2>1, <2>4
<1> HIDE DEF f
<1>10. \A j \in 1 .. n : f[j] = Set(f[j - 1], size - j, f[j - 1].array[size - j])
  BY <1>2, <1>9
<1>11. QED
  BY <1>7, <1>8, <1>10, Zenon DEF base, n, InsertSteps


RemoveSteps(f, a, size, index) ==
    /\ f[0] = a
    /\ \A j \in 1 .. (size - 1) - index :
         f[j] = Set(f[j - 1], index + j - 1, f[j - 1].array[(index + j - 1) + 2])
    /\ RemoveElem(a, index) = VResize(f[(size - 1) - index], size - 1)

\* Closing the gap goes from the place of the removed element up.
LEMMA RemoveFold ==
    ASSUME NEW d, NEW a, NEW size \in Nat, NEW s \in Seq(VElem), size <= Len(s),
           NEW index \in 0 .. size - 1, a = Cells(size, s, d)
    PROVE  \E f : RemoveSteps(f, a, size, index)
<1> DEFINE base == a
           n == (size - 1) - index
           steps == [j \in 1 .. base.size - 1 - index |-> index + j - 1]
           A == {q \in Seq(VElem) : Len(q) = Len(s)}
           S == {Cells(size, u, d) : u \in A}
           F == [j \in 1 .. n |-> [c \in S |-> Set(c, steps[j], c.array[steps[j] + 2])]]
<1>1. n \in Nat /\ size \in Nat /\ index \in Nat /\ n = (size - 1) - index /\ Len(s) \in Nat /\ base.size = size
  BY CellsFields
<1>2. DOMAIN steps = 1 .. n /\ \A j \in 1 .. n : steps[j] = index + j - 1
  <2> HIDE DEF base
  <2>1. QED
    BY <1>1
<1> HIDE DEF steps
<1>3. base \in S
  OBVIOUS
<1>4. F \in [1 .. n -> [S -> S]]
  <2> SUFFICES ASSUME NEW j \in 1 .. n, NEW c \in S PROVE Set(c, steps[j], c.array[steps[j] + 2]) \in S
    OBVIOUS
  <2>1. PICK u \in Seq(VElem) : Len(u) = Len(s) /\ c = Cells(size, u, d)
    OBVIOUS
  <2> DEFINE i == steps[j]
             x == u[i + 2]
  <2>2. i \in Nat /\ i < Len(u) /\ i + 2 \in 1 .. Len(u)
    BY <1>1, <1>2, <2>1
  <2>3. x \in VElem
    BY <2>2
  <2>4. c.array = u
    BY <2>1, CellsFields
  <2> HIDE DEF i, x
  <2>5. Set(c, i, x) = Cells(size, Put(u, i, x), d)
    BY <2>1, <2>2, <2>3, SetIs
  <2>6. Put(u, i, x) \in A
    BY <2>1, <2>2, <2>3, PutIs
  <2> HIDE DEF A
  <2>7. QED
    BY <2>4, <2>5, <2>6 DEF i, x
<1>5. PICK g \in [SUBSET (1 .. n) -> S] : FoldDown(n, base, F, g)
  <2> HIDE DEF S, n, base, F
  <2>1. QED
    BY <1>1, <1>3, <1>4, FoldExists, ZenonT(30)
<1> HIDE DEF S
<1> DEFINE it == CHOOSE it :
                   it = [z \in SUBSET DOMAIN steps |->
                           IF z = {} THEN base
                           ELSE Set(it[z \ {Max(z)}], steps[Max(z)], it[z \ {Max(z)}].array[steps[Max(z)] + 2])]
<1>6. it = [z \in SUBSET DOMAIN steps |->
              IF z = {} THEN base
              ELSE Set(it[z \ {Max(z)}], steps[Max(z)], it[z \ {Max(z)}].array[steps[Max(z)] + 2])]
  <2>1. ASSUME NEW z \in SUBSET (1 .. n), z # {}
        PROVE  F[Max(z)][g[z \ {Max(z)}]]
                 = Set(g[z \ {Max(z)}], steps[Max(z)], g[z \ {Max(z)}].array[steps[Max(z)] + 2])
    <3>1. Max(z) \in 1 .. n /\ z \ {Max(z)} \in SUBSET (1 .. n)
      BY <1>1, <2>1, MaxUpTo
    <3>2. g[z \ {Max(z)}] \in S
      BY <3>1
    <3>3. QED
      BY <3>1, <3>2
  <2>2. g = [z \in SUBSET DOMAIN steps |->
              IF z = {} THEN base
              ELSE Set(g[z \ {Max(z)}], steps[Max(z)], g[z \ {Max(z)}].array[steps[Max(z)] + 2])]
    <3> HIDE DEF F, base
    <3>1. QED
      BY <1>2, <1>5, <2>1 DEF FoldDown
  <2> HIDE DEF base
  <2>3. QED
    BY <2>2
<1>7. RemoveElem(a, index) = VResize(it[DOMAIN steps], size - 1)
  <2>1. RemoveElem(a, index) = VResize(it[DOMAIN steps], a.size - 1)
    BY Zenon DEF RemoveElem, FoldLeft, MapThenFoldSet, steps
  <2>2. QED
    BY <1>1, <2>1
<1> HIDE DEF it, base
<1> DEFINE f == [k \in 0 .. n |-> it[1 .. k]]
<1>8. f[0] = base /\ f[n] = it[DOMAIN steps]
  <2>1. {} = 1 .. 0
    OBVIOUS
  <2>2. it[{}] = base
    BY <1>6
  <2>3. QED
    BY <1>1, <1>2, <2>1, <2>2
<1>9. ASSUME NEW k \in 1 .. n PROVE f[k] = Set(f[k - 1], steps[k], f[k - 1].array[steps[k] + 2])
  <2>1. (1 .. k) \in SUBSET DOMAIN steps /\ k \in Nat \ {0} /\ k - 1 \in 0 .. n /\ k \in 0 .. n
    BY <1>1, <1>2
  <2>2. (1 .. k) # {} /\ Max(1 .. k) = k /\ (1 .. k) \ {k} = 1 .. (k - 1)
    BY <2>1, FirstElements
  <2> DEFINE z == 1 .. k
  <2>3. it[z] = IF z = {} THEN base
                ELSE Set(it[z \ {Max(z)}], steps[Max(z)], it[z \ {Max(z)}].array[steps[Max(z)] + 2])
    <3> HIDE DEF z
    <3>1. QED
      BY <1>6, <2>1 DEF z
  <2>4. it[1 .. k] = Set(it[1 .. (k - 1)], steps[k], it[1 .. (k - 1)].array[steps[k] + 2])
    BY <2>2, <2>3
  <2>5. QED
    BY <2>1, <2>4
<1> HIDE DEF f
<1>10. \A j \in 1 .. n : f[j] = Set(f[j - 1], index + j - 1, f[j - 1].array[(index + j - 1) + 2])
  BY <1>2, <1>9
<1>11. QED
  BY <1>7, <1>8, <1>10, Zenon DEF base, n, RemoveSteps

\* The array r is s with the elements of the first size from index on up by one.
MovedUp(r, size, s, index, x) ==
    /\ r \in Seq(VElem) /\ Len(r) = Len(s)
    /\ \A k \in 1 .. size :
         r[k] = IF k < index + 1 THEN s[k] ELSE IF k = index + 1 THEN x ELSE s[k - 1]

\* insert_at moves them.
LEMMA InsertElemIs ==
    ASSUME NEW d, NEW a, NEW size \in Nat, NEW s \in Seq(VElem), size <= Len(s),
           NEW index \in 0 .. size - 1, NEW x \in VElem, VResize(a, a.size + 1) = Cells(size, s, d)
    PROVE  \E r : InsertElem(a, index, x) = Cells(size, r, d) /\ MovedUp(r, size, s, index, x)
<1> DEFINE n == (size - 1) - index
           Moved(u, j) == /\ u \in Seq(VElem) /\ Len(u) = Len(s)
                          /\ \A k \in 1 .. size : u[k] = IF k > size - j THEN s[k - 1] ELSE s[k]
<1>1. n \in Nat /\ size \in Nat /\ index \in Nat /\ index < size /\ n = (size - 1) - index /\ Len(s) \in Nat
  OBVIOUS
<1>2. PICK f : /\ f[0] = VResize(a, a.size + 1)
               /\ \A j \in 1 .. n : f[j] = Set(f[j - 1], size - j, f[j - 1].array[size - j])
               /\ InsertElem(a, index, x) = Set(f[n], index, x)
  <2>1. \E f : InsertSteps(f, a, size, index, x)
    BY InsertFold
  <2>2. QED
    BY <2>1, Zenon DEF InsertSteps
<1> HIDE DEF n
<1> DEFINE T == {j \in 0 .. n : \E u : Moved(u, j) /\ f[j] = Cells(size, u, d)}
<1>3. 0 \in T
  <2>1. Moved(s, 0) /\ f[0] = Cells(size, s, d) /\ 0 \in 0 .. n
    BY <1>1, <1>2
  <2>2. QED
    BY <2>1
<1>4. ASSUME NEW j \in 1 .. n, j - 1 \in T PROVE j \in T
  <2>1. PICK u : Moved(u, j - 1) /\ f[j - 1] = Cells(size, u, d)
    BY <1>4
  <2> DEFINE i == size - j
             y == u[i]
  <2>2. /\ i \in Nat /\ i < Len(u) /\ i \in 1 .. size /\ i \in 1 .. Len(u) /\ i + 1 \in 1 .. size
        /\ ~(i > size - (j - 1))
    BY <1>1, <2>1
  <2>3. y \in VElem /\ y = s[i] /\ f[j - 1].array = u
    <3>1. y \in VElem
      BY <2>1, <2>2
    <3>2. y = s[i]
      <4> HIDE DEF i
      <4>1. QED
        BY <2>1, <2>2
    <3>3. f[j - 1].array = u
      BY <2>1, CellsFields
    <3>4. QED
      BY <3>1, <3>2, <3>3
  <2>4. f[j] = Set(f[j - 1], i, y)
    <3>1. f[j] = Set(f[j - 1], i, f[j - 1].array[i])
      BY <1>2
    <3>2. QED
      BY <2>3, <3>1
  <2> DEFINE w == Put(u, i, y)
  <2>5. f[j] = Cells(size, w, d)
    <3> HIDE DEF i, y
    <3>1. u \in Seq(VElem)
      BY <2>1
    <3>2. QED
      BY <2>1, <2>2, <2>3, <2>4, <3>1, SetIs
  <2>6. /\ w \in Seq(VElem) /\ Len(w) = Len(u)
        /\ \A k \in 1 .. Len(u) : w[k] = IF k = i + 1 THEN y ELSE u[k]
    <3>1. u \in Seq(VElem)
      BY <2>1
    <3> HIDE DEF i, y
    <3>2. QED
      BY <2>2, <2>3, <3>1, PutIs, ZenonT(30)
  <2> HIDE DEF w, y
  <2>7. ASSUME NEW k \in 1 .. size PROVE w[k] = IF k > size - j THEN s[k - 1] ELSE s[k]
    <3>1. k \in 1 .. Len(u) /\ Len(u) = Len(s) /\ u[k] = IF k > size - (j - 1) THEN s[k - 1] ELSE s[k]
      BY <1>1, <2>1
    <3>2. CASE k = i + 1
      <4>1. k - 1 = i /\ k > size - j
        BY <1>1, <3>2
      <4>2. QED
        BY <2>3, <2>6, <3>1, <3>2, <4>1
    <3>3. CASE k # i + 1
      <4>1. k > size - j <=> k > size - (j - 1)
        BY <1>1, <3>3
      <4>2. w[k] = u[k]
        BY <2>6, <3>1, <3>3
      <4>3. QED
        BY <3>1, <4>1, <4>2
    <3>4. QED
      BY <3>2, <3>3
  <2>8. Moved(w, j) /\ j \in 0 .. n
    BY <1>1, <2>1, <2>6, <2>7
  <2> HIDE DEF Moved
  <2>9. QED
    BY <2>5, <2>8
<1>5. \A j \in 0 .. n : j \in T
  <2> HIDE DEF T
  <2>1. QED
    BY <1>1, <1>3, <1>4, StepByStep
<1>6. PICK u : Moved(u, n) /\ f[n] = Cells(size, u, d)
  <2>1. n \in T
    BY <1>1, <1>5
  <2>2. QED
    BY <2>1
<1> DEFINE r == Put(u, index, x)
<1>7. u \in Seq(VElem) /\ index \in Nat /\ index < Len(u) /\ Len(u) = Len(s)
  BY <1>1, <1>6
<1>8. InsertElem(a, index, x) = Cells(size, r, d)
  BY <1>2, <1>6, <1>7, SetIs
<1>9. /\ r \in Seq(VElem) /\ Len(r) = Len(u)
      /\ \A k \in 1 .. Len(u) : r[k] = IF k = index + 1 THEN x ELSE u[k]
  BY <1>7, PutIs
<1> HIDE DEF r
<1>10. ASSUME NEW k \in 1 .. size
       PROVE  r[k] = IF k < index + 1 THEN s[k] ELSE IF k = index + 1 THEN x ELSE s[k - 1]
  <2>1. k \in 1 .. Len(u) /\ u[k] = IF k > size - n THEN s[k - 1] ELSE s[k]
    BY <1>1, <1>6, <1>7
  <2>2. size - n = index + 1 /\ k \in Int
    BY <1>1
  <2>3. r[k] = IF k = index + 1 THEN x ELSE u[k]
    BY <1>9, <2>1
  <2>4. QED
    BY <1>1, <2>1, <2>2, <2>3
<1>11. MovedUp(r, size, s, index, x)
  BY <1>7, <1>9, <1>10 DEF MovedUp
<1>12. QED
  BY <1>8, <1>11

\* The array r is s with the elements of the first size after index down by one.
MovedDown(r, size, s, index) ==
    /\ r \in Seq(VElem) /\ Len(r) = Len(s)
    /\ \A k \in 1 .. size - 1 : r[k] = IF k < index + 1 THEN s[k] ELSE s[k + 1]

\* remove_at moves them.
LEMMA RemoveElemIs ==
    ASSUME NEW d, NEW size \in Nat, NEW s \in Seq(VElem), size <= Len(s), NEW index \in 0 .. size - 1
    PROVE  \E r : /\ RemoveElem(Cells(size, s, d), index) = Cells(size - 1, r, d)
                  /\ MovedDown(r, size, s, index)
<1> DEFINE n == (size - 1) - index
           a == Cells(size, s, d)
           Moved(u, j) == /\ u \in Seq(VElem) /\ Len(u) = Len(s)
                          /\ \A k \in 1 .. size :
                               u[k] = IF k > index /\ k <= index + j THEN s[k + 1] ELSE s[k]
<1>1. n \in Nat /\ size \in Nat /\ index \in Nat /\ index < size /\ n = (size - 1) - index /\ Len(s) \in Nat
  OBVIOUS
<1>2. PICK f : /\ f[0] = a
               /\ \A j \in 1 .. n : f[j] = Set(f[j - 1], index + j - 1, f[j - 1].array[(index + j - 1) + 2])
               /\ RemoveElem(a, index) = VResize(f[n], size - 1)
  <2>1. a = Cells(size, s, d)
    OBVIOUS
  <2> HIDE DEF a
  <2>2. \E f : RemoveSteps(f, a, size, index)
    BY <2>1, RemoveFold
  <2>3. QED
    BY <2>2, Zenon DEF RemoveSteps
<1> HIDE DEF n
<1> DEFINE T == {j \in 0 .. n : \E u : Moved(u, j) /\ f[j] = Cells(size, u, d)}
<1>3. 0 \in T
  <2>1. Moved(s, 0) /\ f[0] = Cells(size, s, d) /\ 0 \in 0 .. n
    BY <1>1, <1>2
  <2>2. QED
    BY <2>1
<1>4. ASSUME NEW j \in 1 .. n, j - 1 \in T PROVE j \in T
  <2>1. PICK u : Moved(u, j - 1) /\ f[j - 1] = Cells(size, u, d)
    BY <1>4
  <2> DEFINE i == index + j - 1
             y == u[i + 2]
  <2>2. /\ i \in Nat /\ i < Len(u) /\ i + 2 \in 1 .. size /\ i + 2 \in 1 .. Len(u)
        /\ ~(i + 2 <= index + (j - 1)) /\ i + 1 = index + j
    BY <1>1, <2>1
  <2>3. y \in VElem /\ y = s[i + 2] /\ f[j - 1].array = u
    <3>1. y \in VElem
      BY <2>1, <2>2
    <3>2. y = s[i + 2]
      <4> HIDE DEF i
      <4>1. QED
        BY <2>1, <2>2
    <3>3. f[j - 1].array = u
      BY <2>1, CellsFields
    <3>4. QED
      BY <3>1, <3>2, <3>3
  <2>4. f[j] = Set(f[j - 1], i, y)
    <3>1. f[j] = Set(f[j - 1], i, f[j - 1].array[i + 2])
      BY <1>2
    <3>2. QED
      BY <2>3, <3>1
  <2> DEFINE w == Put(u, i, y)
  <2>5. f[j] = Cells(size, w, d)
    <3> HIDE DEF i, y
    <3>1. u \in Seq(VElem)
      BY <2>1
    <3>2. QED
      BY <2>1, <2>2, <2>3, <2>4, <3>1, SetIs
  <2>6. /\ w \in Seq(VElem) /\ Len(w) = Len(u)
        /\ \A k \in 1 .. Len(u) : w[k] = IF k = i + 1 THEN y ELSE u[k]
    <3>1. u \in Seq(VElem)
      BY <2>1
    <3> HIDE DEF i, y
    <3>2. QED
      BY <2>2, <2>3, <3>1, PutIs, ZenonT(30)
  <2> HIDE DEF w, y
  <2>7. ASSUME NEW k \in 1 .. size
        PROVE  w[k] = IF k > index /\ k <= index + j THEN s[k + 1] ELSE s[k]
    <3>1. /\ k \in 1 .. Len(u) /\ Len(u) = Len(s)
          /\ u[k] = IF k > index /\ k <= index + (j - 1) THEN s[k + 1] ELSE s[k]
      BY <1>1, <2>1
    <3>2. CASE k = i + 1
      <4>1. k + 1 = i + 2 /\ k > index /\ k <= index + j
        BY <1>1, <3>2
      <4>2. QED
        BY <2>3, <2>6, <3>1, <3>2, <4>1
    <3>3. CASE k # i + 1
      <4>1. k <= index + j <=> k <= index + (j - 1)
        BY <1>1, <3>3
      <4>2. w[k] = u[k]
        BY <2>6, <3>1, <3>3
      <4>3. QED
        BY <3>1, <4>1, <4>2
    <3>4. QED
      BY <3>2, <3>3
  <2>8. Moved(w, j) /\ j \in 0 .. n
    BY <1>1, <2>1, <2>6, <2>7
  <2> HIDE DEF Moved
  <2>9. QED
    BY <2>5, <2>8
<1>5. \A j \in 0 .. n : j \in T
  <2> HIDE DEF T
  <2>1. QED
    BY <1>1, <1>3, <1>4, StepByStep
<1>6. PICK u : Moved(u, n) /\ f[n] = Cells(size, u, d)
  <2>1. n \in T
    BY <1>1, <1>5
  <2>2. QED
    BY <2>1
<1>7. RemoveElem(a, index) = Cells(size - 1, u, d)
  <2> DEFINE m == size - 1
  <2>1. m \in Nat /\ ~(m > size) /\ u \in Seq(VElem)
    BY <1>1, <1>6
  <2> HIDE DEF m
  <2>2. VResize(Cells(size, u, d), m) = Cells(m, GrownArray(u, size, m), d)
    BY <2>1, VResizeIs
  <2>3. GrownArray(u, size, m) = u
    BY <2>1 DEF GrownArray
  <2>4. QED
    BY <1>2, <1>6, <2>2, <2>3 DEF m
<1>8. ASSUME NEW k \in 1 .. size - 1 PROVE u[k] = IF k < index + 1 THEN s[k] ELSE s[k + 1]
  <2>1. k \in 1 .. size /\ k <= index + n /\ (k > index <=> ~(k < index + 1))
    BY <1>1
  <2>2. QED
    BY <1>6, <2>1
<1>9. MovedDown(u, size, s, index)
  BY <1>6, <1>8 DEF MovedDown
<1>10. QED
  BY <1>7, <1>9

\* The array s holds, in its first n elements, the sequence q wherever q is defined.
Holds(n, s, q) ==
    /\ n \in Nat /\ s \in Seq(VElem) /\ n <= Len(s)
    /\ q \in Seq(VElem) /\ Len(q) = n
    /\ \A k \in 1 .. n : q[k] # Undef => s[k] = q[k]

VecKeeps ==
    /\ v = Cells(v.size, v.array, v.wild) /\ Holds(v.size, v.array, vSeq)
    /\ ~v.wild

\* The first element was pushed to a vector without capacity.
Overrun == v.wild /\ Len(v.array) = 0 /\ Len(vSeq) = 1

VecInv == VecKeeps \/ Overrun

\* A step that keeps the fields of a vector.
LEMMA VecKept ==
    ASSUME VecKeeps, NEW n, NEW s, v' = Cells(n, s, v.wild), Holds(n, s, vSeq')
    PROVE  VecInv'
<1>1. v'.size = n /\ v'.array = s /\ v'.wild = v.wild
  BY CellsFields
<1>2. v' = Cells(v'.size, v'.array, v'.wild) /\ Holds(v'.size, v'.array, vSeq')
  BY <1>1
<1>3. ~v'.wild
  BY <1>1, Zenon DEF VecKeeps
<1>4. QED
  BY <1>2, <1>3, Zenon DEF VecInv, VecKeeps

\* Growing the sequence and the array together.
LEMMA GrownHolds ==
    ASSUME NEW n, NEW s, NEW q, Holds(n, s, q), NEW m \in Nat
    PROVE  Holds(m, GrownArray(s, n, m), Grown(q, m))
<1>1. n \in Nat /\ s \in Seq(VElem) /\ n <= Len(s) /\ Len(q) = n /\ q \in Seq(VElem)
  BY DEF Holds
<1> DEFINE r == GrownArray(s, n, m)
           u == Grown(q, m)
<1>2. /\ r \in Seq(VElem) /\ m <= Len(r) /\ Len(s) <= Len(r)
      /\ \A k \in 1 .. Len(s) : r[k] = s[k]
  BY <1>1, GrownArrayIs
<1>3. \A k \in 1 .. m : (IF k <= Len(q) THEN q[k] ELSE Undef) \in VElem
  BY <1>1 DEF VElem
<1>4. u \in Seq(VElem) /\ Len(u) = m /\ \A k \in 1 .. m : u[k] = IF k <= Len(q) THEN q[k] ELSE Undef
  BY <1>3 DEF Grown
<1> HIDE DEF r, u
<1>5. ASSUME NEW k \in 1 .. m, u[k] # Undef PROVE r[k] = u[k]
  <2>1. k <= n /\ u[k] = q[k]
    BY <1>1, <1>4, <1>5
  <2>2. k \in 1 .. n /\ k \in 1 .. Len(s)
    BY <1>1, <2>1
  <2>3. QED
    BY <1>2, <1>5, <2>1, <2>2 DEF Holds
<1>6. QED
  BY <1>2, <1>4, <1>5 DEF Holds, r, u

\* Setting an element of both.
LEMMA PutHolds ==
    ASSUME NEW n, NEW s, NEW q, Holds(n, s, q), NEW index \in Nat, index < n, NEW x \in VElem
    PROVE  Holds(n, Put(s, index, x), Put(q, index, x)) /\ index < Len(s)
<1>1. n \in Nat /\ s \in Seq(VElem) /\ n <= Len(s) /\ Len(q) = n /\ q \in Seq(VElem) /\ Len(s) \in Nat
  BY DEF Holds
<1>2. index < Len(s) /\ index < Len(q)
  BY <1>1
<1> DEFINE r == Put(s, index, x)
           u == Put(q, index, x)
<1>3. /\ r \in Seq(VElem) /\ Len(r) = Len(s)
      /\ \A k \in 1 .. Len(s) : r[k] = IF k = index + 1 THEN x ELSE s[k]
  BY <1>1, <1>2, PutIs, ZenonT(30)
<1>4. /\ u \in Seq(VElem) /\ Len(u) = Len(q)
      /\ \A k \in 1 .. Len(q) : u[k] = IF k = index + 1 THEN x ELSE q[k]
  BY <1>1, <1>2, PutIs, ZenonT(30)
<1> HIDE DEF r, u
<1>5. ASSUME NEW k \in 1 .. n, u[k] # Undef PROVE r[k] = u[k]
  <2>1. k \in 1 .. Len(s) /\ k \in 1 .. Len(q)
    BY <1>1
  <2>2. CASE k = index + 1
    BY <1>3, <1>4, <2>1, <2>2
  <2>3. CASE k # index + 1
    BY <1>3, <1>4, <1>5, <2>1, <2>3 DEF Holds
  <2>4. QED
    BY <2>2, <2>3
<1>6. QED
  BY <1>1, <1>2, <1>3, <1>4, <1>5 DEF Holds, r, u

\* Every operation keeps the array what the sequence is.
THEOREM VecInvariant == VecSpec => []VecInv
<1> DEFINE n == v.size
           s == v.array
           d == v.wild
<1>1. VecInit => VecInv
  <2>1. ASSUME NEW m \in Nat, NEW c \in Nat, m <= c, v = Fresh(m, c), vSeq = [k \in 1 .. m |-> Zero]
        PROVE  VecInv
    <3> DEFINE r == [k \in 1 .. c |-> Zero]
    <3>1. Zero \in VElem
      BY DEF VElem
    <3>2. r \in Seq(VElem) /\ Len(r) = c /\ \A k \in 1 .. c : r[k] = Zero
      BY <3>1
    <3>3. vSeq \in Seq(VElem) /\ Len(vSeq) = m /\ \A k \in 1 .. m : vSeq[k] = Zero
      BY <2>1, <3>1
    <3>4. v = [size |-> m, array |-> r, wild |-> FALSE]
      BY <2>1, Zenon DEF Fresh
    <3> HIDE DEF r
    <3>5. v.size = m /\ v.array = r /\ v.wild = FALSE
      BY <3>4
    <3>6. v = Cells(v.size, v.array, v.wild)
      BY <3>4, <3>5, Zenon DEF Cells
    <3>7. Holds(m, r, vSeq)
      BY <2>1, <3>2, <3>3 DEF Holds
    <3>8. QED
      BY <3>5, <3>6, <3>7, Zenon DEF VecInv, VecKeeps
  <2>2. ASSUME v = Fresh(0, VECTOR_DEFCAP), vSeq = <<>> PROVE VecInv
    <3>1. vSeq = [k \in 1 .. 0 |-> Zero]
      BY <2>2
    <3>2. VECTOR_DEFCAP \in Nat /\ 0 <= VECTOR_DEFCAP
      BY VectorAssumption
    <3>3. QED
      BY <2>1, <2>2, <3>1, <3>2
  <2>3. ASSUME NEW m \in 0 .. MaxVec, v = Fresh(m, m), vSeq = [k \in 1 .. m |-> Zero] PROVE VecInv
    <3>1. m \in Nat /\ m <= m
      BY VectorAssumption
    <3>2. QED
      BY <2>1, <2>3, <3>1
  <2>4. QED
    BY <2>2, <2>3 DEF VecInit
<1>2. VecInv /\ [VecNext]_vecVars => VecInv'
  <2>0. CASE Overrun /\ [VecNext]_vecVars
    <3>1. UNCHANGED <<v, vSeq>>
      BY <2>0 DEF Overrun, VecNext, vecVars
    <3>2. Overrun'
      BY <2>0, <3>1 DEF Overrun
    <3>3. QED
      BY <3>2 DEF VecInv
  <2> SUFFICES ASSUME VecKeeps, [VecNext]_vecVars PROVE VecInv'
    BY <2>0 DEF VecInv
  <2>1. v = Cells(n, s, d) /\ Holds(n, s, vSeq)
    BY Zenon DEF VecKeeps
  <2>2. /\ n \in Nat /\ s \in Seq(VElem) /\ Len(s) \in Nat /\ n <= Len(s)
        /\ vSeq \in Seq(VElem) /\ Len(vSeq) = n
        /\ \A k \in 1 .. n : vSeq[k] # Undef => s[k] = vSeq[k]
    BY <2>1 DEF Holds
  <2>3. \A x \in VElems : x \in VElem
    BY DEF VElem
  <2> HIDE DEF n, s, d
  <2>4. ASSUME NEW m, NEW r, v' = Cells(m, r, d), Holds(m, r, vSeq') PROVE VecInv'
    BY <2>4, VecKept DEF d
  <2>5. CASE VecPushBack
    <3>1. PICK x \in VElems : v' = PushItem(v, x) /\ vSeq' = Append(vSeq, x)
      BY <2>5 DEF VecPushBack
    <3>2. CASE Len(s) > 0
      <4>1. n \in Nat /\ s \in Seq(VElem) /\ Len(s) > 0 /\ n <= Len(s) /\ x \in VElem
        BY <2>2, <2>3, <3>2
      <4>2. PICK r \in Seq(VElem) : /\ PushItem(Cells(n, s, d), x) = Cells(n + 1, r, d)
                                    /\ n + 1 <= Len(r) /\ r[n + 1] = x /\ \A k \in 1 .. n : r[k] = s[k]
        BY <4>1, PushItemIs
      <4>3. Holds(n + 1, r, vSeq')
        <5>1. /\ vSeq' \in Seq(VElem) /\ Len(vSeq') = n + 1 /\ vSeq'[n + 1] = x
              /\ \A k \in 1 .. n : vSeq'[k] = vSeq[k]
          BY <2>2, <2>3, <3>1, AppendProperties
        <5>2. ASSUME NEW k \in 1 .. n + 1, vSeq'[k] # Undef PROVE r[k] = vSeq'[k]
          <6>1. CASE k = n + 1
            BY <4>2, <5>1, <6>1
          <6>2. CASE k # n + 1
            <7>1. k \in 1 .. n
              BY <2>2, <6>2
            <7>2. QED
              BY <2>2, <4>2, <5>1, <5>2, <7>1
          <6>3. QED
            BY <6>1, <6>2
        <5>3. n + 1 \in Nat /\ Len(r) > 0
          BY <2>2, <4>2
        <5>4. QED
          BY <4>2, <5>1, <5>2, <5>3 DEF Holds
      <4>4. QED
        BY <2>1, <2>4, <3>1, <4>2, <4>3
    <3>3. CASE ~(Len(s) > 0)
      <4>1. n = 0 /\ Len(s) = 0
        BY <2>2, <3>3
      <4>2. PushItem(Cells(0, s, d), x) = Cells(1, Reallocated(s, 0), TRUE) /\ Len(Reallocated(s, 0)) = 0
        BY <2>2, <4>1, PushWild
      <4> DEFINE r == Reallocated(s, 0)
      <4>3. v' = Cells(1, r, TRUE)
        BY <2>1, <3>1, <4>1, <4>2
      <4> HIDE DEF r
      <4>4. v'.wild = TRUE /\ v'.array = r
        BY <4>3 DEF Cells
      <4>5. Len(vSeq') = 1
        BY <2>2, <2>3, <3>1, <4>1, AppendProperties
      <4>6. Len(v'.array) = 0
        BY <4>2, <4>4 DEF r
      <4>7. QED
        BY <4>4, <4>5, <4>6 DEF VecInv, Overrun
    <3>4. QED
      BY <3>2, <3>3
  <2>6. CASE VecPopBack
    <3>1. n > 0 /\ v' = [v EXCEPT !.size = n - 1] /\ vSeq' = SubSeq(vSeq, 1, n - 1)
      BY <2>2, <2>6 DEF VecPopBack, Front, n
    <3>2. v' = Cells(n - 1, s, d)
      BY <2>1, <3>1, CellsFields
    <3>3. Holds(n - 1, s, vSeq')
      <4>1. \A k \in 1 .. n - 1 : vSeq[k] \in VElem
        BY <2>2
      <4>2. /\ vSeq' \in Seq(VElem) /\ Len(vSeq') = n - 1
            /\ \A k \in 1 .. n - 1 : vSeq'[k] = vSeq[k]
        BY <2>2, <3>1, <4>1, SubSeqProperties
      <4>3. n - 1 \in Nat /\ n - 1 <= Len(s) /\ \A k \in 1 .. n - 1 : k \in 1 .. n
        BY <2>2, <3>1
      <4>4. QED
        BY <2>2, <4>2, <4>3 DEF Holds
    <3>4. QED
      BY <2>4, <3>2, <3>3
  <2>7. CASE VecResize
    <3>1. PICK m \in 0 .. MaxVec : v' = VResize(v, m) /\ vSeq' = Grown(vSeq, m)
      BY <2>7 DEF VecResize
    <3>2. m \in Nat
      BY VectorAssumption
    <3>3. v' = Cells(m, GrownArray(s, n, m), d)
      BY <2>1, <2>2, <3>1, <3>2, VResizeIs
    <3>4. Holds(m, GrownArray(s, n, m), vSeq')
      BY <2>1, <3>1, <3>2, GrownHolds
    <3>5. QED
      BY <2>4, <3>3, <3>4
  <2>8. CASE VecSet
    <3>1. PICK index \in 0 .. n - 1, x \in VElems :
             v' = Set(v, index, x) /\ vSeq' = Put(vSeq, index, x)
      BY <2>8 DEF VecSet, Put, n
    <3>2. index \in Nat /\ index < n /\ x \in VElem
      BY <2>2, <2>3
    <3>3. Holds(n, Put(s, index, x), vSeq') /\ index < Len(s)
      BY <2>1, <3>1, <3>2, PutHolds
    <3>4. v' = Cells(n, Put(s, index, x), d)
      BY <2>1, <2>2, <3>1, <3>2, <3>3, SetIs
    <3>5. QED
      BY <2>4, <3>3, <3>4
  <2>9. CASE VecSetExpand
    <3>1. PICK index \in 0 .. MaxVec - 1, x \in VElems :
             /\ v' = SetExpand(v, index, x)
             /\ vSeq' = Put(Grown(vSeq, IF index < Len(vSeq) THEN Len(vSeq) ELSE index + 1), index, x)
      BY <2>9 DEF VecSetExpand, Put
    <3>2. index \in Nat /\ x \in VElem
      BY <2>3, VectorAssumption
    <3>3. CASE index >= n
      <4> DEFINE m == index + 1
                 r == GrownArray(s, n, m)
                 q == Grown(vSeq, m)
      <4>1. m \in Nat /\ index < m
        BY <3>2
      <4>2. v' = Set(VResize(v, m), index, x) /\ vSeq' = Put(q, index, x)
        BY <2>1, <2>2, <3>1, <3>2, <3>3, CellsFields DEF SetExpand
      <4> HIDE DEF m
      <4>3. VResize(v, m) = Cells(m, r, d)
        BY <2>1, <2>2, <4>1, VResizeIs
      <4>4. Holds(m, r, q)
        BY <2>1, <4>1, GrownHolds
      <4> HIDE DEF r, q
      <4>5. Holds(m, Put(r, index, x), vSeq') /\ index < Len(r) /\ r \in Seq(VElem)
        <5>1. r \in Seq(VElem)
          BY <4>4 DEF Holds
        <5>2. Holds(m, Put(r, index, x), Put(q, index, x)) /\ index < Len(r)
          BY <3>2, <4>1, <4>4, PutHolds
        <5>3. QED
          BY <4>2, <5>1, <5>2
      <4>6. v' = Cells(m, Put(r, index, x), d)
        BY <3>2, <4>2, <4>3, <4>5, SetIs
      <4>7. QED
        BY <2>4, <4>5, <4>6
    <3>4. CASE index < n
      <4>1. v' = Set(v, index, x)
        BY <2>1, <2>2, <3>1, <3>2, <3>4, CellsFields DEF SetExpand
      <4>2. Grown(vSeq, Len(vSeq)) = vSeq
        BY <2>2 DEF Grown
      <4>3. vSeq' = Put(vSeq, index, x)
        BY <2>2, <3>1, <3>4, <4>2
      <4>4. Holds(n, Put(s, index, x), vSeq') /\ index < Len(s)
        BY <2>1, <3>2, <3>4, <4>3, PutHolds
      <4>5. v' = Cells(n, Put(s, index, x), d)
        BY <2>1, <2>2, <3>2, <4>1, <4>4, SetIs
      <4>6. QED
        BY <2>4, <4>4, <4>5
    <3>5. QED
      BY <2>2, <3>2, <3>3, <3>4
  <2>10. CASE VecInsertAt
    <3>1. PICK index \in 0 .. n, x \in VElems :
             v' = InsertElem(v, index, x) /\ vSeq' = InsertAt(vSeq, index + 1, x)
      BY <2>10 DEF VecInsertAt, n
    <3> DEFINE m == n + 1
               r == GrownArray(s, n, m)
    <3>2. m \in Nat /\ index \in 0 .. m - 1 /\ x \in VElem /\ index \in Nat /\ index + 1 \in 1 .. Len(vSeq) + 1
      BY <2>2, <2>3
    <3>3. r \in Seq(VElem) /\ m <= Len(r) /\ Len(s) <= Len(r) /\ \A k \in 1 .. Len(s) : r[k] = s[k]
      <4> HIDE DEF m
      <4>1. QED
        BY <2>2, <3>2, GrownArrayIs
    <3>4. VResize(v, v.size + 1) = Cells(m, r, d)
      <4>1. v.size + 1 = m
        BY DEF n
      <4> HIDE DEF m
      <4>2. VResize(Cells(n, s, d), m) = Cells(m, r, d)
        BY <2>2, <3>2, VResizeIs
      <4>3. QED
        BY <2>1, <4>1, <4>2
    <3> HIDE DEF r, m
    <3>5. PICK u : InsertElem(v, index, x) = Cells(m, u, d) /\ MovedUp(u, m, r, index, x)
      BY <3>2, <3>3, <3>4, InsertElemIs
    <3>6. /\ u \in Seq(VElem) /\ InsertElem(v, index, x) = Cells(m, u, d) /\ Len(u) = Len(r)
          /\ \A k \in 1 .. m :
               u[k] = IF k < index + 1 THEN r[k] ELSE IF k = index + 1 THEN x ELSE r[k - 1]
      BY <3>5 DEF MovedUp
    <3>7. /\ vSeq' \in Seq(VElem) /\ Len(vSeq') = Len(vSeq) + 1
          /\ \A k \in 1 .. Len(vSeq) + 1 :
               vSeq'[k] = IF k < index + 1 THEN vSeq[k] ELSE IF k = index + 1 THEN x ELSE vSeq[k - 1]
      <4> DEFINE p == index + 1
      <4>1. vSeq' = InsertAt(vSeq, p, x) /\ p \in 1 .. Len(vSeq) + 1
        BY <3>1, <3>2
      <4> HIDE DEF p
      <4>2. Inserted(VElem, InsertAt(vSeq, p, x), vSeq, p, x)
        BY <2>2, <3>2, <4>1, InsertAtIs
      <4>3. QED
        BY <4>1, <4>2 DEF p, Inserted
    <3>8. m = Len(vSeq) + 1 /\ Len(u) > 0 /\ m <= Len(u)
      BY <2>2, <3>2, <3>3, <3>6 DEF m
    <3>9. ASSUME NEW k \in 1 .. m, vSeq'[k] # Undef PROVE u[k] = vSeq'[k]
      <4>1. /\ vSeq'[k] = IF k < index + 1 THEN vSeq[k] ELSE IF k = index + 1 THEN x ELSE vSeq[k - 1]
            /\ u[k] = IF k < index + 1 THEN r[k] ELSE IF k = index + 1 THEN x ELSE r[k - 1]
        BY <3>6, <3>7, <3>8
      <4>2. CASE k < index + 1
        <5>1. k \in 1 .. n /\ k \in 1 .. Len(s)
          BY <2>2, <3>2, <3>8, <4>2
        <5>2. QED
          BY <2>2, <3>3, <3>9, <4>1, <4>2, <5>1
      <4>3. CASE k = index + 1
        BY <3>2, <4>1, <4>3
      <4>4. CASE k > index + 1
        <5>1. k - 1 \in 1 .. n /\ k - 1 \in 1 .. Len(s) /\ ~(k < index + 1) /\ k # index + 1
          BY <2>2, <3>2, <3>8, <4>4
        <5>2. u[k] = r[k - 1] /\ vSeq'[k] = vSeq[k - 1]
          BY <4>1, <5>1
        <5>3. QED
          BY <2>2, <3>3, <3>9, <5>1, <5>2
      <4>5. QED
        BY <3>2, <4>2, <4>3, <4>4
    <3>10. Holds(m, u, vSeq')
      BY <3>2, <3>6, <3>7, <3>8, <3>9 DEF Holds
    <3>11. QED
      BY <2>4, <3>1, <3>6, <3>10
  <2>11. CASE VecRemoveAt
    <3>1. PICK index \in 0 .. n - 1 : v' = RemoveElem(v, index) /\ vSeq' = RemoveAt(vSeq, index + 1)
      BY <2>11 DEF VecRemoveAt, n
    <3>2. index \in Nat /\ index + 1 \in 1 .. Len(vSeq) /\ n - 1 \in Nat
      BY <2>2
    <3>3. PICK u : RemoveElem(Cells(n, s, d), index) = Cells(n - 1, u, d) /\ MovedDown(u, n, s, index)
      BY <2>2, RemoveElemIs
    <3>4. /\ u \in Seq(VElem) /\ Len(u) = Len(s) /\ RemoveElem(Cells(n, s, d), index) = Cells(n - 1, u, d)
          /\ \A k \in 1 .. n - 1 : u[k] = IF k < index + 1 THEN s[k] ELSE s[k + 1]
      BY <3>3 DEF MovedDown
    <3>5. /\ vSeq' \in Seq(VElem) /\ Len(vSeq') = Len(vSeq) - 1
          /\ \A k \in 1 .. Len(vSeq) - 1 : vSeq'[k] = IF k < index + 1 THEN vSeq[k] ELSE vSeq[k + 1]
      <4> DEFINE p == index + 1
      <4>1. vSeq' = RemoveAt(vSeq, p) /\ p \in 1 .. Len(vSeq)
        BY <3>1, <3>2
      <4> HIDE DEF p
      <4>2. Removed(VElem, RemoveAt(vSeq, p), vSeq, p)
        BY <2>2, <4>1, RemoveAtIs
      <4>3. QED
        BY <4>1, <4>2 DEF p, Removed
    <3>6. ASSUME NEW k \in 1 .. n - 1, vSeq'[k] # Undef PROVE u[k] = vSeq'[k]
      <4>1. k \in 1 .. n /\ k + 1 \in 1 .. n
        BY <2>2, <3>2
      <4>2. QED
        BY <2>2, <3>4, <3>5, <3>6, <4>1
    <3>7. Holds(n - 1, u, vSeq')
      <4>1. n - 1 <= Len(u)
        BY <2>2, <3>4
      <4>2. QED
        BY <2>2, <3>2, <3>4, <3>5, <3>6, <4>1 DEF Holds
    <3>8. QED
      BY <2>1, <2>4, <3>1, <3>4, <3>7
  <2>12. CASE VecClear
    <3>1. v' = [v EXCEPT !.size = 0] /\ vSeq' = <<>>
      BY <2>12 DEF VecClear
    <3>2. v' = Cells(0, s, d)
      BY <2>1, <3>1, CellsFields
    <3>3. Holds(0, s, vSeq')
      BY <2>2, <3>1 DEF Holds
    <3>4. QED
      BY <2>4, <3>2, <3>3
  <2>13. CASE VecAssign
    <3> DEFINE r == [k \in 1 .. Len(s) |-> IF k <= n THEN s[k] ELSE Zero]
    <3>1. v' = Cells(n, r, d) /\ vSeq' = vSeq
      BY <2>13 DEF VecAssign, CopyVec, Cells, Capacity, n, s, d
    <3>2. \A k \in 1 .. Len(s) : (IF k <= n THEN s[k] ELSE Zero) \in VElem
      BY <2>2 DEF VElem
    <3>3. r \in Seq(VElem) /\ Len(r) = Len(s) /\ \A k \in 1 .. n : r[k] = s[k]
      BY <2>2, <3>2
    <3> HIDE DEF r
    <3>4. Holds(n, r, vSeq')
      BY <2>2, <3>1, <3>3 DEF Holds
    <3>5. QED
      BY <2>4, <3>1, <3>4
  <2>14. CASE UNCHANGED vecVars
    <3>1. v' = Cells(n, s, d) /\ vSeq' = vSeq
      BY <2>1, <2>14 DEF vecVars
    <3>2. QED
      BY <2>1, <2>4, <3>1
  <2>15. QED
    BY <2>5, <2>6, <2>7, <2>8, <2>9, <2>10, <2>11, <2>12, <2>13, <2>14 DEF VecNext
<1>3. QED
  BY <1>1, <1>2, PTL DEF VecSpec

\* VectorIsSequence: every element that was set keeps its value through growths,
\* shifts and copies, and no call writes beyond the capacity but the first
\* push_back to a vector without any.
THEOREM VectorHoldsSequence == VecSpec => []VectorIsSequence
<1>1. VecInv => VectorIsSequence
  <2>1. ASSUME Overrun PROVE VectorIsSequence
    BY <2>1, Zenon DEF Overrun, VectorIsSequence, Capacity
  <2>2. ASSUME VecKeeps PROVE VectorIsSequence
    <3>1. Holds(v.size, v.array, vSeq)
      BY <2>2, Zenon DEF VecKeeps
    <3>2. ~v.wild
      BY <2>2, Zenon DEF VecKeeps
    <3>3. /\ v.size = Len(vSeq) /\ v.size <= Capacity(v)
          /\ \A k \in 1 .. v.size : vSeq[k] # Undef => v.array[k] = vSeq[k]
      BY <3>1 DEF Holds, Capacity
    <3>4. QED
      BY <3>2, <3>3, Zenon DEF VectorIsSequence
  <2>3. QED
    BY <2>1, <2>2 DEF VecInv
<1>2. QED
  BY <1>1, VecInvariant, PTL

-----------------------------------------------------------------------------
\* The list.

LNode == [prev: Nodes \cup {NULL}, next: Nodes \cup {NULL}, val: Items]

\* The node at a place of p; the null pointer before the first and after the last.
NodeAt(p, i) == IF i \in 1 .. Len(p) THEN p[i] ELSE NULL

\* No node is in p twice.
Once(p) == \A i, j \in 1 .. Len(p) : p[i] = p[j] => i = j

\* The pointers of s run through the nodes of p, forward and backward.
Linked(s, p) ==
    /\ s \in [hd: [head: Nodes \cup {NULL}, tail: Nodes \cup {NULL}, size: Nat],
              node: [Nodes -> LNode \cup {NULL}]]
    /\ p \in Seq(Nodes) /\ Once(p)
    /\ \A n \in Nodes : s.node[n] # NULL <=> \E i \in 1 .. Len(p) : n = p[i]
    /\ s.hd.head = NodeAt(p, 1) /\ s.hd.tail = NodeAt(p, Len(p)) /\ s.hd.size = Len(p)
    /\ \A i \in 1 .. Len(p) :
         s.node[p[i]].prev = NodeAt(p, i - 1) /\ s.node[p[i]].next = NodeAt(p, i + 1)

\* What the nodes of p hold.
ValuesOf(node, p) == [i \in 1 .. Len(p) |-> node[p[i]].val]

ListInv == \E p : Linked(list, p) /\ lSeq = ValuesOf(ln, p)

\* s with the new node n between pre and suc.
LinkIn(s, n, pre, suc, x) ==
    [hd   |-> [head |-> IF pre = NULL THEN n ELSE s.hd.head,
               tail |-> IF suc = NULL THEN n ELSE s.hd.tail,
               size |-> s.hd.size + 1],
     node |-> [m \in Nodes |->
                 IF m = n THEN [prev |-> pre, next |-> suc, val |-> x]
                 ELSE IF m = pre THEN [prev |-> s.node[m].prev, next |-> n, val |-> s.node[m].val]
                 ELSE IF m = suc THEN [prev |-> n, next |-> s.node[m].next, val |-> s.node[m].val]
                 ELSE s.node[m]]]

\* s without the node n between pre and suc.
LinkOut(s, n, pre, suc) ==
    [hd   |-> [head |-> IF pre = NULL THEN suc ELSE s.hd.head,
               tail |-> IF suc = NULL THEN pre ELSE s.hd.tail,
               size |-> s.hd.size - 1],
     node |-> [m \in Nodes |->
                 IF m = n THEN NULL
                 ELSE IF m = pre THEN [prev |-> s.node[m].prev, next |-> suc, val |-> s.node[m].val]
                 ELSE IF m = suc THEN [prev |-> pre, next |-> s.node[m].next, val |-> s.node[m].val]
                 ELSE s.node[m]]]

\* The sequence with a new node has the pointers of the list with it.
LEMMA LinkInKeeps ==
    ASSUME NEW s, NEW p, Linked(s, p), NEW k \in 1 .. Len(p) + 1, NEW n \in Free(s),
           NEW x \in Items, NEW q, Inserted(Nodes, q, p, k, n), NEW t,
           t = LinkIn(s, n, NodeAt(p, k - 1), NodeAt(p, k), x)
    PROVE  Linked(t, q)
<1> DEFINE pre == NodeAt(p, k - 1)
           suc == NodeAt(p, k)
           node == t.node
           m0 == Len(p)
<1>1. /\ p \in Seq(Nodes) /\ m0 \in Nat /\ Once(p) /\ n \in Nodes /\ NULL \notin Nodes /\ NULL \notin LNode
      /\ \A i \in 1 .. m0 : p[i] \in Nodes /\ p[i] # n /\ s.node[p[i]] \in LNode
      /\ q \in Seq(Nodes) /\ Len(q) = m0 + 1 /\ k \in Int /\ 1 <= k /\ k <= m0 + 1
      /\ \A i \in 1 .. m0 + 1 : q[i] = IF i < k THEN p[i] ELSE IF i = k THEN n ELSE p[i - 1]
  BY ListAssumption DEF Linked, Inserted, Free, LNode
<1>2. pre \in Nodes \cup {NULL} /\ suc \in Nodes \cup {NULL} /\ pre # n /\ suc # n /\ (pre = suc => pre = NULL)
  BY <1>1 DEF NodeAt, Once
<1>3. /\ t.hd = [head |-> IF pre = NULL THEN n ELSE s.hd.head,
               tail |-> IF suc = NULL THEN n ELSE s.hd.tail,
               size |-> s.hd.size + 1]
      /\ node = [m \in Nodes |->
                 IF m = n THEN [prev |-> pre, next |-> suc, val |-> x]
                 ELSE IF m = pre THEN [prev |-> s.node[m].prev, next |-> n, val |-> s.node[m].val]
                 ELSE IF m = suc THEN [prev |-> n, next |-> s.node[m].next, val |-> s.node[m].val]
                 ELSE s.node[m]]
  BY DEF LinkIn
<1>4. t = [hd |-> t.hd, node |-> t.node]
  BY DEF LinkIn
<1>5. /\ (pre = NULL <=> k = 1) /\ (suc = NULL <=> k = m0 + 1)
      /\ \A i \in 1 .. m0 : (p[i] = pre <=> i = k - 1) /\ (p[i] = suc <=> i = k)
  BY <1>1 DEF NodeAt, Once
<1>6. t.hd.head = NodeAt(q, 1) /\ t.hd.tail = NodeAt(q, Len(q)) /\ t.hd.size = Len(q)
  <2>1. s.hd.head = NodeAt(p, 1) /\ s.hd.tail = NodeAt(p, m0) /\ s.hd.size = m0
    BY DEF Linked
  <2>2. t.hd.head = (IF k = 1 THEN n ELSE NodeAt(p, 1)) /\ t.hd.tail = (IF k = m0 + 1 THEN n ELSE NodeAt(p, m0))
        /\ t.hd.size = m0 + 1
    BY <1>3, <1>5, <2>1
  <2> HIDE DEF pre, suc, node
  <2>3. (IF k = 1 THEN n ELSE NodeAt(p, 1)) = NodeAt(q, 1)
    BY <1>1 DEF NodeAt
  <2>4. (IF k = m0 + 1 THEN n ELSE NodeAt(p, m0)) = NodeAt(q, m0 + 1)
    BY <1>1 DEF NodeAt
  <2>5. QED
    BY <1>1, <2>2, <2>3, <2>4
<1>7. Once(q)
  <2>1. ASSUME NEW i \in 1 .. m0 + 1, NEW j \in 1 .. m0 + 1, q[i] = q[j], i < j PROVE FALSE
    <3> DEFINE a == IF i < k THEN i ELSE i - 1
               b == IF j < k THEN j ELSE j - 1
    <3>1. q[i] = (IF i = k THEN n ELSE p[a]) /\ q[j] = (IF j = k THEN n ELSE p[b])
      BY <1>1
    <3>2. /\ i # k => a \in 1 .. m0
          /\ j # k => b \in 1 .. m0
          /\ i # k /\ j # k => a # b
          /\ i # j
      BY <1>1, <2>1
    <3> HIDE DEF a, b
    <3>3. CASE i = k \/ j = k
      <4>1. CASE i = k
        <5>1. j # k /\ q[i] = n /\ q[j] = p[b] /\ b \in 1 .. m0
          BY <2>1, <3>1, <3>2, <4>1
        <5>2. QED
          BY <1>1, <2>1, <5>1
      <4>2. CASE j = k
        <5>1. i # k /\ q[j] = n /\ q[i] = p[a] /\ a \in 1 .. m0
          BY <2>1, <3>1, <3>2, <4>2
        <5>2. QED
          BY <1>1, <2>1, <5>1
      <4>3. QED
        BY <3>3, <4>1, <4>2
    <3>4. CASE i # k /\ j # k
      <4>1. p[a] = p[b] /\ a \in 1 .. m0 /\ b \in 1 .. m0 /\ a # b
        BY <2>1, <3>1, <3>2, <3>4
      <4>2. QED
        BY <1>1, <4>1 DEF Once
    <3>5. QED
      BY <3>3, <3>4
  <2>2. QED
    BY <1>1, <2>1 DEF Once
<1> HIDE DEF pre, suc, node
<1>8. node[n] = [prev |-> pre, next |-> suc, val |-> x] /\ node[n] \in LNode
  BY <1>1, <1>2, <1>3 DEF LNode
<1>9. ASSUME NEW i \in 1 .. m0
      PROVE  /\ node[p[i]] \in LNode
             /\ node[p[i]].prev = (IF i = k THEN n ELSE NodeAt(p, i - 1))
             /\ node[p[i]].next = (IF i = k - 1 THEN n ELSE NodeAt(p, i + 1))
  <2>1. s.node[p[i]] \in LNode /\ s.node[p[i]].prev = NodeAt(p, i - 1) /\ s.node[p[i]].next = NodeAt(p, i + 1)
    BY <1>1 DEF Linked
  <2>2. p[i] \in Nodes /\ p[i] # n
    BY <1>1
  <2>3. CASE i = k
    BY <1>1, <1>3, <1>5, <2>1, <2>2, <2>3, SMTT(30) DEF LNode
  <2>4. CASE i = k - 1
    BY <1>1, <1>3, <1>5, <2>1, <2>2, <2>4, SMTT(30) DEF LNode
  <2>5. CASE i # k - 1 /\ i # k
    BY <1>1, <1>3, <1>5, <2>1, <2>2, <2>5 DEF LNode
  <2>6. QED
    BY <2>3, <2>4, <2>5
<1>10. ASSUME NEW m \in Nodes PROVE node[m] # NULL <=> \E i \in 1 .. Len(q) : m = q[i]
  <2>1. CASE m = n
    BY <1>1, <1>8, <2>1
  <2>2. CASE \E i \in 1 .. m0 : m = p[i]
    <3>1. PICK i \in 1 .. m0 : m = p[i]
      BY <2>2
    <3>2. (i < k => q[i] = p[i]) /\ (i >= k => q[i + 1] = p[i])
      BY <1>1
    <3>3. node[m] # NULL
      BY <1>1, <1>9, <3>1
    <3>4. QED
      BY <1>1, <3>1, <3>2, <3>3
  <2>3. CASE m # n /\ \A i \in 1 .. m0 : m # p[i]
    <3>1. m # pre /\ m # suc
      BY <1>1, <2>3 DEF pre, suc, NodeAt
    <3>2. s.node[m] = NULL
      BY <2>3 DEF Linked
    <3>3. node[m] = NULL
      BY <1>3, <2>3, <3>1, <3>2
    <3>4. \A i \in 1 .. m0 + 1 : q[i] # m
      BY <1>1, <2>3
    <3>5. QED
      BY <1>1, <3>3, <3>4
  <2>4. QED
    BY <2>1, <2>2, <2>3
<1>11. ASSUME NEW i \in 1 .. m0 + 1
       PROVE  node[q[i]] \in LNode /\ node[q[i]].prev = NodeAt(q, i - 1) /\ node[q[i]].next = NodeAt(q, i + 1)
  <2>1. CASE i = k
    <3>1. q[i] = n /\ pre = NodeAt(q, i - 1) /\ suc = NodeAt(q, i + 1)
      BY <1>1, <2>1 DEF NodeAt, pre, suc
    <3>2. QED
      BY <1>8, <3>1
  <2>2. CASE i < k
    <3>1. i \in 1 .. m0 /\ q[i] = p[i]
      BY <1>1, <2>2
    <3>2. NodeAt(p, i - 1) = NodeAt(q, i - 1) /\ i # k
      BY <1>1, <2>2 DEF NodeAt
    <3>3. (IF i = k - 1 THEN n ELSE NodeAt(p, i + 1)) = NodeAt(q, i + 1)
      BY <1>1, <2>2 DEF NodeAt
    <3>4. QED
      BY <1>9, <3>1, <3>2, <3>3
  <2>3. CASE i > k
    <3>1. i - 1 \in 1 .. m0 /\ q[i] = p[i - 1]
      BY <1>1, <2>3
    <3>2. NodeAt(p, i) = NodeAt(q, i + 1) /\ i - 1 # k - 1 /\ (i - 1) + 1 = i
      BY <1>1, <2>3 DEF NodeAt
    <3>3. (IF i - 1 = k THEN n ELSE NodeAt(p, (i - 1) - 1)) = NodeAt(q, i - 1)
      BY <1>1, <2>3 DEF NodeAt
    <3>4. QED
      BY <1>9, <3>1, <3>2, <3>3
  <2>4. QED
    BY <1>1, <2>1, <2>2, <2>3
<1>12. node \in [Nodes -> LNode \cup {NULL}] /\ t.hd \in [head: Nodes \cup {NULL}, tail: Nodes \cup {NULL}, size: Nat]
  <2>1. \A m \in Nodes : node[m] \in LNode \cup {NULL}
    BY <1>1, <1>10, <1>11
  <2>2. node \in [Nodes -> LNode \cup {NULL}]
    BY <1>3, <2>1
  <2>3. s.hd \in [head: Nodes \cup {NULL}, tail: Nodes \cup {NULL}, size: Nat]
    BY DEF Linked
  <2>4. QED
    BY <1>1, <1>3, <2>2, <2>3
<1>13. QED
  BY <1>1, <1>4, <1>6, <1>7, <1>10, <1>11, <1>12 DEF Linked, node

\* The sequence without a node has the pointers of the list without it.
LEMMA LinkOutKeeps ==
    ASSUME NEW s, NEW p, Linked(s, p), NEW k \in 1 .. Len(p), NEW q, Removed(Nodes, q, p, k), NEW t,
           t = LinkOut(s, p[k], NodeAt(p, k - 1), NodeAt(p, k + 1))
    PROVE  Linked(t, q)
<1> DEFINE pre == NodeAt(p, k - 1)
           suc == NodeAt(p, k + 1)
           n == p[k]
           node == t.node
           m0 == Len(p)
<1>1. /\ p \in Seq(Nodes) /\ m0 \in Nat /\ Once(p) /\ n \in Nodes /\ NULL \notin Nodes /\ NULL \notin LNode
      /\ \A i \in 1 .. m0 : p[i] \in Nodes /\ (p[i] = n <=> i = k) /\ s.node[p[i]] \in LNode
      /\ q \in Seq(Nodes) /\ Len(q) = m0 - 1 /\ k \in Int /\ 1 <= k /\ k <= m0
      /\ \A i \in 1 .. m0 - 1 : q[i] = IF i < k THEN p[i] ELSE p[i + 1]
  BY ListAssumption DEF Linked, Removed, LNode, Once
<1>2. pre \in Nodes \cup {NULL} /\ suc \in Nodes \cup {NULL} /\ pre # n /\ suc # n
  BY <1>1 DEF NodeAt, Once
<1>3. /\ t.hd = [head |-> IF pre = NULL THEN suc ELSE s.hd.head,
               tail |-> IF suc = NULL THEN pre ELSE s.hd.tail,
               size |-> s.hd.size - 1]
      /\ node = [m \in Nodes |->
                 IF m = n THEN NULL
                 ELSE IF m = pre THEN [prev |-> s.node[m].prev, next |-> suc, val |-> s.node[m].val]
                 ELSE IF m = suc THEN [prev |-> pre, next |-> s.node[m].next, val |-> s.node[m].val]
                 ELSE s.node[m]]
  BY DEF LinkOut
<1>4. t = [hd |-> t.hd, node |-> t.node]
  BY DEF LinkOut
<1>5. /\ (pre = NULL <=> k = 1) /\ (suc = NULL <=> k = m0)
      /\ \A i \in 1 .. m0 : (p[i] = pre <=> i = k - 1) /\ (p[i] = suc <=> i = k + 1)
  BY <1>1 DEF NodeAt, Once
<1>6. t.hd.head = NodeAt(q, 1) /\ t.hd.tail = NodeAt(q, Len(q)) /\ t.hd.size = Len(q)
  <2>1. s.hd.head = NodeAt(p, 1) /\ s.hd.tail = NodeAt(p, m0) /\ s.hd.size = m0
    BY DEF Linked
  <2>2. t.hd.head = (IF k = 1 THEN NodeAt(p, 2) ELSE NodeAt(p, 1)) /\ t.hd.tail = (IF k = m0 THEN NodeAt(p, m0 - 1) ELSE NodeAt(p, m0))
        /\ t.hd.size = m0 - 1
    BY <1>3, <1>5, <2>1
  <2> HIDE DEF pre, suc, node, n
  <2>3. (IF k = 1 THEN NodeAt(p, 2) ELSE NodeAt(p, 1)) = NodeAt(q, 1)
    BY <1>1 DEF NodeAt
  <2>4. (IF k = m0 THEN NodeAt(p, m0 - 1) ELSE NodeAt(p, m0)) = NodeAt(q, m0 - 1)
    BY <1>1 DEF NodeAt
  <2>5. QED
    BY <1>1, <2>2, <2>3, <2>4
<1>7. Once(q)
  <2>1. ASSUME NEW i \in 1 .. m0 - 1, NEW j \in 1 .. m0 - 1, q[i] = q[j], i < j PROVE FALSE
    <3> DEFINE a == IF i < k THEN i ELSE i + 1
               b == IF j < k THEN j ELSE j + 1
    <3>1. q[i] = p[a] /\ q[j] = p[b]
      BY <1>1
    <3>2. a \in 1 .. m0 /\ b \in 1 .. m0 /\ a # b
      BY <1>1, <2>1
    <3> HIDE DEF a, b
    <3>3. QED
      BY <1>1, <2>1, <3>1, <3>2 DEF Once
  <2>2. QED
    BY <1>1, <2>1 DEF Once
<1> HIDE DEF pre, suc, node, n
<1>8. node[n] = NULL
  BY <1>1, <1>3
<1>9. ASSUME NEW i \in 1 .. m0, i # k
      PROVE  /\ node[p[i]] \in LNode
             /\ node[p[i]].prev = (IF i = k + 1 THEN pre ELSE NodeAt(p, i - 1))
             /\ node[p[i]].next = (IF i = k - 1 THEN suc ELSE NodeAt(p, i + 1))
  <2>1. s.node[p[i]] \in LNode /\ s.node[p[i]].prev = NodeAt(p, i - 1) /\ s.node[p[i]].next = NodeAt(p, i + 1)
    BY <1>1 DEF Linked
  <2>2. p[i] \in Nodes /\ p[i] # n
    BY <1>1, <1>9
  <2>3. CASE i = k + 1
    BY <1>1, <1>2, <1>3, <1>5, <2>1, <2>2, <2>3, SMTT(30) DEF LNode
  <2>4. CASE i = k - 1
    BY <1>1, <1>2, <1>3, <1>5, <2>1, <2>2, <2>4, SMTT(30) DEF LNode
  <2>5. CASE i # k - 1 /\ i # k + 1
    BY <1>1, <1>3, <1>5, <2>1, <2>2, <2>5 DEF LNode
  <2>6. QED
    BY <2>3, <2>4, <2>5
<1>10. ASSUME NEW m \in Nodes PROVE node[m] # NULL <=> \E i \in 1 .. Len(q) : m = q[i]
  <2>1. CASE m = n
    <3>1. \A i \in 1 .. m0 - 1 : q[i] # n
      BY <1>1
    <3>2. QED
      BY <1>1, <1>8, <2>1, <3>1
  <2>2. CASE m # n /\ \E i \in 1 .. m0 : m = p[i]
    <3>1. PICK i \in 1 .. m0 : m = p[i]
      BY <2>2
    <3>2. i # k /\ (i < k => q[i] = p[i]) /\ (i > k => q[i - 1] = p[i])
      BY <1>1, <2>2, <3>1 DEF n
    <3>3. node[m] # NULL
      BY <1>1, <1>9, <3>1, <3>2
    <3>4. QED
      BY <1>1, <3>1, <3>2, <3>3
  <2>3. CASE \A i \in 1 .. m0 : m # p[i]
    <3>1. m # pre /\ m # suc /\ m # n
      BY <1>1, <2>3 DEF pre, suc, n, NodeAt
    <3>2. s.node[m] = NULL
      BY <2>3 DEF Linked
    <3>3. node[m] = NULL
      BY <1>3, <3>1, <3>2
    <3>4. \A i \in 1 .. m0 - 1 : q[i] # m
      BY <1>1, <2>3
    <3>5. QED
      BY <1>1, <3>3, <3>4
  <2>4. QED
    BY <2>1, <2>2, <2>3
<1>11. ASSUME NEW i \in 1 .. m0 - 1
       PROVE  node[q[i]] \in LNode /\ node[q[i]].prev = NodeAt(q, i - 1) /\ node[q[i]].next = NodeAt(q, i + 1)
  <2>1. CASE i < k
    <3>1. i \in 1 .. m0 /\ i # k /\ q[i] = p[i]
      <4>1. i \in 1 .. m0 /\ i # k
        BY <1>1, <2>1
      <4>2. QED
        BY <1>1, <2>1, <4>1
    <3>2. NodeAt(p, i - 1) = NodeAt(q, i - 1) /\ i # k + 1
      BY <1>1, <2>1 DEF NodeAt
    <3>3. (IF i = k - 1 THEN suc ELSE NodeAt(p, i + 1)) = NodeAt(q, i + 1)
      BY <1>1, <2>1 DEF NodeAt, suc
    <3>4. QED
      BY <1>9, <3>1, <3>2, <3>3
  <2>2. CASE i >= k
    <3>1. i + 1 \in 1 .. m0 /\ i + 1 # k /\ q[i] = p[i + 1] /\ (i + 1) - 1 = i /\ i + 1 # k - 1
      BY <1>1, <2>2
    <3>2. NodeAt(p, (i + 1) + 1) = NodeAt(q, i + 1)
      BY <1>1, <2>2 DEF NodeAt
    <3>3. (IF i + 1 = k + 1 THEN pre ELSE NodeAt(p, i)) = NodeAt(q, i - 1)
      BY <1>1, <2>2 DEF NodeAt, pre
    <3>4. QED
      BY <1>9, <3>1, <3>2, <3>3
  <2>3. QED
    BY <1>1, <2>1, <2>2
<1>12. node \in [Nodes -> LNode \cup {NULL}] /\ t.hd \in [head: Nodes \cup {NULL}, tail: Nodes \cup {NULL}, size: Nat]
  <2>1. \A m \in Nodes : node[m] \in LNode \cup {NULL}
    BY <1>1, <1>10, <1>11, SMTT(30)
  <2>2. node \in [Nodes -> LNode \cup {NULL}]
    BY <1>3, <2>1
  <2>3. s.hd \in [head: Nodes \cup {NULL}, tail: Nodes \cup {NULL}, size: Nat] /\ s.hd.size = m0
    BY DEF Linked
  <2>4. QED
    BY <1>1, <1>2, <1>3, <2>2, <2>3
<1>13. QED
  BY <1>1, <1>4, <1>6, <1>7, <1>10, <1>11, <1>12 DEF Linked, node

\* What the nodes hold then.
LEMMA LinkInValues ==
    ASSUME NEW s, NEW p, Linked(s, p), NEW k \in 1 .. Len(p) + 1, NEW n \in Free(s),
           NEW x \in Items, NEW q, Inserted(Nodes, q, p, k, n), NEW t,
           t = LinkIn(s, n, NodeAt(p, k - 1), NodeAt(p, k), x)
    PROVE  ValuesOf(t.node, q) = InsertAt(ValuesOf(s.node, p), k, x)
<1> DEFINE a == ValuesOf(s.node, p)
           b == ValuesOf(t.node, q)
           c == InsertAt(a, k, x)
           m0 == Len(p)
<1>1. /\ p \in Seq(Nodes) /\ m0 \in Nat /\ n \in Nodes
      /\ \A i \in 1 .. m0 : p[i] \in Nodes /\ p[i] # n /\ s.node[p[i]] \in LNode
      /\ Len(q) = m0 + 1 /\ k \in Int /\ 1 <= k /\ k <= m0 + 1
      /\ \A i \in 1 .. m0 + 1 : q[i] = IF i < k THEN p[i] ELSE IF i = k THEN n ELSE p[i - 1]
  BY ListAssumption DEF Linked, Inserted, Free, LNode
<1>2. a \in Seq(Items) /\ Len(a) = m0 /\ \A i \in 1 .. m0 : a[i] = s.node[p[i]].val
  BY <1>1 DEF ValuesOf, LNode
<1>3. c \in Seq(Items) /\ Len(c) = m0 + 1 /\ \A i \in 1 .. m0 + 1 : c[i] = IF i < k THEN a[i] ELSE IF i = k THEN x ELSE a[i - 1]
  <2> HIDE DEF a, c
  <2>1. Inserted(Items, InsertAt(a, k, x), a, k, x)
    BY <1>2, InsertAtIs
  <2>2. QED
    BY <1>2, <2>1 DEF Inserted, c
<1>4. t.node[n].val = x /\ \A i \in 1 .. m0 : t.node[p[i]].val = s.node[p[i]].val
  BY <1>1 DEF LinkIn
<1> HIDE DEF a, c
<1>5. ASSUME NEW i \in 1 .. m0 + 1 PROVE t.node[q[i]].val = c[i]
  <2>1. CASE i < k
    <3>1. i \in 1 .. m0 /\ q[i] = p[i] /\ c[i] = a[i]
      BY <1>1, <1>3, <2>1
    <3>2. QED
      BY <1>2, <1>4, <3>1
  <2>2. CASE i = k
    BY <1>1, <1>3, <1>4, <2>2
  <2>3. CASE i > k
    <3>1. i - 1 \in 1 .. m0 /\ q[i] = p[i - 1] /\ c[i] = a[i - 1]
      BY <1>1, <1>3, <2>3
    <3>2. QED
      BY <1>2, <1>4, <3>1
  <2>4. QED
    BY <1>1, <2>1, <2>2, <2>3
<1>6. c = [i \in 1 .. m0 + 1 |-> c[i]]
  BY <1>3
<1>7. QED
  BY <1>1, <1>5, <1>6 DEF ValuesOf, a, c

LEMMA LinkOutValues ==
    ASSUME NEW s, NEW p, Linked(s, p), NEW k \in 1 .. Len(p), NEW q, Removed(Nodes, q, p, k), NEW t,
           t = LinkOut(s, p[k], NodeAt(p, k - 1), NodeAt(p, k + 1))
    PROVE  ValuesOf(t.node, q) = RemoveAt(ValuesOf(s.node, p), k)
<1> DEFINE a == ValuesOf(s.node, p)
           b == ValuesOf(t.node, q)
           c == RemoveAt(a, k)
           m0 == Len(p)
<1>1. /\ p \in Seq(Nodes) /\ m0 \in Nat
      /\ \A i \in 1 .. m0 : p[i] \in Nodes /\ (p[i] = p[k] <=> i = k) /\ s.node[p[i]] \in LNode
      /\ Len(q) = m0 - 1 /\ k \in Int /\ 1 <= k /\ k <= m0
      /\ \A i \in 1 .. m0 - 1 : q[i] = IF i < k THEN p[i] ELSE p[i + 1]
  BY ListAssumption DEF Linked, Removed, LNode, Once
<1>2. a \in Seq(Items) /\ Len(a) = m0 /\ \A i \in 1 .. m0 : a[i] = s.node[p[i]].val
  BY <1>1 DEF ValuesOf, LNode
<1>3. c \in Seq(Items) /\ Len(c) = m0 - 1 /\ \A i \in 1 .. m0 - 1 : c[i] = IF i < k THEN a[i] ELSE a[i + 1]
  <2> HIDE DEF a, c
  <2>1. Removed(Items, RemoveAt(a, k), a, k)
    BY <1>2, RemoveAtIs
  <2>2. QED
    BY <1>2, <2>1 DEF Removed, c
<1>4. \A i \in 1 .. m0 : i # k => t.node[p[i]].val = s.node[p[i]].val
  BY <1>1 DEF LinkOut
<1> HIDE DEF a, c
<1>5. ASSUME NEW i \in 1 .. m0 - 1 PROVE t.node[q[i]].val = c[i]
  <2> DEFINE j == IF i < k THEN i ELSE i + 1
  <2>1. j \in 1 .. m0 /\ j # k /\ q[i] = p[j] /\ c[i] = a[j]
    BY <1>1, <1>3
  <2> HIDE DEF j
  <2>2. QED
    BY <1>2, <1>4, <2>1
<1>6. c = [i \in 1 .. m0 - 1 |-> c[i]]
  BY <1>3
<1>7. QED
  BY <1>1, <1>5, <1>6 DEF ValuesOf, a, c

\* s, which holds the values old in p, becomes t, which holds the values of new.
ListStep(t, new) == \E q : Linked(t, q) /\ new = ValuesOf(t.node, q)

LEMMA LinkInStep ==
    ASSUME NEW s, NEW p, Linked(s, p), NEW k \in 1 .. Len(p) + 1, NEW n \in Free(s), NEW x \in Items
    PROVE  ListStep(LinkIn(s, n, NodeAt(p, k - 1), NodeAt(p, k), x), InsertAt(ValuesOf(s.node, p), k, x))
<1> DEFINE t == LinkIn(s, n, NodeAt(p, k - 1), NodeAt(p, k), x)
           q == InsertAt(p, k, n)
<1>1. p \in Seq(Nodes) /\ n \in Nodes
  BY DEF Linked, Free
<1>2. Inserted(Nodes, q, p, k, n)
  BY <1>1, InsertAtIs
<1> HIDE DEF q, t
<1>3. Linked(t, q)
  BY <1>2, LinkInKeeps DEF t
<1>4. ValuesOf(t.node, q) = InsertAt(ValuesOf(s.node, p), k, x)
  BY <1>2, LinkInValues DEF t
<1>5. QED
  BY <1>3, <1>4 DEF ListStep, t

LEMMA LinkOutStep ==
    ASSUME NEW s, NEW p, Linked(s, p), NEW k \in 1 .. Len(p)
    PROVE  ListStep(LinkOut(s, p[k], NodeAt(p, k - 1), NodeAt(p, k + 1)), RemoveAt(ValuesOf(s.node, p), k))
<1> DEFINE t == LinkOut(s, p[k], NodeAt(p, k - 1), NodeAt(p, k + 1))
           q == RemoveAt(p, k)
<1>1. p \in Seq(Nodes)
  BY DEF Linked
<1>2. Removed(Nodes, q, p, k)
  BY <1>1, RemoveAtIs
<1> HIDE DEF q, t
<1>3. Linked(t, q)
  BY <1>2, LinkOutKeeps DEF t
<1>4. ValuesOf(t.node, q) = RemoveAt(ValuesOf(s.node, p), k)
  BY <1>2, LinkOutValues DEF t
<1>5. QED
  BY <1>3, <1>4 DEF ListStep, t

\* What the walks meet: the types of a list and of a node in it.
LEMMA LinkedNode ==
    ASSUME NEW s, NEW p, Linked(s, p), NEW k \in 1 .. Len(p)
    PROVE  /\ p[k] \in Nodes /\ p[k] # NULL /\ s.node[p[k]] \in LNode
           /\ s.node[p[k]].prev = NodeAt(p, k - 1) /\ s.node[p[k]].next = NodeAt(p, k + 1)
  BY ListAssumption DEF Linked

LEMMA LinkedEnds ==
    ASSUME NEW s, NEW p, Linked(s, p)
    PROVE  /\ p \in Seq(Nodes) /\ Len(p) \in Nat /\ NodeAt(p, 0) = NULL /\ NodeAt(p, Len(p) + 1) = NULL
           /\ s.hd.head = NodeAt(p, 1) /\ s.hd.tail = NodeAt(p, Len(p))
           /\ (NodeAt(p, 1) = NULL <=> Len(p) = 0) /\ (NodeAt(p, Len(p)) = NULL <=> Len(p) = 0)
  BY ListAssumption DEF Linked, NodeAt
\* A list by its parts, and what the assignments to its fields make of it.
Lst(a, b, c, f) == [hd |-> [head |-> a, tail |-> b, size |-> c], node |-> f]
PutNode(f, n, y) == [f EXCEPT ![n] = y]
PutPrev(f, n, y) == [f EXCEPT ![n].prev = y]
PutNext(f, n, y) == [f EXCEPT ![n].next = y]

LEMMA SetEnds ==
    ASSUME NEW a, NEW b, NEW c, NEW f, NEW n
    PROVE  /\ SetHead(Lst(a, b, c, f), n) = Lst(n, b, c, f)
           /\ SetTail(Lst(a, b, c, f), n) = Lst(a, n, c, f)
<1> DEFINE s == Lst(a, b, c, f)
           g == [head |-> a, tail |-> b, size |-> c]
<1>1. s = [hd |-> g, node |-> f] /\ s.hd = g
  BY DEF Lst
<1>2. /\ [g EXCEPT !.head = n] = [head |-> n, tail |-> b, size |-> c]
      /\ [g EXCEPT !.tail = n] = [head |-> a, tail |-> n, size |-> c]
  OBVIOUS
<1> HIDE DEF s, g
<1>3. \A d : [s EXCEPT !.hd = d] = [hd |-> d, node |-> f]
  BY <1>1
<1>4. SetHead(s, n) = Lst(n, b, c, f) /\ SetTail(s, n) = Lst(a, n, c, f)
  BY <1>1, <1>2, <1>3 DEF SetHead, SetTail, Lst
<1>5. QED
  BY <1>4 DEF s

LEMMA SetPointers ==
    ASSUME NEW a, NEW b, NEW c, NEW f, NEW n, NEW y
    PROVE  /\ SetPrev(Lst(a, b, c, f), n, y) = Lst(a, b, c, PutPrev(f, n, y))
           /\ SetNext(Lst(a, b, c, f), n, y) = Lst(a, b, c, PutNext(f, n, y))
<1> DEFINE s == Lst(a, b, c, f)
           g == [head |-> a, tail |-> b, size |-> c]
<1>1. s = [hd |-> g, node |-> f] /\ s.node = f
  BY DEF Lst
<1> HIDE DEF s, g
<1>2. \A d : [s EXCEPT !.node = d] = [hd |-> g, node |-> d]
  BY <1>1
<1>3. SetPrev(s, n, y) = Lst(a, b, c, PutPrev(f, n, y))
  BY <1>1, <1>2, Zenon DEF SetPrev, PutPrev, Lst, g
<1>4. SetNext(s, n, y) = Lst(a, b, c, PutNext(f, n, y))
  BY <1>1, <1>2, Zenon DEF SetNext, PutNext, Lst, g
<1>5. QED
  BY <1>3, <1>4 DEF s

LEMMA DeleteIs ==
    ASSUME NEW a, NEW b, NEW c, NEW f, NEW n
    PROVE  Delete(Lst(a, b, c, f), n) = Lst(a, b, c - 1, PutNode(f, n, NULL))
<1> DEFINE s == Lst(a, b, c, f)
           g == [head |-> a, tail |-> b, size |-> c]
<1>1. s = [hd |-> g, node |-> f] /\ s.hd = g /\ s.node = f
  BY DEF Lst
<1>2. g.size = c /\ [g EXCEPT !.size = c - 1] = [head |-> a, tail |-> b, size |-> c - 1]
  OBVIOUS
<1> HIDE DEF s, g
<1>3. Delete(s, n) = Lst(a, b, c - 1, PutNode(f, n, NULL))
  <2> DEFINE F == PutNode(f, n, NULL)
             u == [s EXCEPT !.node = F]
  <2>1. Delete(s, n) = [u EXCEPT !.hd = [u.hd EXCEPT !.size = u.hd.size - 1]]
    BY <1>1 DEF Delete, PutNode
  <2> HIDE DEF F
  <2>2. u = [hd |-> g, node |-> F]
    BY <1>1
  <2> HIDE DEF u
  <2>3. u.hd = g /\ \A d : [u EXCEPT !.hd = d] = [hd |-> d, node |-> F]
    BY <2>2
  <2>4. Delete(s, n) = [hd |-> [g EXCEPT !.size = c - 1], node |-> F]
    BY <1>2, <2>1, <2>3
  <2>5. QED
    BY <1>2, <2>4 DEF Lst, F
<1>4. QED
  BY <1>3 DEF s

LEMMA ListNew ==
    ASSUME NEW a, NEW b, NEW c, NEW f, NEW n, NEW y, NEW z, NEW x
    PROVE  New(Lst(a, b, c, f), n, y, z, x)
             = Lst(a, b, c + 1, PutNode(f, n, [prev |-> y, next |-> z, val |-> x]))
<1> DEFINE s == Lst(a, b, c, f)
           g == [head |-> a, tail |-> b, size |-> c]
           r == [prev |-> y, next |-> z, val |-> x]
<1>1. s = [hd |-> g, node |-> f] /\ s.hd = g /\ s.node = f
  BY DEF Lst
<1>2. g.size = c /\ [g EXCEPT !.size = c + 1] = [head |-> a, tail |-> b, size |-> c + 1]
  OBVIOUS
<1> HIDE DEF s, g, r
<1>3. New(s, n, y, z, x) = Lst(a, b, c + 1, PutNode(f, n, r))
  <2> DEFINE F == PutNode(f, n, r)
             u == [s EXCEPT !.node = F]
  <2>1. New(s, n, y, z, x) = [u EXCEPT !.hd = [u.hd EXCEPT !.size = u.hd.size + 1]]
    BY <1>1 DEF New, PutNode, r
  <2> HIDE DEF F
  <2>2. u = [hd |-> g, node |-> F]
    BY <1>1
  <2> HIDE DEF u
  <2>3. u.hd = g /\ \A d : [u EXCEPT !.hd = d] = [hd |-> d, node |-> F]
    BY <2>2
  <2>4. New(s, n, y, z, x) = [hd |-> [g EXCEPT !.size = c + 1], node |-> F]
    BY <1>2, <2>1, <2>3
  <2>5. QED
    BY <1>2, <2>4 DEF Lst, F
<1>4. QED
  BY <1>3 DEF s, r

NodeMap == [Nodes -> LNode \cup {NULL}]

\* Which node an assignment changes, and how.
LEMMA NodeParts ==
    ASSUME NEW f \in NodeMap, NEW n \in Nodes, NEW y \in Nodes \cup {NULL}, f[n] \in LNode
    PROVE  LET p == PutPrev(f, n, y)
               q == PutNext(f, n, y)
           IN  /\ p \in NodeMap /\ \A m \in Nodes : m # n => p[m] = f[m]
               /\ p[n] = [prev |-> y, next |-> f[n].next, val |-> f[n].val]
               /\ q \in NodeMap /\ \A m \in Nodes : m # n => q[m] = f[m]
               /\ q[n] = [prev |-> f[n].prev, next |-> y, val |-> f[n].val]
  BY DEF PutPrev, PutNext, NodeMap, LNode

LEMMA NodePut ==
    ASSUME NEW f \in NodeMap, NEW n \in Nodes, NEW y \in LNode \cup {NULL}
    PROVE  LET p == PutNode(f, n, y)
           IN  p \in NodeMap /\ p[n] = y /\ \A m \in Nodes : m # n => p[m] = f[m]
  BY DEF PutNode, NodeMap, LNode

\* The node before and the node after, if there are any, point to y.
Before(f, pre, y) == IF pre = NULL THEN f ELSE PutNext(f, pre, y)
After(f, suc, y)  == IF suc = NULL THEN f ELSE PutPrev(f, suc, y)

\* pre and suc are different nodes in use, or null.
Around(f, n, pre, suc) ==
    /\ f \in NodeMap /\ n \in Nodes /\ pre \in Nodes \cup {NULL} /\ suc \in Nodes \cup {NULL}
    /\ pre # n /\ suc # n /\ (pre = suc => pre = NULL)
    /\ pre # NULL => f[pre] \in LNode
    /\ suc # NULL => f[suc] \in LNode

LEMMA BeforeIs ==
    ASSUME NEW f \in NodeMap, NEW pre \in Nodes \cup {NULL}, NEW y \in Nodes \cup {NULL},
           pre # NULL => f[pre] \in LNode
    PROVE  LET g == Before(f, pre, y)
           IN  /\ g \in NodeMap /\ \A m \in Nodes : m # pre => g[m] = f[m]
               /\ pre # NULL => g[pre] = [prev |-> f[pre].prev, next |-> y, val |-> f[pre].val] /\ g[pre] \in LNode
<1>1. CASE pre = NULL
  BY <1>1, ListAssumption DEF Before
<1>2. CASE pre # NULL
  <2> DEFINE q == PutNext(f, pre, y)
  <2>1. /\ q \in NodeMap /\ \A m \in Nodes : m # pre => q[m] = f[m]
        /\ q[pre] = [prev |-> f[pre].prev, next |-> y, val |-> f[pre].val]
    BY <1>2, NodeParts, ZenonT(30)
  <2>2. Before(f, pre, y) = q
    BY <1>2 DEF Before
  <2> HIDE DEF q
  <2>3. QED
    BY <1>2, <2>1, <2>2 DEF LNode
<1>3. QED
  BY <1>1, <1>2

LEMMA AfterIs ==
    ASSUME NEW f \in NodeMap, NEW suc \in Nodes \cup {NULL}, NEW y \in Nodes \cup {NULL},
           suc # NULL => f[suc] \in LNode
    PROVE  LET g == After(f, suc, y)
           IN  /\ g \in NodeMap /\ \A m \in Nodes : m # suc => g[m] = f[m]
               /\ suc # NULL => g[suc] = [prev |-> y, next |-> f[suc].next, val |-> f[suc].val] /\ g[suc] \in LNode
<1>1. CASE suc = NULL
  BY <1>1, ListAssumption DEF After
<1>2. CASE suc # NULL
  <2> DEFINE q == PutPrev(f, suc, y)
  <2>1. /\ q \in NodeMap /\ \A m \in Nodes : m # suc => q[m] = f[m]
        /\ q[suc] = [prev |-> y, next |-> f[suc].next, val |-> f[suc].val]
    BY <1>2, NodeParts, ZenonT(30)
  <2>2. After(f, suc, y) = q
    BY <1>2 DEF After
  <2> HIDE DEF q
  <2>3. QED
    BY <1>2, <2>1, <2>2 DEF LNode
<1>3. QED
  BY <1>1, <1>2

\* g is f with a new node between pre and suc; either neighbour may be set first.
PutBetween(g, f, n, pre, suc, x) ==
    LET e == PutNode(f, n, [prev |-> pre, next |-> suc, val |-> x])
    IN  g = After(Before(e, pre, n), suc, n) \/ g = Before(After(e, suc, n), pre, n)

\* The pointers of a node that was put in, whichever neighbour is set first.
LEMMA NodesWith ==
    ASSUME NEW f, NEW n, NEW pre, NEW suc, Around(f, n, pre, suc), NEW x \in Items, NEW g,
           PutBetween(g, f, n, pre, suc, x)
    PROVE  g = [m \in Nodes |->
                  IF m = n THEN [prev |-> pre, next |-> suc, val |-> x]
                  ELSE IF m = pre THEN [prev |-> f[m].prev, next |-> n, val |-> f[m].val]
                  ELSE IF m = suc THEN [prev |-> n, next |-> f[m].next, val |-> f[m].val]
                  ELSE f[m]]
<1> DEFINE r == [prev |-> pre, next |-> suc, val |-> x]
           e == PutNode(f, n, r)
           a == Before(e, pre, n)
           b == After(a, suc, n)
           c == After(e, suc, n)
           d == Before(c, pre, n)
<1>0. /\ f \in NodeMap /\ n \in Nodes /\ pre \in Nodes \cup {NULL} /\ suc \in Nodes \cup {NULL}
      /\ pre # n /\ suc # n /\ (pre = suc => pre = NULL)
      /\ pre # NULL => f[pre] \in LNode
      /\ suc # NULL => f[suc] \in LNode
      /\ NULL \notin Nodes /\ r \in LNode
  BY ListAssumption DEF Around, LNode
<1> HIDE DEF r
<1>1. e \in NodeMap /\ e[n] = r /\ \A m \in Nodes : m # n => e[m] = f[m]
  BY <1>0, NodePut
<1> HIDE DEF e
<1>2. (pre # NULL => e[pre] \in LNode) /\ (suc # NULL => e[suc] \in LNode)
  BY <1>0, <1>1
<1>3. /\ a \in NodeMap /\ \A m \in Nodes : m # pre => a[m] = e[m]
      /\ pre # NULL => a[pre] = [prev |-> e[pre].prev, next |-> n, val |-> e[pre].val] /\ a[pre] \in LNode
  BY <1>0, <1>1, <1>2, BeforeIs
<1>4. /\ c \in NodeMap /\ \A m \in Nodes : m # suc => c[m] = e[m]
      /\ suc # NULL => c[suc] = [prev |-> n, next |-> e[suc].next, val |-> e[suc].val] /\ c[suc] \in LNode
  BY <1>0, <1>1, <1>2, AfterIs
<1> HIDE DEF a, c
<1>5. (pre # NULL => c[pre] \in LNode) /\ (suc # NULL => a[suc] \in LNode)
  BY <1>0, <1>2, <1>3, <1>4
<1>6. /\ b \in NodeMap /\ \A m \in Nodes : m # suc => b[m] = a[m]
      /\ suc # NULL => b[suc] = [prev |-> n, next |-> a[suc].next, val |-> a[suc].val] /\ b[suc] \in LNode
  BY <1>0, <1>3, <1>5, AfterIs
<1>7. /\ d \in NodeMap /\ \A m \in Nodes : m # pre => d[m] = c[m]
      /\ pre # NULL => d[pre] = [prev |-> c[pre].prev, next |-> n, val |-> c[pre].val] /\ d[pre] \in LNode
  BY <1>0, <1>4, <1>5, BeforeIs
<1> HIDE DEF b, d
<1> DEFINE G(m) == IF m = n THEN r
                   ELSE IF m = pre THEN [prev |-> f[m].prev, next |-> n, val |-> f[m].val]
                   ELSE IF m = suc THEN [prev |-> n, next |-> f[m].next, val |-> f[m].val]
                   ELSE f[m]
<1>8. ASSUME NEW m \in Nodes PROVE b[m] = G(m) /\ d[m] = G(m)
  <2>1. CASE m = n
    BY <1>0, <1>1, <1>3, <1>4, <1>6, <1>7, <2>1
  <2>2. CASE m = pre
    BY <1>0, <1>1, <1>3, <1>4, <1>6, <1>7, <2>2
  <2>3. CASE m = suc
    BY <1>0, <1>1, <1>3, <1>4, <1>6, <1>7, <2>3
  <2>4. CASE m # n /\ m # pre /\ m # suc
    BY <1>0, <1>1, <1>3, <1>4, <1>6, <1>7, <2>4
  <2>5. QED
    BY <2>1, <2>2, <2>3, <2>4
<1>9. b = [m \in Nodes |-> G(m)] /\ d = [m \in Nodes |-> G(m)]
  BY <1>6, <1>7, <1>8 DEF NodeMap
<1>10. g = b \/ g = d
  BY Zenon DEF a, b, c, d, e, r, PutBetween
<1>11. QED
  BY <1>9, <1>10, Zenon DEF r

\* The pointers once a node was taken out.
LEMMA NodesWithout ==
    ASSUME NEW f, NEW n, NEW pre, NEW suc, Around(f, n, pre, suc), NEW g,
           g = PutNode(After(Before(f, pre, suc), suc, pre), n, NULL)
    PROVE  g = [m \in Nodes |->
                  IF m = n THEN NULL
                  ELSE IF m = pre THEN [prev |-> f[m].prev, next |-> suc, val |-> f[m].val]
                  ELSE IF m = suc THEN [prev |-> pre, next |-> f[m].next, val |-> f[m].val]
                  ELSE f[m]]
<1> DEFINE a == Before(f, pre, suc)
           b == After(a, suc, pre)
<1>0. /\ f \in NodeMap /\ n \in Nodes /\ pre \in Nodes \cup {NULL} /\ suc \in Nodes \cup {NULL}
      /\ pre # n /\ suc # n /\ (pre = suc => pre = NULL)
      /\ pre # NULL => f[pre] \in LNode
      /\ suc # NULL => f[suc] \in LNode
      /\ NULL \notin Nodes
  BY ListAssumption DEF Around
<1>1. /\ a \in NodeMap /\ \A m \in Nodes : m # pre => a[m] = f[m]
      /\ pre # NULL => a[pre] = [prev |-> f[pre].prev, next |-> suc, val |-> f[pre].val] /\ a[pre] \in LNode
  BY <1>0, BeforeIs
<1> HIDE DEF a
<1>2. suc # NULL => a[suc] \in LNode
  BY <1>0, <1>1
<1>3. /\ b \in NodeMap /\ \A m \in Nodes : m # suc => b[m] = a[m]
      /\ suc # NULL => b[suc] = [prev |-> pre, next |-> a[suc].next, val |-> a[suc].val] /\ b[suc] \in LNode
  BY <1>0, <1>1, <1>2, AfterIs
<1> HIDE DEF b
<1>4. g \in NodeMap /\ g[n] = NULL /\ \A m \in Nodes : m # n => g[m] = b[m]
  <2>1. g = PutNode(b, n, NULL)
    BY Zenon DEF a, b
  <2>2. QED
    BY <1>0, <1>3, <2>1, NodePut
<1> DEFINE G(m) == IF m = n THEN NULL
                   ELSE IF m = pre THEN [prev |-> f[m].prev, next |-> suc, val |-> f[m].val]
                   ELSE IF m = suc THEN [prev |-> pre, next |-> f[m].next, val |-> f[m].val]
                   ELSE f[m]
<1>5. ASSUME NEW m \in Nodes PROVE g[m] = G(m)
  BY <1>0, <1>1, <1>3, <1>4
<1>6. QED
  BY <1>4, <1>5 DEF NodeMap

\* s is nothing but its parts.
IsLst(s) == s = Lst(s.hd.head, s.hd.tail, s.hd.size, s.node)

\* The nodes around a place of the list.
LEMMA LinkedAround ==
    ASSUME NEW s, NEW p, Linked(s, p)
    PROVE  /\ IsLst(s)
           /\ \A k \in 1 .. Len(p) + 1, n \in Free(s) : Around(s.node, n, NodeAt(p, k - 1), NodeAt(p, k))
           /\ \A k \in 1 .. Len(p) : Around(s.node, p[k], NodeAt(p, k - 1), NodeAt(p, k + 1))
<1>1. /\ s.node \in NodeMap /\ p \in Seq(Nodes) /\ Len(p) \in Nat /\ Once(p) /\ NULL \notin Nodes /\ NULL \notin LNode
      /\ \A i \in 1 .. Len(p) : p[i] \in Nodes /\ s.node[p[i]] \in LNode
  BY ListAssumption DEF Linked, NodeMap, LNode
<1>2. IsLst(s)
  BY DEF Linked, Lst, IsLst
<1>3. ASSUME NEW k \in 1 .. Len(p) + 1, NEW n \in Free(s) PROVE Around(s.node, n, NodeAt(p, k - 1), NodeAt(p, k))
  BY <1>1 DEF Around, NodeAt, Free, Once
<1>4. ASSUME NEW k \in 1 .. Len(p) PROVE Around(s.node, p[k], NodeAt(p, k - 1), NodeAt(p, k + 1))
  BY <1>1 DEF Around, NodeAt, Once
<1>5. QED
  BY <1>2, <1>3, <1>4

\* g is what a list has for nodes once n was put in.
LinkInHas(s, n, pre, suc, x, g) ==
    Lst(IF pre = NULL THEN n ELSE s.hd.head, IF suc = NULL THEN n ELSE s.hd.tail, s.hd.size + 1, g)
      = LinkIn(s, n, pre, suc, x)

\* A list with these ends and these nodes is the list with a node put in, or taken out.
LEMMA SameLinkIn ==
    ASSUME NEW s, NEW n, NEW pre, NEW suc, Around(s.node, n, pre, suc), NEW x \in Items, NEW g,
           PutBetween(g, s.node, n, pre, suc, x)
    PROVE  LinkInHas(s, n, pre, suc, x, g)
<1> DEFINE f == s.node
<1>1. g = [m \in Nodes |->
             IF m = n THEN [prev |-> pre, next |-> suc, val |-> x]
             ELSE IF m = pre THEN [prev |-> f[m].prev, next |-> n, val |-> f[m].val]
             ELSE IF m = suc THEN [prev |-> n, next |-> f[m].next, val |-> f[m].val]
             ELSE f[m]]
  <2> HIDE DEF f
  <2>1. Around(f, n, pre, suc) /\ PutBetween(g, f, n, pre, suc, x)
    BY DEF f
  <2>2. QED
    BY <2>1, NodesWith
<1>2. QED
  BY <1>1, Zenon DEF Lst, LinkIn, LinkInHas

LEMMA SameLinkOut ==
    ASSUME NEW s, NEW n, NEW pre, NEW suc, Around(s.node, n, pre, suc)
    PROVE  Lst(IF pre = NULL THEN suc ELSE s.hd.head, IF suc = NULL THEN pre ELSE s.hd.tail, s.hd.size - 1,
               PutNode(After(Before(s.node, pre, suc), suc, pre), n, NULL))
             = LinkOut(s, n, pre, suc)
<1> DEFINE f == s.node
           g == PutNode(After(Before(s.node, pre, suc), suc, pre), n, NULL)
<1>1. g = [m \in Nodes |->
             IF m = n THEN NULL
             ELSE IF m = pre THEN [prev |-> f[m].prev, next |-> suc, val |-> f[m].val]
             ELSE IF m = suc THEN [prev |-> pre, next |-> f[m].next, val |-> f[m].val]
             ELSE f[m]]
  <2>1. g = PutNode(After(Before(f, pre, suc), suc, pre), n, NULL)
    OBVIOUS
  <2> HIDE DEF f, g
  <2>2. Around(f, n, pre, suc)
    BY DEF f
  <2>3. QED
    BY <2>1, <2>2, NodesWithout
<1>2. QED
  BY <1>1, Zenon DEF Lst, LinkOut
\* The pointer to y that the node before holds, or the head, and the node after, or the tail.
PointBefore(s, pre, y) == IF pre = NULL THEN SetHead(s, y) ELSE SetNext(s, pre, y)
PointAfter(s, suc, y)  == IF suc = NULL THEN SetTail(s, y) ELSE SetPrev(s, suc, y)

LEMMA PointsIs ==
    ASSUME NEW a, NEW b, NEW c, NEW f, NEW n, NEW y
    PROVE  /\ PointBefore(Lst(a, b, c, f), n, y) = Lst(IF n = NULL THEN y ELSE a, b, c, Before(f, n, y))
           /\ PointAfter(Lst(a, b, c, f), n, y) = Lst(a, IF n = NULL THEN y ELSE b, c, After(f, n, y))
<1> DEFINE s == Lst(a, b, c, f)
<1>1. /\ SetHead(s, y) = Lst(y, b, c, f) /\ SetTail(s, y) = Lst(a, y, c, f)
      /\ SetPrev(s, n, y) = Lst(a, b, c, PutPrev(f, n, y))
      /\ SetNext(s, n, y) = Lst(a, b, c, PutNext(f, n, y))
  BY SetEnds, SetPointers
<1> HIDE DEF s
<1>2. CASE n = NULL
  BY <1>1, <1>2 DEF PointBefore, PointAfter, Before, After, s
<1>3. CASE n # NULL
  BY <1>1, <1>3 DEF PointBefore, PointAfter, Before, After, s
<1>4. QED
  BY <1>2, <1>3

\* A node is put in by its two neighbours, in either order.
LEMMA PutIn ==
    ASSUME NEW s, IsLst(s), NEW n, NEW pre, NEW suc,
           Around(s.node, n, pre, suc), NEW x \in Items
    PROVE  LET t == New(s, n, pre, suc, x)
           IN  /\ PointAfter(PointBefore(t, pre, n), suc, n) = LinkIn(s, n, pre, suc, x)
               /\ PointBefore(PointAfter(t, suc, n), pre, n) = LinkIn(s, n, pre, suc, x)
<1> DEFINE a == s.hd.head
           b == s.hd.tail
           c == s.hd.size
           f == s.node
           e == PutNode(f, n, [prev |-> pre, next |-> suc, val |-> x])
           t == New(s, n, pre, suc, x)
           a2 == IF pre = NULL THEN n ELSE a
           b2 == IF suc = NULL THEN n ELSE b
           g == After(Before(e, pre, n), suc, n)
           d == Before(After(e, suc, n), pre, n)
<1>1. t = Lst(a, b, c + 1, e)
  <2> HIDE DEF a, b, c, f
  <2>1. New(Lst(a, b, c, f), n, pre, suc, x) = Lst(a, b, c + 1, e)
    BY ListNew
  <2>2. s = Lst(a, b, c, f)
    BY DEF a, b, c, f, IsLst
  <2>3. QED
    BY <2>1, <2>2, Zenon
<1>2. Lst(a2, b2, c + 1, g) = LinkIn(s, n, pre, suc, x) /\ Lst(a2, b2, c + 1, d) = LinkIn(s, n, pre, suc, x)
  <2>1. PutBetween(g, s.node, n, pre, suc, x) /\ PutBetween(d, s.node, n, pre, suc, x)
    BY Zenon DEF PutBetween
  <2> HIDE DEF g, d
  <2>2. LinkInHas(s, n, pre, suc, x, g) /\ LinkInHas(s, n, pre, suc, x, d)
    BY <2>1, SameLinkIn
  <2>3. QED
    BY <2>2, Zenon DEF LinkInHas
<1> HIDE DEF a, b, c, t, e
<1>3. PointAfter(PointBefore(t, pre, n), suc, n) = Lst(a2, b2, c + 1, g)
  <2>1. PointBefore(t, pre, n) = Lst(a2, b, c + 1, Before(e, pre, n))
    BY <1>1, PointsIs
  <2> HIDE DEF a2
  <2>2. QED
    BY <2>1, PointsIs
<1>4. PointBefore(PointAfter(t, suc, n), pre, n) = Lst(a2, b2, c + 1, d)
  <2>1. PointAfter(t, suc, n) = Lst(a, b2, c + 1, After(e, suc, n))
    BY <1>1, PointsIs
  <2> HIDE DEF b2
  <2>2. QED
    BY <2>1, PointsIs
<1>5. QED
  BY <1>2, <1>3, <1>4 DEF t

\* A node is taken out by its two neighbours.
LEMMA TakeOut ==
    ASSUME NEW s, IsLst(s), NEW n, NEW pre, NEW suc,
           Around(s.node, n, pre, suc)
    PROVE  Delete(PointAfter(PointBefore(s, pre, suc), suc, pre), n) = LinkOut(s, n, pre, suc)
<1> DEFINE a == s.hd.head
           b == s.hd.tail
           c == s.hd.size
           f == s.node
           a2 == IF pre = NULL THEN suc ELSE a
           b2 == IF suc = NULL THEN pre ELSE b
           g == After(Before(f, pre, suc), suc, pre)
<1>1. s = Lst(a, b, c, f)
  BY DEF IsLst
<1>2. Lst(a2, b2, c - 1, PutNode(g, n, NULL)) = LinkOut(s, n, pre, suc)
  BY SameLinkOut
<1> HIDE DEF a, b, c, f
<1>3. PointBefore(s, pre, suc) = Lst(a2, b, c, Before(f, pre, suc))
  BY <1>1, PointsIs
<1> HIDE DEF a2
<1>4. PointAfter(PointBefore(s, pre, suc), suc, pre) = Lst(a2, b2, c, g)
  BY <1>3, PointsIs
<1> HIDE DEF b2, g
<1>5. Delete(Lst(a2, b2, c, g), n) = Lst(a2, b2, c - 1, PutNode(g, n, NULL))
  BY DeleteIs
<1>6. QED
  BY <1>2, <1>4, <1>5

\* Each operation is one or the other.
LEMMA PushFrontIs ==
    ASSUME NEW s, NEW p, Linked(s, p), NEW n \in Free(s), NEW x \in Items
    PROVE  PushFront(s, n, x) = LinkIn(s, n, NodeAt(p, 0), NodeAt(p, 1), x)
<1> DEFINE suc == NodeAt(p, 1)
           t == New(s, n, NULL, suc, x)
<1>1. Len(p) \in Nat /\ NodeAt(p, 0) = NULL /\ s.hd.head = suc
  BY LinkedEnds
<1>2. IsLst(s) /\ Around(s.node, n, NULL, suc)
  BY <1>1, LinkedAround
<1> HIDE DEF suc
<1>3. PushFront(s, n, x) = PointBefore(PointAfter(t, suc, n), NULL, n)
  BY <1>1 DEF PushFront, PointBefore, PointAfter
<1>4. PointBefore(PointAfter(t, suc, n), NULL, n) = LinkIn(s, n, NULL, suc, x)
  BY <1>2, PutIn
<1>5. QED
  BY <1>1, <1>3, <1>4 DEF suc

LEMMA PushBackIs ==
    ASSUME NEW s, NEW p, Linked(s, p), NEW n \in Free(s), NEW x \in Items
    PROVE  PushBack(s, n, x) = LinkIn(s, n, NodeAt(p, Len(p)), NodeAt(p, Len(p) + 1), x)
<1> DEFINE pre == NodeAt(p, Len(p))
           t == New(s, n, pre, NULL, x)
<1>1. Len(p) \in Nat /\ NodeAt(p, Len(p) + 1) = NULL /\ s.hd.tail = pre /\ (Len(p) + 1) - 1 = Len(p)
  BY LinkedEnds
<1>2. IsLst(s) /\ Around(s.node, n, pre, NULL)
  BY <1>1, LinkedAround
<1> HIDE DEF pre
<1>3. PushBack(s, n, x) = PointAfter(PointBefore(t, pre, n), NULL, n)
  BY <1>1 DEF PushBack, PointBefore, PointAfter
<1>4. PointAfter(PointBefore(t, pre, n), NULL, n) = LinkIn(s, n, pre, NULL, x)
  BY <1>2, PutIn
<1>5. QED
  BY <1>1, <1>3, <1>4 DEF pre

LEMMA InsertAfterIs ==
    ASSUME NEW s, NEW p, Linked(s, p), NEW k \in 1 .. Len(p), NEW n \in Free(s), NEW x \in Items
    PROVE  InsertAfter(s, p[k], n, x) = LinkIn(s, n, NodeAt(p, k), NodeAt(p, k + 1), x)
<1> DEFINE pre == NodeAt(p, k)
           suc == NodeAt(p, k + 1)
           t == New(s, n, pre, suc, x)
<1>1. Len(p) \in Nat /\ k + 1 \in 1 .. Len(p) + 1 /\ (k + 1) - 1 = k
  BY LinkedEnds
<1>2. IsLst(s) /\ Around(s.node, n, pre, suc)
  BY <1>1, LinkedAround
<1>3. p[k] = pre /\ pre # NULL /\ s.node[pre].next = suc
  BY LinkedNode DEF NodeAt
<1> HIDE DEF pre, suc
<1>4. InsertAfter(s, pre, n, x) = PointAfter(PointBefore(t, pre, n), suc, n)
  BY <1>3 DEF InsertAfter, PointBefore, PointAfter
<1>5. PointAfter(PointBefore(t, pre, n), suc, n) = LinkIn(s, n, pre, suc, x)
  BY <1>2, PutIn
<1>6. QED
  BY <1>3, <1>4, <1>5 DEF pre, suc

LEMMA InsertBeforeIs ==
    ASSUME NEW s, NEW p, Linked(s, p), NEW k \in 1 .. Len(p), NEW n \in Free(s), NEW x \in Items
    PROVE  InsertBefore(s, p[k], n, x) = LinkIn(s, n, NodeAt(p, k - 1), NodeAt(p, k), x)
<1> DEFINE pre == NodeAt(p, k - 1)
           suc == NodeAt(p, k)
           t == New(s, n, pre, suc, x)
<1>1. Len(p) \in Nat /\ k \in 1 .. Len(p) + 1
  BY LinkedEnds
<1>2. IsLst(s) /\ Around(s.node, n, pre, suc)
  BY <1>1, LinkedAround
<1>3. p[k] = suc /\ suc # NULL /\ s.node[suc].prev = pre
  BY LinkedNode DEF NodeAt
<1> HIDE DEF pre, suc
<1>4. InsertBefore(s, suc, n, x) = PointBefore(PointAfter(t, suc, n), pre, n)
  BY <1>3 DEF InsertBefore, PointBefore, PointAfter
<1>5. PointBefore(PointAfter(t, suc, n), pre, n) = LinkIn(s, n, pre, suc, x)
  BY <1>2, PutIn
<1>6. QED
  BY <1>3, <1>4, <1>5 DEF pre, suc

LEMMA EraseNodeIs ==
    ASSUME NEW s, NEW p, Linked(s, p), NEW k \in 1 .. Len(p)
    PROVE  /\ EraseNode(s, p[k]) = LinkOut(s, p[k], NodeAt(p, k - 1), NodeAt(p, k + 1))
           /\ k = 1 => PopFront(s) = EraseNode(s, p[k])
           /\ k = Len(p) => PopBack(s) = EraseNode(s, p[k])
<1> DEFINE pre == NodeAt(p, k - 1)
           suc == NodeAt(p, k + 1)
           n == p[k]
<1>1. IsLst(s) /\ Around(s.node, n, pre, suc)
  BY LinkedAround
<1>2. n # NULL /\ s.node[n].prev = pre /\ s.node[n].next = suc
  BY LinkedNode
<1>3. /\ pre = NULL <=> s.hd.head = n
      /\ suc = NULL <=> s.hd.tail = n
      /\ k = 1 => pre = NULL
      /\ k = Len(p) => suc = NULL
  BY ListAssumption DEF Linked, NodeAt, Once
<1> HIDE DEF pre, suc, n
<1>4. EraseNode(s, n) = Delete(PointAfter(PointBefore(s, pre, suc), suc, pre), n)
  BY <1>2, <1>3 DEF EraseNode, PointBefore, PointAfter
<1>5. Delete(PointAfter(PointBefore(s, pre, suc), suc, pre), n) = LinkOut(s, n, pre, suc)
  BY <1>1, TakeOut
<1>6. ASSUME k = 1 PROVE PopFront(s) = EraseNode(s, n)
  <2>1. pre = NULL /\ s.hd.head = n
    BY <1>3, <1>6
  <2>2. PopFront(s) = Delete(PointAfter(SetHead(s, suc), suc, NULL), n)
    BY <1>2, <2>1 DEF PopFront, PointAfter
  <2>3. PointBefore(s, pre, suc) = SetHead(s, suc)
    BY <2>1 DEF PointBefore
  <2>4. QED
    BY <1>4, <2>1, <2>2, <2>3
<1>7. ASSUME k = Len(p) PROVE PopBack(s) = EraseNode(s, n)
  <2>1. suc = NULL /\ s.hd.tail = n
    BY <1>3, <1>7
  <2>2. PopBack(s) = Delete(PointBefore(SetTail(s, pre), pre, NULL), n)
    BY <1>2, <2>1 DEF PopBack, PointBefore
  <2> DEFINE a == s.hd.head
             b == s.hd.tail
             c == s.hd.size
             f == s.node
  <2>3. s = Lst(a, b, c, f)
    BY <1>1 DEF IsLst
  <2> HIDE DEF a, b, c, f
  <2>4. SetTail(s, pre) = Lst(a, pre, c, f)
    BY <2>3, SetEnds
  <2>5. PointBefore(SetTail(s, pre), pre, NULL) = Lst(IF pre = NULL THEN NULL ELSE a, pre, c, Before(f, pre, NULL))
    BY <2>4, PointsIs
  <2> DEFINE a2 == IF pre = NULL THEN NULL ELSE a
             g == Before(f, pre, NULL)
  <2>6. PointBefore(s, pre, NULL) = Lst(a2, b, c, g)
    BY <2>3, PointsIs
  <2> HIDE DEF a2, g
  <2>7. PointAfter(Lst(a2, b, c, g), NULL, pre) = Lst(a2, pre, c, g)
    BY PointsIs DEF After
  <2>8. QED
    BY <1>4, <2>1, <2>2, <2>5, <2>6, <2>7 DEF a2, g
<1>8. QED
  BY <1>4, <1>5, <1>6, <1>7 DEF pre, suc, n

-----------------------------------------------------------------------------
\* Walks along the pointers of the list.

\* The first k nodes of p, or all of them.
FirstNodes(p, k) == [i \in 1 .. (IF k < Len(p) THEN k ELSE Len(p)) |-> p[i]]

\* follow leads from each node of p to the one after it.
Leads(follow, p) == \A i \in 1 .. Len(p) : follow[p[i]] = NodeAt(p, i + 1)

\* One step of a walk.
WalkOn(w, start, follow) ==
    LET x == IF w = <<>> THEN start ELSE follow[Last(w)]
    IN  IF x = NULL THEN w ELSE Append(w, x)

LEMMA FirstNodesIs ==
    ASSUME NEW p \in Seq(Nodes), NEW k \in Nat
    PROVE  LET f == FirstNodes(p, k)
               m == IF k < Len(p) THEN k ELSE Len(p)
           IN  f \in Seq(Nodes) /\ Len(f) = m /\ \A i \in 1 .. m : f[i] = p[i]
<1> DEFINE m == IF k < Len(p) THEN k ELSE Len(p)
<1>1. m \in Nat /\ \A i \in 1 .. m : p[i] \in Nodes
  OBVIOUS
<1> HIDE DEF m
<1>2. LET f == [i \in 1 .. m |-> p[i]] IN f \in Seq(Nodes) /\ Len(f) = m /\ \A i \in 1 .. m : f[i] = p[i]
  BY <1>1
<1>3. QED
  BY <1>2 DEF m, FirstNodes

LEMMA WalkStep ==
    ASSUME NEW p \in Seq(Nodes), NEW follow, Leads(follow, p), NEW k \in Nat \ {0}
    PROVE  WalkOn(FirstNodes(p, k - 1), NodeAt(p, 1), follow) = FirstNodes(p, k)
<1> DEFINE f == FirstNodes(p, k - 1)
           g == FirstNodes(p, k)
           n == Len(p)
           x == IF f = <<>> THEN NodeAt(p, 1) ELSE follow[Last(f)]
<1>1. n \in Nat /\ NULL \notin Nodes /\ k - 1 \in Nat /\ k \in Nat
  BY ListAssumption
<1>2. f \in Seq(Nodes) /\ Len(f) = (IF k - 1 < n THEN k - 1 ELSE n) /\ \A i \in 1 .. (IF k - 1 < n THEN k - 1 ELSE n) : f[i] = p[i]
  BY <1>1, FirstNodesIs
<1>3. g \in Seq(Nodes) /\ Len(g) = (IF k < n THEN k ELSE n) /\ \A i \in 1 .. (IF k < n THEN k ELSE n) : g[i] = p[i]
  BY <1>1, FirstNodesIs
<1> HIDE DEF f, g
<1>4. CASE k - 1 < n
  <2>1. Len(f) = k - 1 /\ Len(g) = k /\ k \in 1 .. n /\ (\A i \in 1 .. k - 1 : f[i] = p[i]) /\ \A i \in 1 .. k : g[i] = p[i]
    BY <1>1, <1>2, <1>3, <1>4
  <2>2. x = p[k]
    <3>1. CASE k = 1
      <4>1. f = <<>>
        BY <1>2, <2>1, <3>1
      <4>2. QED
        BY <2>1, <3>1, <4>1 DEF NodeAt
    <3>2. CASE k # 1
      <4>1. f # <<>> /\ Last(f) = p[k - 1] /\ k - 1 \in 1 .. n /\ (k - 1) + 1 = k
        BY <1>1, <1>2, <2>1, <3>2 DEF Last
      <4>2. follow[p[k - 1]] = NodeAt(p, (k - 1) + 1)
        BY <4>1 DEF Leads
      <4>3. QED
        BY <2>1, <4>1, <4>2 DEF NodeAt
    <3>3. QED
      BY <3>1, <3>2
  <2>3. p[k] # NULL /\ p[k] \in Nodes
    BY <1>1, <2>1
  <2> HIDE DEF x
  <2>4. Append(f, p[k]) = g
    BY <1>1, <1>2, <1>3, <2>1, <2>3
  <2>5. QED
    BY <2>2, <2>3, <2>4 DEF WalkOn, x, f, g
<1>5. CASE k - 1 >= n
  <2>1. f = g /\ Len(f) = n /\ \A i \in 1 .. n : f[i] = p[i]
    BY <1>1, <1>2, <1>3, <1>5
  <2>2. x = NULL
    <3>1. CASE n = 0
      BY <1>1, <1>2, <2>1, <3>1 DEF NodeAt
    <3>2. CASE n # 0
      <4>1. f # <<>> /\ Last(f) = p[n] /\ n \in 1 .. n
        BY <1>1, <1>2, <2>1, <3>2 DEF Last
      <4>2. follow[p[n]] = NodeAt(p, n + 1) /\ NodeAt(p, n + 1) = NULL
        BY <1>1, <4>1 DEF Leads, NodeAt
      <4>3. QED
        BY <4>1, <4>2
    <3>3. QED
      BY <3>1, <3>2
  <2> HIDE DEF x
  <2>3. QED
    BY <2>1, <2>2 DEF WalkOn, x, f, g
<1>6. QED
  BY <1>1, <1>4, <1>5

\* No more nodes than there are.
LEMMA NodesOnce ==
    ASSUME NEW p \in Seq(Nodes), Once(p)
    PROVE  Len(p) <= Cardinality(Nodes) /\ Cardinality(Nodes) \in Nat
<1>1. p \in [1 .. Len(p) -> Nodes] /\ Len(p) \in Nat
  OBVIOUS
<1>2. p \in Injection(1 .. Len(p), Nodes)
  BY <1>1 DEF Once, Injection, IsInjective
<1>3. Cardinality(1 .. Len(p)) <= Cardinality(Nodes)
  BY <1>2, FS_Injection, ListAssumption
<1>4. Cardinality(1 .. Len(p)) = Len(p)
  <2>1. Cardinality(1 .. Len(p)) = IF 1 > Len(p) THEN 0 ELSE Len(p) - 1 + 1
    <3> DEFINE n == Len(p)
    <3>1. n \in Int /\ 1 \in Int
      BY <1>1
    <3> HIDE DEF n
    <3>2. Cardinality(1 .. n) = IF 1 > n THEN 0 ELSE n - 1 + 1
      BY <3>1, FS_Interval
    <3>3. QED
      BY <3>2 DEF n
  <2>2. QED
    BY <1>1, <2>1
<1>5. QED
  BY <1>3, <1>4, FS_CardinalityType, ListAssumption

LEMMA WalkIs ==
    ASSUME NEW p \in Seq(Nodes), Once(p), NEW follow, Leads(follow, p)
    PROVE  Walk(NodeAt(p, 1), follow) = p
<1> DEFINE start == NodeAt(p, 1)
           N == Cardinality(Nodes)
           e == [k \in Nat |-> FirstNodes(p, k)]
           w == CHOOSE w : w = [k \in Nat |->
                  IF k = 0 THEN <<>>
                  ELSE LET x == IF w[k - 1] = <<>> THEN start ELSE follow[Last(w[k - 1])]
                       IN  IF x = NULL THEN w[k - 1] ELSE Append(w[k - 1], x)]
<1>1. N \in Nat /\ Len(p) \in Nat /\ Len(p) <= N
  BY NodesOnce
<1>2. FirstNodes(p, 0) = <<>> /\ FirstNodes(p, N + 1) = p
  <2>1. FirstNodes(p, 0) \in Seq(Nodes) /\ Len(FirstNodes(p, 0)) = 0
    BY <1>1, FirstNodesIs
  <2>2. FirstNodes(p, N + 1) = [i \in 1 .. Len(p) |-> p[i]]
    BY <1>1 DEF FirstNodes
  <2>3. QED
    BY <2>1, <2>2
<1>3. e = [k \in Nat |->
             IF k = 0 THEN <<>>
             ELSE LET x == IF e[k - 1] = <<>> THEN start ELSE follow[Last(e[k - 1])]
                  IN  IF x = NULL THEN e[k - 1] ELSE Append(e[k - 1], x)]
  <2>1. ASSUME NEW k \in Nat \ {0} PROVE e[k] = WalkOn(e[k - 1], start, follow)
    <3>1. k - 1 \in Nat
      OBVIOUS
    <3>2. QED
      BY <3>1, WalkStep
  <2>2. e[0] = <<>>
    BY <1>2
  <2>3. e = [k \in Nat |-> e[k]]
    OBVIOUS
  <2> HIDE DEF e, start
  <2>4. \A k \in Nat : e[k] = IF k = 0 THEN <<>> ELSE WalkOn(e[k - 1], start, follow)
    BY <2>1, <2>2
  <2>5. e = [k \in Nat |-> IF k = 0 THEN <<>> ELSE WalkOn(e[k - 1], start, follow)]
    BY <2>3, <2>4
  <2>6. QED
    BY <2>5, Zenon DEF WalkOn
<1>4. w = [k \in Nat |->
             IF k = 0 THEN <<>>
             ELSE LET x == IF w[k - 1] = <<>> THEN start ELSE follow[Last(w[k - 1])]
                  IN  IF x = NULL THEN w[k - 1] ELSE Append(w[k - 1], x)]
  <2> HIDE DEF e, start
  <2>1. QED
    BY <1>3, Zenon
<1>5. Walk(start, follow) = w[N + 1]
  BY Zenon DEF Walk
<1> HIDE DEF w, e, start
<1>6. w = [k \in Nat |-> IF k = 0 THEN <<>> ELSE WalkOn(w[k - 1], start, follow)]
  BY <1>4, Zenon DEF WalkOn
<1> DEFINE T == {k \in 0 .. N + 1 : w[k] = FirstNodes(p, k)}
<1>7. 0 \in T
  BY <1>1, <1>2, <1>6
<1>8. ASSUME NEW k \in 1 .. N + 1, k - 1 \in T PROVE k \in T
  <2>1. w[k] = WalkOn(w[k - 1], start, follow) /\ k \in Nat \ {0} /\ w[k - 1] = FirstNodes(p, k - 1)
    BY <1>1, <1>6, <1>8
  <2>2. QED
    BY <1>1, <2>1, WalkStep DEF start
<1>9. N + 1 \in T
  <2> HIDE DEF T
  <2>1. N + 1 \in Nat
    BY <1>1
  <2>2. \A k \in 0 .. N + 1 : k \in T
    BY <1>7, <1>8, <2>1, StepByStep
  <2>3. QED
    BY <1>1, <2>2
<1>10. QED
  BY <1>2, <1>5, <1>9 DEF start

\* Forward the walk meets p, backward p reversed.
LEMMA ForwardIs ==
    ASSUME NEW s, NEW p, Linked(s, p)
    PROVE  Forward(s) = p
<1> DEFINE follow == [n \in Nodes \ Free(s) |-> s.node[n].next]
<1>1. p \in Seq(Nodes) /\ Once(p) /\ s.hd.head = NodeAt(p, 1)
  BY DEF Linked
<1>2. Leads(follow, p)
  <2>1. ASSUME NEW i \in 1 .. Len(p) PROVE follow[p[i]] = NodeAt(p, i + 1)
    <3>1. p[i] \in Nodes /\ s.node[p[i]] # NULL /\ s.node[p[i]].next = NodeAt(p, i + 1)
      BY DEF Linked
    <3>2. QED
      BY <3>1 DEF Free
  <2>2. QED
    BY <2>1 DEF Leads
<1> HIDE DEF follow
<1>3. Walk(NodeAt(p, 1), follow) = p
  BY <1>1, <1>2, WalkIs
<1>4. QED
  BY <1>1, <1>3, Zenon DEF Forward, follow

LEMMA BackwardIs ==
    ASSUME NEW s, NEW p, Linked(s, p)
    PROVE  Backward(s) = Reverse(p)
<1> DEFINE follow == [n \in Nodes \ Free(s) |-> s.node[n].prev]
           r == Reverse(p)
           m == Len(p)
<1>1. p \in Seq(Nodes) /\ m \in Nat /\ Once(p) /\ s.hd.tail = NodeAt(p, m) /\ \A i \in 1 .. m : p[i] \in Nodes
  BY DEF Linked
<1>2. r \in Seq(Nodes) /\ Len(r) = m /\ \A i \in 1 .. m : r[i] = p[(m - i) + 1] /\ (m - i) + 1 \in 1 .. m
  <2>1. \A i \in 1 .. m : (m - i) + 1 \in 1 .. m
    BY <1>1
  <2>2. r = [i \in 1 .. m |-> p[(m - i) + 1]] /\ \A i \in 1 .. m : p[(m - i) + 1] \in Nodes
    BY <1>1, <2>1 DEF Reverse
  <2> HIDE DEF r
  <2>3. QED
    BY <1>1, <2>1, <2>2
<1> HIDE DEF r
<1>3. Once(r)
  <2>1. ASSUME NEW i \in 1 .. m, NEW j \in 1 .. m, r[i] = r[j] PROVE i = j
    <3>1. (m - i) + 1 = (m - j) + 1
      BY <1>1, <1>2, <2>1 DEF Once
    <3>2. QED
      BY <1>1, <3>1
  <2>2. QED
    BY <1>2, <2>1 DEF Once
<1>4. ASSUME NEW i \in 1 .. m PROVE NodeAt(r, i + 1) = NodeAt(p, m - i)
  <2>1. CASE i = m
    BY <1>1, <1>2, <2>1 DEF NodeAt
  <2>2. CASE i < m
    <3>1. i + 1 \in 1 .. m /\ m - i \in 1 .. m /\ (m - (i + 1)) + 1 = m - i
      BY <1>1, <2>2
    <3>2. r[i + 1] = p[m - i]
      BY <1>2, <3>1
    <3>3. QED
      BY <1>2, <3>1, <3>2 DEF NodeAt
  <2>3. QED
    BY <1>1, <2>1, <2>2
<1>5. NodeAt(r, 1) = NodeAt(p, m)
  BY <1>1, <1>2 DEF NodeAt
<1>6. Leads(follow, r)
  <2>1. ASSUME NEW i \in 1 .. m PROVE follow[r[i]] = NodeAt(r, i + 1)
    <3> DEFINE j == (m - i) + 1
    <3>1. j \in 1 .. m /\ r[i] = p[j] /\ j - 1 = m - i
      BY <1>1, <1>2
    <3> HIDE DEF j
    <3>2. p[j] \in Nodes /\ s.node[p[j]] # NULL /\ s.node[p[j]].prev = NodeAt(p, j - 1)
      BY <3>1 DEF Linked
    <3>3. follow[p[j]] = NodeAt(p, j - 1)
      BY <3>2 DEF Free
    <3>4. QED
      BY <1>4, <3>1, <3>3
  <2>2. QED
    BY <1>2, <2>1 DEF Leads
<1> HIDE DEF follow
<1>7. Walk(NodeAt(r, 1), follow) = r
  BY <1>2, <1>3, <1>6, WalkIs
<1>8. QED
  BY <1>1, <1>5, <1>7, Zenon DEF Backward, follow, r

\* Where a node is.
LEMMA AtIs ==
    ASSUME NEW p, Linked(list, p), NEW n \in Nodes \ Free(list)
    PROVE  At(n) \in 1 .. Len(p) /\ p[At(n)] = n
<1> DEFINE I == {i \in 1 .. Len(p) : p[i] = n}
           k == At(n)
<1>1. \E i \in 1 .. Len(p) : n = p[i]
  BY DEF Linked, Free
<1>2. I # {} /\ I \subseteq Nat
  BY <1>1
<1>3. k = IF I # {} THEN Min(I) ELSE 0
  <2>1. Forward(list) = p
    BY ForwardIs
  <2>2. QED
    BY <2>1 DEF At, SelectInSeq
<1>4. \E x \in I : \A y \in I : x <= y
  <2> HIDE DEF I
  <2>1. QED
    BY <1>2, NatMin
<1>5. k \in I
  <2> HIDE DEF I, k
  <2>1. QED
    BY <1>2, <1>3, <1>4, Zenon DEF Min
<1> HIDE DEF k
<1>6. QED
  BY <1>5 DEF k

\* A list without nodes.
NoList == [hd |-> [head |-> NULL, tail |-> NULL, size |-> 0], node |-> [n \in Nodes |-> NULL]]

LEMMA EmptyLinked == Linked(NoList, <<>>) /\ ValuesOf(NoList.node, <<>>) = <<>>
  BY DEF NoList, Linked, NodeAt, Once, ValuesOf

LEMMA ClearIs ==
    ASSUME NEW s, NEW p, Linked(s, p)
    PROVE  ClearList(s) = NoList
<1>1. Forward(s) = p
  BY ForwardIs
<1>2. Range(p) = {p[i] : i \in 1 .. Len(p)}
  <2>1. p \in Seq(Nodes) /\ DOMAIN p = 1 .. Len(p)
    BY DEF Linked
  <2>2. QED
    BY <2>1 DEF Range
<1>3. ASSUME NEW n \in Nodes PROVE (IF n \in Range(p) THEN NULL ELSE s.node[n]) = NULL
  <2>1. s.node[n] # NULL <=> \E i \in 1 .. Len(p) : n = p[i]
    BY DEF Linked
  <2>2. QED
    BY <1>2, <2>1, Zenon
<1>4. QED
  BY <1>1, <1>3 DEF ClearList, NoList

\* A node is free as long as there are more nodes than the list has.
LEMMA SomeFree ==
    ASSUME NEW s, NEW p, Linked(s, p), Len(p) < Cardinality(Nodes)
    PROVE  Free(s) # {}
<1> SUFFICES ASSUME Free(s) = {} PROVE FALSE
  OBVIOUS
<1>1. p \in [1 .. Len(p) -> Nodes] /\ Len(p) \in Nat
  BY DEF Linked
<1>2. \A n \in Nodes : \E i \in 1 .. Len(p) : n = p[i]
  BY DEF Linked, Free
<1>3. p \in Surjection(1 .. Len(p), Nodes)
  BY <1>1, <1>2 DEF Surjection
<1>4. IsFiniteSet(1 .. Len(p)) /\ Cardinality(1 .. Len(p)) = Len(p)
  <2> DEFINE n == Len(p)
  <2>1. n \in Int /\ 1 \in Int
    BY <1>1
  <2> HIDE DEF n
  <2>2. IsFiniteSet(1 .. n) /\ Cardinality(1 .. n) = IF 1 > n THEN 0 ELSE n - 1 + 1
    BY <2>1, FS_Interval
  <2>3. QED
    BY <1>1, <2>2 DEF n
<1>5. Cardinality(Nodes) <= Cardinality(1 .. Len(p))
  BY <1>3, <1>4, FS_Surjection
<1>6. QED
  BY <1>1, <1>4, <1>5, FS_CardinalityType, ListAssumption

\* push_back of one item, on a list that holds the items before it.
PushOne(t, x) == PushBack(t, CHOOSE n \in Free(t) : TRUE, x)
\* At the ends, insertion and removal are what the history writes.
LEMMA SeqEnds ==
    ASSUME NEW S, NEW s \in Seq(S), NEW x \in S
    PROVE  /\ InsertAt(s, 1, x) = <<x>> \o s
           /\ InsertAt(s, Len(s) + 1, x) = Append(s, x)
           /\ s # <<>> => RemoveAt(s, 1) = Tail(s) /\ RemoveAt(s, Len(s)) = Front(s)
<1> DEFINE n == Len(s)
<1>1. n \in Nat /\ \A i \in 1 .. n : s[i] \in S
  OBVIOUS
<1>2. InsertAt(s, 1, x) = <<x>> \o s
  <2> DEFINE r == InsertAt(s, 1, x)
             c == <<x>> \o s
  <2>1. Inserted(S, r, s, 1, x)
    BY <1>1, InsertAtIs
  <2>2. r \in Seq(S) /\ Len(r) = n + 1 /\ \A k \in 1 .. n + 1 : r[k] = IF k = 1 THEN x ELSE s[k - 1]
    <3> HIDE DEF r
    <3>1. QED
      BY <1>1, <2>1 DEF Inserted
  <2>3. c \in Seq(S) /\ Len(c) = n + 1 /\ \A k \in 1 .. n + 1 : c[k] = IF k = 1 THEN x ELSE s[k - 1]
    BY <1>1
  <2> HIDE DEF r, c
  <2>4. r = c
    BY <1>1, <2>2, <2>3
  <2>5. QED
    BY <2>4 DEF r, c
<1>3. InsertAt(s, n + 1, x) = Append(s, x)
  <2> DEFINE r == InsertAt(s, n + 1, x)
             c == Append(s, x)
  <2>1. Inserted(S, r, s, n + 1, x)
    BY <1>1, InsertAtIs
  <2>2. r \in Seq(S) /\ Len(r) = n + 1 /\ \A k \in 1 .. n + 1 : r[k] = IF k = n + 1 THEN x ELSE s[k]
    <3> HIDE DEF r
    <3>1. QED
      BY <1>1, <2>1 DEF Inserted
  <2>3. c \in Seq(S) /\ Len(c) = n + 1 /\ \A k \in 1 .. n + 1 : c[k] = IF k = n + 1 THEN x ELSE s[k]
    BY <1>1
  <2> HIDE DEF r, c
  <2>4. r = c
    BY <1>1, <2>2, <2>3
  <2>5. QED
    BY <2>4 DEF r, c
<1>4. ASSUME s # <<>> PROVE RemoveAt(s, 1) = Tail(s)
  <2> DEFINE r == RemoveAt(s, 1)
             c == Tail(s)
  <2>0. n \in Nat \ {0}
    BY <1>1, <1>4
  <2>1. Removed(S, r, s, 1)
    BY <2>0, RemoveAtIs
  <2>2. r \in Seq(S) /\ Len(r) = n - 1 /\ \A k \in 1 .. n - 1 : r[k] = s[k + 1]
    <3> HIDE DEF r
    <3>1. QED
      BY <2>0, <2>1 DEF Removed
  <2>3. c \in Seq(S) /\ Len(c) = n - 1 /\ \A k \in 1 .. n - 1 : c[k] = s[k + 1]
    BY <1>4, <2>0
  <2> HIDE DEF r, c
  <2>4. r = c
    BY <2>0, <2>2, <2>3
  <2>5. QED
    BY <2>4 DEF r, c
<1>5. ASSUME s # <<>> PROVE RemoveAt(s, n) = Front(s)
  <2> DEFINE r == RemoveAt(s, n)
             c == Front(s)
  <2>0. n \in Nat \ {0}
    BY <1>1, <1>5
  <2>1. Removed(S, r, s, n)
    BY <2>0, RemoveAtIs
  <2>2. r \in Seq(S) /\ Len(r) = n - 1 /\ \A k \in 1 .. n - 1 : r[k] = s[k]
    <3> HIDE DEF r
    <3>1. QED
      BY <2>0, <2>1 DEF Removed
  <2>3. c \in Seq(S) /\ Len(c) = n - 1 /\ \A k \in 1 .. n - 1 : c[k] = s[k]
    <3>1. n - 1 \in Nat /\ \A k \in 1 .. n - 1 : s[k] \in S
      BY <1>1, <2>0
    <3>2. c = SubSeq(s, 1, n - 1)
      BY DEF Front
    <3> HIDE DEF c
    <3>3. c = [k \in 1 .. n - 1 |-> s[k]]
      BY <2>0, <3>2
    <3>4. QED
      BY <3>1, <3>3
  <2> HIDE DEF r, c
  <2>4. r = c
    BY <2>0, <2>2, <2>3
  <2>5. QED
    BY <2>4 DEF r, c
<1>6. QED
  BY <1>2, <1>3, <1>4, <1>5

\* The values of a list are items, one for each node.
LEMMA ValuesType ==
    ASSUME NEW s, NEW p, Linked(s, p)
    PROVE  ValuesOf(s.node, p) \in Seq(Items) /\ Len(ValuesOf(s.node, p)) = Len(p) /\ Len(p) \in Nat
<1>1. Len(p) \in Nat /\ \A i \in 1 .. Len(p) : s.node[p[i]].val \in Items
  BY LinkedNode, LinkedEnds DEF LNode
<1>2. QED
  BY <1>1 DEF ValuesOf

\* push_back of an item puts it behind the others.
LEMMA PushBackStep ==
    ASSUME NEW s, NEW p, Linked(s, p), NEW n \in Free(s), NEW x \in Items
    PROVE  ListStep(PushBack(s, n, x), Append(ValuesOf(s.node, p), x))
<1> DEFINE a == ValuesOf(s.node, p)
           k == Len(p) + 1
<1>1. a \in Seq(Items) /\ Len(a) = Len(p) /\ Len(p) \in Nat
  BY ValuesType
<1>2. k \in 1 .. Len(p) + 1 /\ k - 1 = Len(p)
  BY <1>1
<1> HIDE DEF a
<1>3. PushBack(s, n, x) = LinkIn(s, n, NodeAt(p, k - 1), NodeAt(p, k), x)
  BY <1>2, PushBackIs
<1>4. InsertAt(a, k, x) = Append(a, x)
  BY <1>1, SeqEnds
<1> HIDE DEF k
<1>5. ListStep(LinkIn(s, n, NodeAt(p, k - 1), NodeAt(p, k), x), InsertAt(a, k, x))
  BY <1>2, LinkInStep DEF a
<1>6. QED
  BY <1>3, <1>4, <1>5 DEF a

ListType == [hd: [head: Nodes \cup {NULL}, tail: Nodes \cup {NULL}, size: Nat], node: NodeMap]

\* A well-linked list of at most k nodes.
SomeList(t, k) == \E p : Linked(t, p) /\ Len(p) <= k

LEMMA PushOneKeeps ==
    ASSUME NEW t, NEW k \in Nat, k < Cardinality(Nodes), SomeList(t, k), NEW x \in Items
    PROVE  Free(t) # {} /\ SomeList(PushOne(t, x), k + 1)
<1>1. PICK p : Linked(t, p) /\ Len(p) <= k
  BY DEF SomeList
<1>2. Len(p) \in Nat /\ Cardinality(Nodes) \in Nat
  BY <1>1, FS_CardinalityType, ListAssumption, LinkedEnds
<1>3. Free(t) # {}
  <2>1. Len(p) < Cardinality(Nodes)
    BY <1>1, <1>2
  <2>2. QED
    BY <1>1, <2>1, SomeFree
<1> DEFINE n == CHOOSE n \in Free(t) : TRUE
<1>4. n \in Free(t)
  BY <1>3
<1>5. PushOne(t, x) = PushBack(t, n, x)
  BY DEF PushOne
<1> HIDE DEF n
<1>6. ListStep(PushBack(t, n, x), Append(ValuesOf(t.node, p), x))
  BY <1>1, <1>4, PushBackStep
<1>7. PICK q : Linked(PushOne(t, x), q) /\ Append(ValuesOf(t.node, p), x) = ValuesOf(PushOne(t, x).node, q)
  BY <1>5, <1>6 DEF ListStep
<1>8. Len(q) = Len(p) + 1
  <2>1. ValuesOf(t.node, p) \in Seq(Items) /\ Len(ValuesOf(t.node, p)) = Len(p)
    BY <1>1, ValuesType
  <2>2. Len(ValuesOf(PushOne(t, x).node, q)) = Len(q)
    BY <1>7, ValuesType
  <2>3. Len(Append(ValuesOf(t.node, p), x)) = Len(p) + 1
    BY <2>1
  <2>4. QED
    BY <1>7, <2>2, <2>3
<1>9. Len(q) <= k + 1
  BY <1>1, <1>2, <1>8
<1>10. QED
  BY <1>3, <1>7, <1>9 DEF SomeList

\* Copying goes through the items one after the other.
CopySteps(f, base, items) ==
    f[0] = base /\ \A k \in 1 .. Len(items) : f[k] = PushOne(f[k - 1], items[k])

LEMMA CopyListFold ==
    ASSUME NEW s, NEW items \in Seq(Items), Len(items) <= Cardinality(Nodes), ClearList(s) = NoList
    PROVE  \E f : CopySteps(f, NoList, items) /\ CopyItems(s, items) = f[Len(items)]
<1> DEFINE n == Len(items)
           S == {u \in ListType : \E p : Linked(u, p)}
           base == ClearList(s)
           Push(u, x) == IF Free(u) # {} THEN PushOne(u, x) ELSE u
           F == [k \in 1 .. n |-> [u \in S |-> Push(u, items[k])]]
<1>1. n \in Nat /\ DOMAIN items = 1 .. n /\ (\A k \in 1 .. n : items[k] \in Items) /\ Cardinality(Nodes) \in Nat
  BY FS_CardinalityType, ListAssumption
<1>2. base \in S /\ SomeList(base, 0)
  <2>1. Linked(base, <<>>) /\ Len(<<>>) <= 0
    BY EmptyLinked
  <2> HIDE DEF base
  <2>2. base \in ListType
    BY <2>1 DEF Linked, ListType, NodeMap
  <2>3. QED
    BY <2>1, <2>2, Zenon DEF SomeList
<1>3. ASSUME NEW u \in S, NEW x \in Items PROVE Push(u, x) \in S
  <2>1. CASE Free(u) = {}
    BY <2>1
  <2>2. CASE Free(u) # {}
    <3>1. PICK p : Linked(u, p)
      OBVIOUS
    <3> DEFINE m == CHOOSE m \in Free(u) : TRUE
    <3>2. m \in Free(u)
      BY <2>2
    <3>3. PushOne(u, x) = PushBack(u, m, x)
      BY DEF PushOne
    <3> HIDE DEF m
    <3>4. ListStep(PushBack(u, m, x), Append(ValuesOf(u.node, p), x))
      BY <3>1, <3>2, PushBackStep
    <3>5. PICK q : Linked(PushOne(u, x), q)
      BY <3>3, <3>4 DEF ListStep
    <3>6. PushOne(u, x) \in ListType
      BY <3>5 DEF Linked, ListType, NodeMap
    <3>7. QED
      BY <2>2, <3>5, <3>6
  <2>3. QED
    BY <2>1, <2>2
<1>4. F \in [1 .. n -> [S -> S]]
  <2> HIDE DEF S, Push
  <2>1. QED
    BY <1>1, <1>3
<1>5. PICK g \in [SUBSET (1 .. n) -> S] : FoldDown(n, base, F, g)
  <2> HIDE DEF S, n, base, F
  <2>1. QED
    BY <1>1, <1>2, <1>4, FoldExists
<1>6. ASSUME NEW e \in SUBSET (1 .. n), e # {}
      PROVE  Max(e) \in e /\ (\A y \in e : y <= Max(e)) /\ g[e] = Push(g[e \ {Max(e)}], items[Max(e)])
  <2>1. Max(e) \in e /\ (\A y \in e : y <= Max(e)) /\ Max(e) \in 1 .. n /\ e \ {Max(e)} \in SUBSET (1 .. n)
    BY <1>1, <1>6, MaxUpTo
  <2>2. g[e \ {Max(e)}] \in S
    <3> HIDE DEF S
    <3>1. QED
      BY <2>1
  <2>3. g[e] = F[Max(e)][g[e \ {Max(e)}]]
    <3> HIDE DEF S, F, base
    <3>1. QED
      BY <1>5, <1>6 DEF FoldDown
  <2> HIDE DEF S, Push
  <2>4. QED
    BY <2>1, <2>2, <2>3
<1> DEFINE T == {m \in 0 .. n : \A e \in SUBSET (1 .. m) : SomeList(g[e], m)}
<1>7. 0 \in T
  <2>1. SUBSET (1 .. 0) = {{}}
    OBVIOUS
  <2>2. g[{}] = base
    <3> HIDE DEF S, F, base
    <3>1. QED
      BY <1>5 DEF FoldDown
  <2> HIDE DEF base, S
  <2>3. \A e \in SUBSET (1 .. 0) : SomeList(g[e], 0)
    BY <1>2, <2>1, <2>2
  <2>4. QED
    BY <1>1, <2>3
<1>8. ASSUME NEW m \in 1 .. n, m - 1 \in T PROVE m \in T
  <2>1. ASSUME NEW e \in SUBSET (1 .. m) PROVE SomeList(g[e], m)
    <3>1. CASE m \notin e
      <4>1. e \in SUBSET (1 .. (m - 1))
        BY <3>1
      <4>2. SomeList(g[e], m - 1)
        BY <1>8, <4>1
      <4>3. QED
        BY <1>1, <4>2, LinkedEnds DEF SomeList
    <3>2. CASE m \in e
      <4>1. e \in SUBSET (1 .. n) /\ e # {}
        BY <1>1, <3>2
      <4>2. Max(e) = m
        <5>1. Max(e) \in 1 .. m /\ m <= Max(e)
          BY <1>6, <3>2, <4>1
        <5>2. QED
          BY <5>1
      <4>3. e \ {m} \in SUBSET (1 .. (m - 1)) /\ m - 1 \in Nat /\ m - 1 < Cardinality(Nodes) /\ (m - 1) + 1 = m
        BY <1>1
      <4>4. SomeList(g[e \ {m}], m - 1)
        BY <1>8, <4>3
      <4>5. g[e] = Push(g[e \ {m}], items[m])
        BY <1>6, <4>1, <4>2
      <4>6. items[m] \in Items
        BY <1>1
      <4> DEFINE u == g[e \ {m}]
      <4> HIDE DEF u
      <4>7. Free(u) # {} /\ SomeList(PushOne(u, items[m]), (m - 1) + 1)
        BY <4>3, <4>4, <4>6, PushOneKeeps DEF u
      <4>8. QED
        BY <4>3, <4>5, <4>7 DEF u
    <3>3. QED
      BY <3>1, <3>2
  <2>2. QED
    BY <1>1, <2>1
<1>9. \A m \in 0 .. n : m \in T
  <2> HIDE DEF T, n
  <2>1. QED
    BY <1>1, <1>7, <1>8, StepByStep
<1>10. ASSUME NEW e \in SUBSET (1 .. n), e # {}
       PROVE  g[e] = PushOne(g[e \ {Max(e)}], items[Max(e)])
  <2>1. Max(e) \in 1 .. n /\ (\A y \in e : y <= Max(e)) /\ g[e] = Push(g[e \ {Max(e)}], items[Max(e)])
    <3> HIDE DEF Push
    <3>1. QED
      BY <1>6, <1>10
  <2> DEFINE m == Max(e)
  <2> HIDE DEF m
  <2>2. m \in 1 .. n /\ (\A y \in e : y <= m) /\ g[e] = Push(g[e \ {m}], items[m])
    BY <2>1 DEF m
  <2>3. e \ {m} \in SUBSET (1 .. (m - 1)) /\ m - 1 \in 0 .. n /\ m - 1 \in Nat /\ m - 1 < Cardinality(Nodes)
    BY <1>1, <2>2
  <2>4. SomeList(g[e \ {m}], m - 1)
    BY <1>9, <2>3
  <2>5. items[m] \in Items
    BY <1>1, <2>2
  <2>6. Free(g[e \ {m}]) # {}
    BY <2>3, <2>4, <2>5, PushOneKeeps
  <2>7. QED
    BY <2>2, <2>6 DEF m
<1> DEFINE IsIt(w) ==
             w = [e \in SUBSET DOMAIN items |->
                    IF e = {} THEN base
                    ELSE PushBack(w[e \ {Max(e)}], CHOOSE m \in Free(w[e \ {Max(e)}]) : TRUE, items[Max(e)])]
           it == CHOOSE w : IsIt(w)
<1>11. it = [e \in SUBSET DOMAIN items |-> IF e = {} THEN base ELSE PushOne(it[e \ {Max(e)}], items[Max(e)])]
  <2>1. g = [e \in SUBSET DOMAIN items |-> IF e = {} THEN base ELSE PushOne(g[e \ {Max(e)}], items[Max(e)])]
    <3>1. g[{}] = base
      <4> HIDE DEF S, F, base
      <4>1. QED
        BY <1>5 DEF FoldDown
    <3>2. g = [e \in SUBSET (1 .. n) |-> g[e]]
      <4> HIDE DEF S
      <4>1. QED
        OBVIOUS
    <3> HIDE DEF base, S
    <3>3. \A e \in SUBSET (1 .. n) : g[e] = IF e = {} THEN base ELSE PushOne(g[e \ {Max(e)}], items[Max(e)])
      BY <1>10, <3>1
    <3>4. QED
      BY <1>1, <3>2, <3>3
  <2>2. IsIt(g)
    <3> HIDE DEF base, S
    <3>1. QED
      BY <2>1, Zenon DEF PushOne
  <2>3. IsIt(it)
    <3> HIDE DEF IsIt
    <3>1. QED
      BY <2>2, Zenon
  <2> HIDE DEF it, base
  <2>4. QED
    BY <2>3, Zenon DEF PushOne
<1>12. CopyItems(s, items) = it[DOMAIN items]
  BY Zenon DEF CopyItems, FoldLeft, MapThenFoldSet
<1> HIDE DEF it, base, S, F, T, Push
<1> DEFINE f == [k \in 0 .. n |-> it[1 .. k]]
<1>13. f[0] = base /\ f[n] = it[DOMAIN items]
  <2>1. {} = 1 .. 0
    OBVIOUS
  <2>2. QED
    BY <1>1, <1>11, <2>1
<1>14. ASSUME NEW k \in 1 .. n PROVE f[k] = PushOne(f[k - 1], items[k])
  <2>1. (1 .. k) \in SUBSET DOMAIN items /\ k \in Nat \ {0} /\ k - 1 \in 0 .. n /\ k \in 0 .. n
    BY <1>1
  <2>2. (1 .. k) # {} /\ Max(1 .. k) = k /\ (1 .. k) \ {k} = 1 .. (k - 1)
    BY <2>1, FirstElements
  <2> DEFINE e == 1 .. k
  <2>3. it[e] = IF e = {} THEN base ELSE PushOne(it[e \ {Max(e)}], items[Max(e)])
    <3> HIDE DEF e
    <3>1. QED
      BY <1>11, <2>1 DEF e
  <2>4. it[1 .. k] = PushOne(it[1 .. (k - 1)], items[k])
    BY <2>2, <2>3
  <2>5. QED
    BY <2>1, <2>4
<1>15. base = NoList
  BY DEF base
<1> HIDE DEF f
<1>16. CopySteps(f, NoList, items)
  BY <1>13, <1>14, <1>15 DEF CopySteps
<1>17. QED
  BY <1>12, <1>13, <1>16, Zenon

\* The copy holds the items.
LEMMA CopyListStep ==
    ASSUME NEW s, NEW p, Linked(s, p), NEW items \in Seq(Items), Len(items) <= Cardinality(Nodes)
    PROVE  ListStep(CopyItems(s, items), items)
<1> DEFINE n == Len(items)
           first(k) == [i \in 1 .. k |-> items[i]]
<1>1. n \in Nat /\ (\A k \in 1 .. n : items[k] \in Items) /\ Cardinality(Nodes) \in Nat /\ items = first(n)
  BY FS_CardinalityType, ListAssumption
<1>2. PICK f : CopySteps(f, NoList, items) /\ CopyItems(s, items) = f[n]
  BY ClearIs, CopyListFold
<1> DEFINE T == {k \in 0 .. n : ListStep(f[k], first(k))}
<1>3. 0 \in T
  <2>1. first(0) = <<>> /\ f[0] = NoList
    BY <1>2 DEF CopySteps
  <2> HIDE DEF first
  <2>2. ListStep(f[0], first(0))
    BY <2>1, EmptyLinked DEF ListStep
  <2>3. QED
    BY <1>1, <2>2
<1>4. ASSUME NEW k \in 1 .. n, k - 1 \in T PROVE k \in T
  <2> DEFINE t == f[k - 1]
             x == items[k]
  <2>1. f[k] = PushOne(t, x) /\ x \in Items /\ k - 1 \in Nat /\ k \in 0 .. n /\ k - 1 < Cardinality(Nodes)
    BY <1>1, <1>2 DEF CopySteps
  <2>2. Append(first(k - 1), x) = first(k)
    <3>1. first(k - 1) \in Seq(Items) /\ Len(first(k - 1)) = k - 1
      BY <1>1
    <3>2. QED
      BY <1>1, <3>1
  <2>3. Len(first(k - 1)) = k - 1
    BY <1>1
  <2> HIDE DEF first, t, x
  <2>4. ListStep(t, first(k - 1))
    BY <1>4 DEF t
  <2>5. PICK q : Linked(t, q) /\ first(k - 1) = ValuesOf(t.node, q)
    BY <2>4 DEF ListStep
  <2>6. Len(q) = k - 1
    BY <2>3, <2>5, ValuesType
  <2>7. Free(t) # {}
    BY <2>1, <2>5, <2>6, SomeFree
  <2> DEFINE m == CHOOSE m \in Free(t) : TRUE
  <2>8. m \in Free(t) /\ PushOne(t, x) = PushBack(t, m, x)
    BY <2>7 DEF PushOne
  <2> HIDE DEF m
  <2>9. ListStep(PushBack(t, m, x), Append(ValuesOf(t.node, q), x))
    BY <2>1, <2>5, <2>8, PushBackStep
  <2>10. ListStep(f[k], first(k))
    BY <2>1, <2>2, <2>5, <2>8, <2>9
  <2>11. QED
    BY <2>1, <2>10
<1>5. n \in T
  <2> HIDE DEF T, n
  <2>1. \A k \in 0 .. n : k \in T
    BY <1>1, <1>3, <1>4, StepByStep
  <2>2. QED
    BY <1>1, <2>1
<1> HIDE DEF first
<1>6. ListStep(f[n], first(n))
  BY <1>5
<1>7. QED
  BY <1>1, <1>2, <1>6

\* What a step leaves is what the invariant wants.
LEMMA ListKept ==
    ASSUME NEW t, Become(t), ListStep(t, lSeq')
    PROVE  ListInv'
<1>1. PICK q : Linked(t, q) /\ lSeq' = ValuesOf(t.node, q)
  BY DEF ListStep
<1>2. l' = t.hd /\ ln' = t.node
  BY DEF Become
<1>3. t = [hd |-> t.hd, node |-> t.node]
  BY <1>1 DEF Linked
<1>4. list' = t
  BY <1>2, <1>3 DEF list
<1>5. Linked(list', q) /\ lSeq' = ValuesOf(ln', q)
  BY <1>1, <1>2, <1>4
<1>6. QED
  BY <1>5 DEF ListInv

\* The list keeps the sequence of the calls, whatever nodes they use.
THEOREM ListInvariant == ListSpec => []ListInv
<1>1. ListInit => ListInv
  <2> SUFFICES ASSUME ListInit PROVE ListInv
    OBVIOUS
  <2>1. list = NoList /\ ln = NoList.node /\ lSeq = <<>>
    BY DEF ListInit, list, NoList
  <2>2. QED
    BY <2>1, EmptyLinked DEF ListInv
<1>2. ListInv /\ [ListNext]_listVars => ListInv'
  <2> SUFFICES ASSUME ListInv, [ListNext]_listVars PROVE ListInv'
    OBVIOUS
  <2>1. PICK p : Linked(list, p) /\ lSeq = ValuesOf(ln, p)
    BY DEF ListInv
  <2>2. list.hd = l /\ list.node = ln
    BY DEF list
  <2>3. /\ lSeq = ValuesOf(list.node, p)
        /\ lSeq \in Seq(Items) /\ Len(lSeq) = Len(p) /\ Len(p) \in Nat
    BY <2>1, <2>2, ValuesType
  <2>4. ASSUME NEW k \in 1 .. Len(p) + 1, NEW n \in Free(list), NEW x \in Items, NEW t,
               t = LinkIn(list, n, NodeAt(p, k - 1), NodeAt(p, k), x),
               Become(t), lSeq' = InsertAt(lSeq, k, x)
        PROVE  ListInv'
    <3>1. ListStep(t, InsertAt(lSeq, k, x))
      BY <2>1, <2>3, <2>4, LinkInStep
    <3>2. QED
      BY <2>4, <3>1, ListKept
  <2>5. ASSUME NEW k \in 1 .. Len(p), Become(EraseNode(list, p[k])), lSeq' = RemoveAt(lSeq, k)
        PROVE  ListInv'
    <3>1. EraseNode(list, p[k]) = LinkOut(list, p[k], NodeAt(p, k - 1), NodeAt(p, k + 1))
      BY <2>1, EraseNodeIs
    <3>2. ListStep(EraseNode(list, p[k]), RemoveAt(lSeq, k))
      BY <2>1, <2>3, <3>1, LinkOutStep
    <3>3. QED
      BY <2>5, <3>2, ListKept
  <2>6. CASE ListPushFront
    <3>1. PICK n \in Free(list), x \in Items : Become(PushFront(list, n, x)) /\ lSeq' = <<x>> \o lSeq
      BY <2>6 DEF ListPushFront, AddFront
    <3>2. PushFront(list, n, x) = LinkIn(list, n, NodeAt(p, 0), NodeAt(p, 1), x)
      BY <2>1, PushFrontIs
    <3>3. InsertAt(lSeq, 1, x) = <<x>> \o lSeq
      BY <2>3, SeqEnds
    <3>4. 1 \in 1 .. Len(p) + 1 /\ 1 - 1 = 0
      BY <2>3
    <3>5. QED
      BY <2>4, <3>1, <3>2, <3>3, <3>4
  <2>7. CASE ListPushBack
    <3>1. PICK n \in Free(list), x \in Items : Become(PushBack(list, n, x)) /\ lSeq' = Append(lSeq, x)
      BY <2>7 DEF ListPushBack, AddBack
    <3>2. ListStep(PushBack(list, n, x), Append(lSeq, x))
      BY <2>1, <2>3, PushBackStep
    <3>3. QED
      BY <3>1, <3>2, ListKept
  <2>8. CASE ListPopFront
    <3>1. l.head # NULL /\ Become(PopFront(list)) /\ lSeq' = Tail(lSeq)
      BY <2>8 DEF ListPopFront
    <3>2. Len(p) # 0 /\ 1 \in 1 .. Len(p) /\ lSeq # <<>>
      BY <2>1, <2>2, <2>3, <3>1, LinkedEnds
    <3>3. RemoveAt(lSeq, 1) = Tail(lSeq)
      <4>1. lSeq[1] \in Items
        BY <2>3, <3>2
      <4>2. QED
        BY <2>3, <3>2, <4>1, SeqEnds
    <3>4. PopFront(list) = EraseNode(list, p[1])
      BY <2>1, <3>2, EraseNodeIs
    <3>5. QED
      BY <2>5, <3>1, <3>2, <3>3, <3>4
  <2>9. CASE ListPopBack
    <3>1. l.tail # NULL /\ Become(PopBack(list)) /\ lSeq' = Front(lSeq)
      BY <2>9 DEF ListPopBack
    <3>2. Len(p) # 0 /\ Len(p) \in 1 .. Len(p) /\ lSeq # <<>>
      BY <2>1, <2>2, <2>3, <3>1, LinkedEnds
    <3>3. RemoveAt(lSeq, Len(p)) = Front(lSeq)
      <4>1. lSeq[1] \in Items
        BY <2>3, <3>2
      <4>2. QED
        BY <2>3, <3>2, <4>1, SeqEnds
    <3>4. PopBack(list) = EraseNode(list, p[Len(p)])
      BY <2>1, <3>2, EraseNodeIs
    <3>5. QED
      BY <2>5, <3>1, <3>2, <3>3, <3>4
  <2>10. CASE ListInsertAfter
    <3>1. PICK at \in Nodes \ Free(list), n \in Free(list), x \in Items :
            Become(InsertAfter(list, at, n, x)) /\ lSeq' = InsertAt(lSeq, At(at) + 1, x)
      BY <2>10 DEF ListInsertAfter
    <3> DEFINE k == At(at)
    <3>2. k \in 1 .. Len(p) /\ p[k] = at
      BY <2>1, AtIs
    <3> HIDE DEF k
    <3>3. InsertAfter(list, at, n, x) = LinkIn(list, n, NodeAt(p, k), NodeAt(p, k + 1), x)
      BY <2>1, <3>2, InsertAfterIs
    <3>4. k + 1 \in 1 .. Len(p) + 1 /\ (k + 1) - 1 = k
      BY <2>3, <3>2
    <3>5. QED
      BY <2>4, <3>1, <3>3, <3>4 DEF k
  <2>11. CASE ListInsertBefore
    <3>1. PICK at \in Nodes \ Free(list), n \in Free(list), x \in Items :
            Become(InsertBefore(list, at, n, x)) /\ lSeq' = InsertAt(lSeq, At(at), x)
      BY <2>11 DEF ListInsertBefore
    <3> DEFINE k == At(at)
    <3>2. k \in 1 .. Len(p) /\ p[k] = at
      BY <2>1, AtIs
    <3> HIDE DEF k
    <3>3. InsertBefore(list, at, n, x) = LinkIn(list, n, NodeAt(p, k - 1), NodeAt(p, k), x)
      BY <2>1, <3>2, InsertBeforeIs
    <3>4. k \in 1 .. Len(p) + 1
      BY <2>3, <3>2
    <3>5. QED
      BY <2>4, <3>1, <3>3, <3>4 DEF k
  <2>12. CASE ListErase
    <3>1. PICK n \in Nodes \ Free(list) : Become(EraseNode(list, n)) /\ lSeq' = RemoveAt(lSeq, At(n))
      BY <2>12 DEF ListErase
    <3>2. At(n) \in 1 .. Len(p) /\ p[At(n)] = n
      BY <2>1, AtIs
    <3>3. QED
      BY <2>5, <3>1, <3>2
  <2>13. CASE ListClear
    <3>1. Become(ClearList(list)) /\ lSeq' = <<>>
      BY <2>13 DEF ListClear
    <3>2. ClearList(list) = NoList
      BY <2>1, ClearIs
    <3>3. ListStep(NoList, <<>>)
      BY EmptyLinked DEF ListStep
    <3>4. QED
      BY <3>1, <3>2, <3>3, ListKept
  <2>14. CASE ListCopy
    <3>1. PICK items \in SeqOf(Items, Cardinality(Nodes)) : Become(CopyItems(list, items)) /\ lSeq' = items
      BY <2>14 DEF ListCopy
    <3>2. items \in Seq(Items) /\ Len(items) <= Cardinality(Nodes)
      <4>1. Cardinality(Nodes) \in Nat
        BY FS_CardinalityType, ListAssumption
      <4>2. QED
        BY <4>1 DEF SeqOf
    <3>3. ListStep(CopyItems(list, items), items)
      BY <2>1, <3>2, CopyListStep
    <3>4. QED
      BY <3>1, <3>3, ListKept
  <2>15. CASE UNCHANGED listVars
    BY <2>15 DEF listVars, ListInv, list
  <2>16. QED
    BY <2>6, <2>7, <2>8, <2>9, <2>10, <2>11, <2>12, <2>13, <2>14, <2>15 DEF ListNext
<1>3. QED
  BY <1>1, <1>2, PTL DEF ListSpec

\* After any calls of list.h the pointers, walked from either end, are the sequence the calls describe.
THEOREM ListHoldsSequence == ListSpec => []ListIsSequence
<1>1. ListInv => ListIsSequence
  <2> SUFFICES ASSUME ListInv PROVE ListIsSequence
    OBVIOUS
  <2>1. PICK p : Linked(list, p) /\ lSeq = ValuesOf(ln, p)
    BY DEF ListInv
  <2>2. Forward(list) = p /\ Backward(list) = Reverse(p)
    BY <2>1, ForwardIs, BackwardIs
  <2>3. list.hd = l /\ list.node = ln
    BY DEF list
  <2>4. p \in Seq(Nodes) /\ DOMAIN p = 1 .. Len(p)
    BY <2>1 DEF Linked
  <2>5. l.size = Len(lSeq)
    BY <2>1, <2>3, ValuesType DEF Linked
  <2>6. Range(p) = Nodes \ Free(list)
    <3>1. Range(p) = {p[i] : i \in 1 .. Len(p)}
      BY <2>4 DEF Range
    <3>2. \A i \in 1 .. Len(p) : p[i] \in Nodes
      BY <2>4
    <3>3. \A n \in Nodes : n \notin Free(list) <=> \E i \in 1 .. Len(p) : n = p[i]
      BY <2>1 DEF Linked, Free
    <3>4. QED
      BY <3>1, <3>2, <3>3, Zenon
  <2>7. QED
    BY <2>1, <2>2, <2>4, <2>5, <2>6 DEF ListIsSequence, ValuesOf
<1>2. QED
  BY <1>1, ListInvariant, PTL
=============================================================================
