------------------------------- MODULE Mspace -------------------------------
(***************************************************************************)
(* The heap of src/allocators/malloc.c in the configuration CXLMC builds:  *)
(* ONLY_MSPACES, HAVE_MMAP 0, no MORECORE, no locks, no footers.  There is *)
(* one extern segment that never grows, and three such spaces live in the  *)
(* checker: shared_space, snapshot_space and cxl_space.                    *)
(*                                                                         *)
(* The unit is the 8-byte word.  A chunk at p has prev_foot at p, head at  *)
(* p+1 and its payload in p+2 .. p+size: the last payload word is the      *)
(* prev_foot of the next chunk, where a free chunk keeps its size.  The    *)
(* links of free chunks, which the code stores in their payload, are kept  *)
(* apart: a small bin is a sequence, a tree bin a set of paths.            *)
(***************************************************************************)
EXTENDS MallocParams, FiniteSets, FiniteSetsExt

CONSTANTS
    MIN_CHUNK_SIZE,   \* words of the smallest chunk (4 in the code)
    NSMALLBINS,       \* chunks of fewer words are small (32)
    TREEBIN_SHIFT,    \* 2^TREEBIN_SHIFT is the least large size (5, in words)
    NTREEBINS,        \* (32)
    MAX_REQUEST,      \* requests from here on fail
    MSIZE,            \* words of the chunk of the malloc_state itself
    Capacities        \* capacities create_mspace_with_base is called with

ASSUME MspaceAssumption ==
    /\ MIN_CHUNK_SIZE \in Nat /\ MIN_CHUNK_SIZE >= 2
    /\ NSMALLBINS = 2 ^ TREEBIN_SHIFT /\ TREEBIN_SHIFT >= 2
    /\ NTREEBINS % 2 = 0 /\ NTREEBINS > 0
    /\ MSIZE >= MIN_CHUNK_SIZE /\ TOP_FOOT_SIZE >= 2
    /\ \A c \in Capacities : c > MSIZE + TOP_FOOT_SIZE /\ c < MAX_REQUEST
    /\ MAX_REQUEST < 2 ^ SIZE_T_BITSIZE

VARIABLES
    h,       \* the malloc_state and the words of the segment
    live,    \* live[mem]: words the program asked for at mem
    ok       \* history: every call so far did what its caller may rely on

heapVars == <<h, live, ok, mparams>>

-----------------------------------------------------------------------------
(* Words.  Junk is what nobody may read: the inside of free chunks, the    *)
(* rest of a payload beyond what the program asked for.                    *)
HeadWord(size, p, c) == <<"head", size, p, c>>
Foot(size)  == <<"foot", size>>
User(mem)   == <<"user", mem>>
Zeroed      == <<"zero">>
Junk        == <<"junk">>

chunk2mem(p) == p + 2
mem2chunk(mem) == mem - 2

IsHead(s, p) == p + 1 \in DOMAIN s.w /\ s.w[p + 1][1] = "head"
chunksize(s, p) == IF IsHead(s, p) THEN s.w[p + 1][2] ELSE 0
pinuse(s, p) == IsHead(s, p) /\ s.w[p + 1][3]
cinuse(s, p) == IsHead(s, p) /\ s.w[p + 1][4]
next_chunk(s, p) == p + chunksize(s, p)
prev_foot(s, p)  == IF s.w[p][1] = "foot" THEN s.w[p][2] ELSE 0

(* A free chunk has just its pinuse bit; nothing is mmapped here.          *)
is_inuse(s, p) == ~(pinuse(s, p) /\ ~cinuse(s, p))

set_head(s, p, size, pin, cin) == [s EXCEPT !.w[p + 1] = HeadWord(size, pin, cin)]
set_pinuse(s, p, pin) == [s EXCEPT !.w[p + 1] = HeadWord(chunksize(s, p), pin, cinuse(s, p))]
set_foot(s, p, size)  == [s EXCEPT !.w[p + size] = Foot(size)]

set_size_and_pinuse_of_free_chunk(s, p, size) ==
    set_foot(set_head(s, p, size, TRUE, FALSE), p, size)

set_free_with_pinuse(s, p, size, n) ==
    set_size_and_pinuse_of_free_chunk(set_pinuse(s, n, FALSE), p, size)

set_inuse(s, p, size) ==
    set_pinuse(set_head(s, p, size, pinuse(s, p), TRUE), p + size, TRUE)

set_inuse_and_pinuse(s, p, size) ==
    set_pinuse(set_head(s, p, size, TRUE, TRUE), p + size, TRUE)

set_size_and_pinuse_of_inuse_chunk(s, p, size) == set_head(s, p, size, TRUE, TRUE)

(* pad_request: one word of overhead, and at least a minimal chunk.        *)
pad_request(words) == words + 1
request2size(words) ==
    IF pad_request(words) < MIN_CHUNK_SIZE THEN MIN_CHUNK_SIZE ELSE pad_request(words)

-----------------------------------------------------------------------------
(* Small bins: chunks of one size each, the newest first.                  *)
is_small(size) == size < NSMALLBINS

insert_small_chunk(s, p, size) ==
    [s EXCEPT !.smallbins[size] = IF size \in s.smallmap THEN <<p>> \o @ ELSE <<p>>,
              !.smallmap = @ \cup {size}]

unlink_small_chunk(s, p, size) ==
    LET rest == SelectSeq(s.smallbins[size], LAMBDA q : q # p)
    IN  [s EXCEPT !.smallbins[size] = rest,
                  !.smallmap = IF rest = <<>> THEN @ \ {size} ELSE @]

unlink_first_small_chunk(s, size) ==
    unlink_small_chunk(s, s.smallbins[size][1], size)

-----------------------------------------------------------------------------
(* Tree bins: tries over the bits of the sizes.  A node is the path of     *)
(* child indices that leads to it; it holds the ring of the chunks of one  *)
(* size, the one that is linked into the tree first, then along fd.        *)
log2(x) == CHOOSE k \in 0 .. SIZE_T_BITSIZE : 2 ^ k <= x /\ x < 2 ^ (k + 1)

bit(size, k) == (size \div 2 ^ k) % 2

(* A bin map is the set of the indices whose bit is on: least_bit with     *)
(* compute_bit2idx, and left_bits.                                         *)
first_bin(map)      == Min(map)
bins_after(map, i)  == { k \in map : k > i }

compute_tree_index(size) ==
    LET x == size \div 2 ^ TREEBIN_SHIFT
    IN  IF x = 0 THEN 0
        ELSE IF x >= 2 ^ (NTREEBINS \div 2) THEN NTREEBINS - 1
        ELSE 2 * log2(x) + bit(size, log2(x) + TREEBIN_SHIFT - 1)

bit_for_tree_index(i) ==
    IF i = NTREEBINS - 1 THEN SIZE_T_BITSIZE - 1 ELSE (i \div 2) + TREEBIN_SHIFT - 2

(* The children a walk for size takes, from the root of bin i.             *)
sizebits(size, i) ==
    LET top == bit_for_tree_index(i)
    IN  [k \in 1 .. top + 1 |-> bit(size, top + 1 - k)]

Paths(t) == DOMAIN t
Extends(path, prefix) == IsPrefix(prefix, path)

(* The chunk linked at a path, and its size.                               *)
At(t, path) == t[path][1]
SizeAt(s, t, path) == chunksize(s, At(t, path))

(* The nodes a walk along bits passes, from the root on.                   *)
OnWalk(t, bits) == { p \in Paths(t) : IsPrefix(p, bits) }

Longest(ps)  == CHOOSE p \in ps : \A q \in ps : Len(q) <= Len(p)
Shortest(ps) == CHOOSE p \in ps : \A q \in ps : Len(p) <= Len(q)

SetNode(t, path, ring) == [p \in Paths(t) \cup {path} |-> IF p = path THEN ring ELSE t[p]]
RemoveNode(t, path) == [p \in Paths(t) \ {path} |-> t[p]]

insert_in_tree(s, t, walk, bits, x, size) ==
    LET same == { p \in walk : SizeAt(s, t, p) = size }
    IN  IF same # {}
        THEN LET p == Shortest(same) IN SetNode(t, p, <<t[p][1], x>> \o Tail(t[p]))
        ELSE SetNode(t, SubSeq(bits, 1, Len(Longest(walk)) + 1), <<x>>)

insert_large_chunk(s, x, size) ==
    LET i    == compute_tree_index(size)
        bits == sizebits(size, i)
    IN  [s EXCEPT !.treebins[i] = IF i \notin s.treemap THEN SetNode(<<>>, <<>>, <<x>>)
                                  ELSE insert_in_tree(s, @, OnWalk(@, bits), bits, x, size),
                  !.treemap = @ \cup {i}]

(* The leaf reached from below path by child[1] where there is one.        *)
RightmostLeaf(t, path) ==
    CHOOSE q \in Paths(t) :
        /\ q # path /\ Extends(q, path)
        /\ ~ \E r \in Paths(t) : r # q /\ Extends(r, q)
        /\ \A k \in Len(path) + 1 .. Len(q) :
             q[k] = 0 => Append(SubSeq(q, 1, k - 1), 1) \notin Paths(t)

(* A chained chunk leaves its ring, the oldest one replacing the one in    *)
(* the tree; the last of its size is replaced by the rightmost leaf.       *)
without_node_MutantDropSubtree(t, path) ==
    [p \in { q \in Paths(t) : ~Extends(q, path) } |-> t[p]]

without_node(t, path) ==
    LET leaf == RightmostLeaf(t, path)
    IN  IF \E q \in Paths(t) : q # path /\ Extends(q, path)
        THEN SetNode(RemoveNode(t, leaf), path, t[leaf])
        ELSE RemoveNode(t, path)

without_chunk(t, path, ring, x) ==
    IF Len(ring) = 1 THEN without_node(t, path)
    ELSE IF ring[1] = x
    THEN SetNode(t, path, <<ring[Len(ring)]>> \o SubSeq(ring, 2, Len(ring) - 1))
    ELSE SetNode(t, path, SelectSeq(ring, LAMBDA c : c # x))

PathOf(t, x) == CHOOSE p \in Paths(t) : x \in Range(t[p])

replace_tree(s, i, t) ==
    [s EXCEPT !.treebins[i] = t, !.treemap = IF Paths(t) = {} THEN @ \ {i} ELSE @]

unlink_large_chunk(s, x) ==
    LET i    == compute_tree_index(chunksize(s, x))
        t    == s.treebins[i]
        path == PathOf(t, x)
    IN  replace_tree(s, i, without_chunk(t, path, t[path], x))

insert_chunk(s, p, size) ==
    IF is_small(size) THEN insert_small_chunk(s, p, size) ELSE insert_large_chunk(s, p, size)

unlink_chunk(s, p, size) ==
    IF is_small(size) THEN unlink_small_chunk(s, p, size) ELSE unlink_large_chunk(s, p)

(* The old designated victim is binned.                                    *)
replace_dv(s, p, size) ==
    LET b == IF s.dvsize # 0 THEN insert_small_chunk(s, s.dv, s.dvsize) ELSE s
    IN  [b EXCEPT !.dv = p, !.dvsize = size]

-----------------------------------------------------------------------------
(* create_mspace_with_base: the chunk of the malloc_state at the base, top *)
(* behind it, and behind top the fake chunk that holds the reserve.        *)
init_top(w, p, psize) ==
    [w EXCEPT ![p + 1] = HeadWord(psize, TRUE, FALSE),
              ![p + psize + 1] = HeadWord(TOP_FOOT_SIZE, FALSE, FALSE)]

init_bins(bins) == [i \in bins |-> <<>>]

init_user_mstate(capacity, par) ==
    LET topsize == capacity - MSIZE - TOP_FOOT_SIZE
        w == [a \in 0 .. capacity - 1 |-> IF a = 1 THEN HeadWord(MSIZE, TRUE, TRUE) ELSE Junk]
    IN  [w |-> init_top(w, MSIZE, topsize),
         smallbins |-> init_bins(0 .. NSMALLBINS - 1), smallmap |-> {},
         treebins  |-> init_bins(0 .. NTREEBINS - 1),  treemap |-> {},
         dv |-> 0, dvsize |-> 0,
         top |-> MSIZE, topsize |-> topsize,
         trim_check |-> par.trim_threshold,
         seg |-> <<Segment(0, capacity)>>,
         footprint |-> capacity, max_footprint |-> capacity, footprint_limit |-> 0,
         mflags |-> par.default_mflags,
         valgrind |-> {}]

(* What Valgrind is told: the blocks it knows.                             *)
MALLOCLIKE(s, mem) == [s EXCEPT !.valgrind = IF mem = 0 THEN @ ELSE @ \cup {mem}]
FREELIKE(s, mem)   == [s EXCEPT !.valgrind = @ \ {mem}]

(* A result: the heap and what the function returns (0 is NULL).           *)
Result(s, mem) == [h |-> s, mem |-> mem]

(* Neither MORECORE nor MMAP can give memory: after the tests for wrap-    *)
(* around and the footprint limit the request fails.                       *)
sys_alloc(s, nb) == Result(s, system_memory(s, nb))

(* Splitting a free chunk that was just unlinked: the remainder, unless it *)
(* is too small to be a chunk, becomes dv or goes to its bin.              *)
Split(s, p, size, nb, to) ==
    LET s2 == set_size_and_pinuse_of_free_chunk(
                set_size_and_pinuse_of_inuse_chunk(s, p, nb), p + nb, size - nb)
    IN  CASE size - nb < MIN_CHUNK_SIZE -> set_inuse_and_pinuse(s, p, size)
          [] size - nb >= MIN_CHUNK_SIZE /\ to = "dv" -> replace_dv(s2, p + nb, size - nb)
          [] size - nb >= MIN_CHUNK_SIZE /\ to = "bin" -> insert_chunk(s2, p + nb, size - nb)

(* The nodes of the walk from path to the left, to the right where there   *)
(* is no left child: the smallest size below path is on it.                *)
LeftmostWalk(t, path) ==
    { q \in Paths(t) :
        /\ Extends(q, path)
        /\ \A k \in Len(path) + 1 .. Len(q) :
             q[k] = 1 => Append(SubSeq(q, 1, k - 1), 0) \notin Paths(t) }

Least(s, t, ps) == CHOOSE p \in ps : \A q \in ps : SizeAt(s, t, p) <= SizeAt(s, t, q)

(* tmalloc_small: the smallest chunk of the first tree.                    *)
tmalloc_small(s, nb) ==
    LET t == s.treebins[first_bin(s.treemap)]
        v == At(t, Least(s, t, LeftmostWalk(t, <<>>)))
    IN  Result(Split(unlink_large_chunk(s, v), v, chunksize(s, v), nb, "dv"), chunk2mem(v))

(* The candidates of tmalloc_large: the nodes on the walk for nb that are  *)
(* large enough and the leftmost walk of the deepest right subtree the     *)
(* walk did not take (an exact fit on the walk beats them anyway); if      *)
(* there is nothing at all, the leftmost walk of the next tree.            *)
InTree_MutantNoRightSubtree(s, t, bits, nb) ==
    { p \in OnWalk(t, bits) : SizeAt(s, t, p) >= nb }

InTree(s, t, bits, nb) ==
    LET walk  == OnWalk(t, bits)
        right == { Append(p, 1) : p \in { q \in walk : Len(q) < Len(bits) /\ bits[Len(q) + 1] = 0 } }
                   \cap Paths(t)
    IN  { p \in walk : SizeAt(s, t, p) >= nb }
          \cup (IF right = {} THEN {} ELSE LeftmostWalk(t, Longest(right)))

Candidates(s, nb) ==
    LET i    == compute_tree_index(nb)
        here == InTree(s, s.treebins[i], sizebits(nb, i), nb)
        left == bins_after(s.treemap, i)
    IN  IF here # {} THEN { At(s.treebins[i], p) : p \in here }
        ELSE IF left = {} THEN {}
        ELSE LET u == s.treebins[first_bin(left)] IN { At(u, p) : p \in LeftmostWalk(u, <<>>) }

(* The best of them, unless dv fits better (an unsigned comparison: a dv   *)
(* that is too small wraps to a very bad fit).                             *)
best_of(s, nb, cs) ==
    LET v == CHOOSE x \in cs : \A y \in cs : chunksize(s, x) <= chunksize(s, y)
    IN  IF cs # {} /\ chunksize(s, v) - nb < size_t(s.dvsize - nb)
        THEN Result(Split(unlink_large_chunk(s, v), v, chunksize(s, v), nb, "bin"),
                    chunk2mem(v))
        ELSE Result(s, 0)

tmalloc_large(s, nb) ==
    best_of(s, nb, { v \in Candidates(s, nb) : chunksize(s, v) >= nb })

(* The first chunk of the small bin for size.                              *)
from_smallbin(s, size, nb) ==
    LET p == s.smallbins[size][1]
    IN  Result(Split(unlink_first_small_chunk(s, size), p, size, nb, "dv"), chunk2mem(p))

from_dv(s, nb) ==
    LET p == s.dv
    IN  IF s.dvsize - nb >= MIN_CHUNK_SIZE
        THEN Result([set_size_and_pinuse_of_inuse_chunk(
                       set_size_and_pinuse_of_free_chunk(s, p + nb, s.dvsize - nb), p, nb)
                     EXCEPT !.dv = p + nb, !.dvsize = @ - nb], chunk2mem(p))
        ELSE Result([set_inuse_and_pinuse(s, p, s.dvsize) EXCEPT !.dv = 0, !.dvsize = 0],
                    chunk2mem(p))

from_top(s, nb) ==
    LET p == s.top
        r == set_head(s, p + nb, s.topsize - nb, TRUE, FALSE)
    IN  Result([set_size_and_pinuse_of_inuse_chunk(r, p, nb)
                EXCEPT !.top = p + nb, !.topsize = @ - nb], chunk2mem(p))

dv_or_top(s, nb) ==
    IF nb <= s.dvsize THEN from_dv(s, nb)
    ELSE IF nb < s.topsize THEN from_top(s, nb)
    ELSE sys_alloc(s, nb)

(* A small request: a bin that fits without remainder, dv, the next small  *)
(* bin, the trees, top.                                                    *)
malloc_small(s, nb) ==
    LET larger == { i \in s.smallmap : i >= nb }
    IN  IF larger \cap {nb, nb + 1} # {} \/ (nb > s.dvsize /\ larger # {})
        THEN from_smallbin(s, first_bin(larger), nb)
        ELSE IF nb > s.dvsize /\ s.treemap # {} THEN tmalloc_small(s, nb)
        ELSE dv_or_top(s, nb)

or_else(r, s, nb) == IF r.mem # 0 THEN r ELSE dv_or_top(s, nb)

malloc_large(s, nb) ==
    or_else(IF s.treemap # {} THEN tmalloc_large(s, nb) ELSE Result(s, 0), s, nb)

malloc_words(s, words) ==
    IF words >= MAX_REQUEST THEN dv_or_top(s, MAX_SIZE_T)
    ELSE IF is_small(request2size(words)) THEN malloc_small(s, request2size(words))
    ELSE malloc_large(s, request2size(words))

(* Every way out passes the notification of Valgrind.                      *)
mspace_malloc(s, words) ==
    LET r == malloc_words(s, words) IN Result(MALLOCLIKE(r.h, r.mem), r.mem)

-----------------------------------------------------------------------------
(* The segment is extern, so trimming releases nothing; after the first   *)
(* attempt that found top too large it is switched off.                    *)
sys_trim(s, pad) ==
    IF pad < MAX_REQUEST /\ s.topsize > s.trim_check
    THEN [s EXCEPT !.trim_check = MAX_SIZE_T] ELSE s

should_trim(s) == s.topsize > s.trim_check

(* Merge the chunk [p, p + psize) that is going free into what follows it. *)
consolidate_forward(s, p, psize, next) ==
    LET isdv  == p = s.dv
        nsize == chunksize(s, next)
        used  == cinuse(s, next)
        size  == IF used THEN psize ELSE psize + nsize
        m     == IF used THEN set_free_with_pinuse(s, p, psize, next)
                 ELSE set_size_and_pinuse_of_free_chunk(unlink_chunk(s, next, nsize), p, size)
    IN  IF ~used /\ next = s.top
        THEN [set_head(s, p, s.topsize + psize, TRUE, FALSE)
              EXCEPT !.top = p, !.topsize = @ + psize,
                     !.dv = IF isdv THEN 0 ELSE @, !.dvsize = IF isdv THEN 0 ELSE @]
        ELSE IF ~used /\ next = s.dv
        THEN [set_size_and_pinuse_of_free_chunk(s, p, s.dvsize + psize)
              EXCEPT !.dv = p, !.dvsize = @ + psize]
        ELSE IF ~used /\ isdv THEN [m EXCEPT !.dvsize = size]
        ELSE insert_chunk(m, p, size)

(* Out of its bin with the free chunk before p, unless that is dv.         *)
unlink_before(s, p) ==
    LET prev == p - prev_foot(s, p)
    IN  IF prev = s.dv THEN s ELSE unlink_chunk(s, prev, prev_foot(s, p))

(* dispose_chunk, and the body of mspace_free: first into a free chunk     *)
(* before it.  If that is dv and the chunk after is in use (its head has   *)
(* both bits set) dv just grows.                                           *)
dispose_chunk(s, p, psize) ==
    LET next  == p + psize
        prevsize == IF pinuse(s, p) THEN 0 ELSE prev_foot(s, p)
        first == p - prevsize
        size  == psize + prevsize
    IN  IF prevsize # 0 /\ first = s.dv /\ pinuse(s, next) /\ cinuse(s, next)
        THEN [set_free_with_pinuse(s, first, size, next) EXCEPT !.dvsize = size]
        ELSE consolidate_forward(IF prevsize = 0 THEN s ELSE unlink_before(s, p), first, size, next)

(* The tests before anything is freed; when one fails the process aborts.  *)
ok_free(s, mem) ==
    LET p == mem2chunk(mem)
    IN  /\ p >= 0 /\ is_inuse(s, p)
        /\ p < next_chunk(s, p) /\ pinuse(s, next_chunk(s, p))

(* When top has not grown, the segments are looked at now and then (every *)
(* MAX_RELEASE_CHECK_RATE = MAX_SIZE_T frees: never, for a program's run). *)
mspace_free(s, mem) ==
    LET p == mem2chunk(mem)
        r == dispose_chunk(s, p, chunksize(s, p))
    IN  FREELIKE(IF r.top # s.top /\ should_trim(r) THEN sys_trim(r, 0)
                 ELSE IF r.top # s.top THEN r ELSE release_unused_segments(r), mem)

-----------------------------------------------------------------------------
(* The remainder of a chunk that stays in use is freed.                    *)
free_remainder(s, p, nb, rsize) ==
    dispose_chunk(set_inuse(set_inuse(s, p, nb), p + nb, rsize), p + nb, rsize)

(* try_realloc_chunk: keep the chunk, shrunk or grown into top, dv or the  *)
(* free chunk that follows; mem is 0 if it has to move.                    *)
try_realloc_chunk(s, p, nb) ==
    LET oldsize == chunksize(s, p)
        next    == p + oldsize
        both    == oldsize + chunksize(s, next)
        enough  == oldsize >= nb
        total   == IF enough THEN oldsize ELSE both
        u       == IF enough THEN s ELSE unlink_chunk(s, next, chunksize(s, next))
        done    == chunk2mem(p)
    IN  IF ~enough /\ next = s.top
        THEN IF oldsize + s.topsize > nb
             THEN Result([set_head(set_inuse(s, p, nb), p + nb, both - nb, TRUE, FALSE)
                          EXCEPT !.top = p + nb, !.topsize = both - nb], done)
             ELSE Result(s, 0)
        ELSE IF ~enough /\ (cinuse(s, next) \/ both < nb) THEN Result(s, 0)
        ELSE IF ~enough /\ next = s.dv
        THEN Result(IF both - nb >= MIN_CHUNK_SIZE
                    THEN [set_pinuse(set_size_and_pinuse_of_free_chunk(
                            set_inuse(s, p, nb), p + nb, both - nb), p + both, FALSE)
                          EXCEPT !.dv = p + nb, !.dvsize = both - nb]
                    ELSE [set_inuse(s, p, both) EXCEPT !.dv = 0, !.dvsize = 0], done)
        ELSE IF total - nb >= MIN_CHUNK_SIZE
        THEN Result(free_remainder(u, p, nb, total - nb), done)
        ELSE Result(IF enough THEN s ELSE set_inuse(u, p, total), done)

(* memcpy of words from one payload to another, memset of a payload.       *)
copy_words(s, to, from, words) ==
    [s EXCEPT !.w = [a \in DOMAIN @ |-> IF a \in to .. to + words - 1 THEN @[from + (a - to)] ELSE @[a]]]

zero_words(s, to, words) ==
    [s EXCEPT !.w = [a \in DOMAIN @ |-> IF a \in to .. to + words - 1 THEN Zeroed ELSE @[a]]]

(* The block moves to m, if there is one.                                  *)
move_block_MutantFreeFirst(s, m, oldmem, words, oc) ==
    IF m.mem = 0 THEN Result(s, 0)
    ELSE Result(copy_words(mspace_free(m.h, oldmem), m.mem, oldmem, IF oc < words THEN oc ELSE words),
                m.mem)

move_block(s, m, oldmem, words, oc) ==
    IF m.mem = 0 THEN Result(s, 0)
    ELSE Result(mspace_free(copy_words(m.h, m.mem, oldmem, IF oc < words THEN oc ELSE words), oldmem),
                m.mem)

realloc_or_move(s, r, oldmem, words) ==
    IF r.mem # 0 THEN Result(MALLOCLIKE(FREELIKE(r.h, oldmem), r.mem), r.mem)
    ELSE move_block(s, mspace_malloc(s, words), oldmem, words, chunksize(s, mem2chunk(oldmem)) - 1)

mspace_realloc(s, oldmem, words) ==
    IF oldmem = 0 THEN mspace_malloc(s, words)
    ELSE IF words >= MAX_REQUEST THEN Result(s, 0)
    ELSE realloc_or_move(s, try_realloc_chunk(s, mem2chunk(oldmem), request2size(words)), oldmem, words)

(* The product wraps; the division finds out, but is only tried when a     *)
(* factor has high bits.                                                   *)
calloc_request(n, elem) ==
    LET req == size_t(n * elem)
    IN  IF n = 0 THEN 0
        ELSE IF (n >= 2 ^ (SIZE_T_BITSIZE \div 4) \/ elem >= 2 ^ (SIZE_T_BITSIZE \div 4))
                /\ req \div n # elem
        THEN MAX_SIZE_T ELSE req

mspace_calloc(s, n, elem) ==
    LET r == mspace_malloc(s, calloc_request(n, elem))
    IN  IF r.mem = 0 THEN r ELSE Result(zero_words(r.h, r.mem, calloc_request(n, elem)), r.mem)

(* internal_memalign: a larger chunk, of which the part before the first   *)
(* aligned spot and the spare part at the end are freed again.             *)
round_up(x, alignment) == ((x + alignment - 1) \div alignment) * alignment

power_of_2(alignment) ==
    LET a == IF alignment < MIN_CHUNK_SIZE THEN MIN_CHUNK_SIZE ELSE alignment
    IN  2 ^ (CHOOSE k \in 0 .. SIZE_T_BITSIZE : 2 ^ k >= a /\ (k = 0 \/ 2 ^ (k - 1) < a))

align_chunk(s, p, alignment) ==
    LET br  == mem2chunk(round_up(chunk2mem(p), alignment))
        pos == IF br - p >= MIN_CHUNK_SIZE THEN br ELSE br + alignment
    IN  IF chunk2mem(p) % alignment = 0 THEN Result(s, p)
        ELSE Result(dispose_chunk(set_inuse(set_inuse(s, pos, chunksize(s, p) - (pos - p)),
                                            p, pos - p), p, pos - p), pos)

give_back_spare_MutantKeepsIt(a, nb) == Result(a.h, chunk2mem(a.mem))

give_back_spare(a, nb) ==
    LET size == chunksize(a.h, a.mem)
    IN  Result(IF size > nb + MIN_CHUNK_SIZE THEN free_remainder(a.h, a.mem, nb, size - nb) ELSE a.h,
               chunk2mem(a.mem))

align_block(r, nb, alignment) ==
    IF r.mem = 0 THEN r
    ELSE LET a == give_back_spare(align_chunk(FREELIKE(r.h, r.mem), mem2chunk(r.mem), alignment), nb)
         IN  Result(MALLOCLIKE(a.h, a.mem), a.mem)

internal_memalign(s, align, words) ==
    LET alignment == power_of_2(align)
        nb == request2size(words)
    IN  IF words >= MAX_REQUEST - alignment THEN Result(s, 0)
        ELSE align_block(mspace_malloc(s, nb + alignment + MIN_CHUNK_SIZE - 1), nb, alignment)

mspace_memalign(s, alignment, words) ==
    IF alignment <= 1 THEN mspace_malloc(s, words) ELSE internal_memalign(s, alignment, words)

-----------------------------------------------------------------------------
(* ialloc: one chunk for all elements and, unless the caller brings one,   *)
(* for the array of their addresses; then it is cut up.  The last piece    *)
(* gets what the chunk has too much.                                       *)
Sum(sizes) == FoldSeq(LAMBDA x, sum : x + sum, 0, sizes)

element_offset(sizes, i) == Sum([k \in 1 .. i - 1 |-> request2size(sizes[k])])

split_elements(s, p, sizes, total) ==
    LET n    == Len(sizes)
        at   == [i \in 1 .. n |-> p + element_offset(sizes, i)]
        size == [i \in 1 .. n |-> IF i < n THEN request2size(sizes[i]) ELSE total - element_offset(sizes, n)]
    IN  FoldLeft(LAMBDA t, i : set_size_and_pinuse_of_inuse_chunk(t, at[i], size[i]),
                 s, [i \in 1 .. n |-> i])

(* The result's mem is the array (the chunk's own, or 0 if the caller's    *)
(* array is used), and elems the addresses written to it.                  *)
carve(s, p, csize, sizes, zero, own) ==
    LET n        == Len(sizes)
        array    == IF own THEN request2size(n) ELSE 0
        contents == element_offset(sizes, n + 1)
        z        == IF zero THEN zero_words(s, chunk2mem(p), csize - 1 - array) ELSE s
        a        == IF own THEN set_size_and_pinuse_of_inuse_chunk(z, p + contents, csize - contents)
                    ELSE z
    IN  [h     |-> split_elements(a, p, sizes, IF own THEN contents ELSE csize),
         mem   |-> IF own THEN chunk2mem(p + contents) ELSE 0,
         elems |-> [i \in 1 .. n |-> chunk2mem(p + element_offset(sizes, i))]]

carve_block(r, sizes, zero, own) ==
    IF r.mem = 0 THEN [h |-> r.h, mem |-> 0, elems |-> <<>>]
    ELSE carve(r.h, mem2chunk(r.mem), chunksize(r.h, mem2chunk(r.mem)), sizes, zero, own)

ialloc(s, sizes, zero, own) ==
    carve_block(mspace_malloc(s, element_offset(sizes, Len(sizes) + 1)
                                   + (IF own THEN request2size(Len(sizes)) ELSE 0) - 1),
                sizes, zero, own)

(* Blocks of the array that lie next to each other are joined first.       *)
internal_bulk_free(s, array) ==
    LET n == Len(array)
        Step(t, i) ==
            LET p    == mem2chunk(t.a[i])
                next == next_chunk(t.h, p)
            IN  IF t.a[i] = 0 THEN t
                ELSE IF i < n /\ t.a[i + 1] = chunk2mem(next)
                THEN [h |-> set_inuse(t.h, p, chunksize(t.h, next) + chunksize(t.h, p)),
                      a |-> [t.a EXCEPT ![i] = 0, ![i + 1] = t.a[i]]]
                ELSE [h |-> dispose_chunk(t.h, p, chunksize(t.h, p)), a |-> [t.a EXCEPT ![i] = 0]]
        r == FoldLeft(Step, [h |-> s, a |-> array], [i \in 1 .. n |-> i]).h
    IN  IF should_trim(r) THEN sys_trim(r, 0) ELSE r

-----------------------------------------------------------------------------
(* The chunks from the base of the segment up to top, as a walk over the   *)
(* heads meets them.                                                       *)
Traverse(s) ==
    LET c[n \in Nat] ==
          IF n = 0 THEN {0}
          ELSE LET seen == c[n - 1]
               IN  seen \cup { q \in { next_chunk(s, p) : p \in seen } : q < s.top }
    IN  c[Cardinality(DOMAIN s.w) \div MIN_CHUNK_SIZE]

FreeChunks(s)  == { p \in Traverse(s) : ~is_inuse(s, p) }

SumOfSizes(s, ps) == FoldSet(LAMBDA p, sum : sum + chunksize(s, p), 0, ps)

(* internal_mallinfo: what is free, what is not, and how many free chunks. *)
internal_mallinfo(s) ==
    LET mfree == s.topsize + TOP_FOOT_SIZE + SumOfSizes(s, FreeChunks(s))
        footprint == Cardinality(DOMAIN s.w)
    IN  [arena    |-> s.topsize + TOP_FOOT_SIZE + SumOfSizes(s, Traverse(s)),
         ordblks  |-> 1 + Cardinality(FreeChunks(s)),
         uordblks |-> footprint - mfree,
         fordblks |-> mfree,
         keepcost |-> s.topsize]

(* internal_malloc_stats: the three numbers it prints.                     *)
internal_malloc_stats(s) ==
    [max_system |-> s.max_footprint, system |-> s.footprint,
     in_use |-> s.footprint - (s.topsize + TOP_FOOT_SIZE) - SumOfSizes(s, FreeChunks(s))]

mspace_usable_size(s, mem) ==
    IF mem # 0 /\ is_inuse(s, mem2chunk(mem)) THEN chunksize(s, mem2chunk(mem)) - 1 ELSE 0

-----------------------------------------------------------------------------
(* The program.  It fills what it asked for with words that name the       *)
(* block; words nobody may read become Junk.                               *)
Fill(s, lv) ==
    LET heads == { p + 1 : p \in Traverse(s) \cup {s.top, s.top + s.topsize} }
        feet  == { next_chunk(s, p) : p \in FreeChunks(s) }
        owner == [a \in DOMAIN s.w |-> { mem \in DOMAIN lv : a \in mem .. mem + lv[mem] - 1 }]
    IN  [s EXCEPT !.w = [a \in DOMAIN @ |-> IF owner[a] # {} THEN User(Max(owner[a]))
                                            ELSE IF a \in heads \cup feet THEN @[a] ELSE Junk],
                  !.valgrind = DOMAIN lv]

Without(lv, mem) == [x \in DOMAIN lv \ {mem} |-> lv[x]]
With(lv, mem, words) == [x \in DOMAIN lv \cup {mem} |-> IF x = mem THEN words ELSE lv[x]]

(* The other blocks still hold what the program wrote.                     *)
Untouched(s, lv) ==
    \A mem \in DOMAIN lv : \A a \in mem .. mem + lv[mem] - 1 : s.w[a] = User(mem)

(* What a caller may take from the heap, in the order the allocator       *)
(* documents: for a small request a binned chunk that leaves no remainder, *)
(* then dv, then the smallest binned chunk; for a large one the smallest   *)
(* free chunk; top last.  Seen from the chunks in memory, not the bins.    *)
FitsBest(s, words, r) ==
    LET nb     == request2size(words)
        binned == { p \in FreeChunks(s) : p # s.dv /\ chunksize(s, p) >= nb }
        exact  == { p \in binned : is_small(chunksize(s, p)) /\ chunksize(s, p) <= nb + 1 }
        dv     == { p \in {s.dv} : s.dvsize >= nb }
        pool   == IF is_small(nb) THEN IF exact # {} THEN exact ELSE IF dv # {} THEN dv ELSE binned
                  ELSE binned \cup dv
        best   == { p \in pool : \A q \in pool : chunksize(s, p) <= chunksize(s, q) }
    IN  IF words >= MAX_REQUEST THEN r.mem = 0
        ELSE IF pool # {} THEN mem2chunk(r.mem) \in best
        ELSE IF s.topsize > nb THEN mem2chunk(r.mem) = s.top
        ELSE r.mem = 0

do_check_inuse_chunk(s, p) ==
    /\ IsHead(s, p) /\ is_inuse(s, p) /\ pinuse(s, next_chunk(s, p))
    /\ pinuse(s, p) \/ next_chunk(s, p - prev_foot(s, p)) = p

(* Made at the point a chunk is malloced: nothing that could have been     *)
(* split off is given away.                                                *)
do_check_malloced_chunk(s, mem, words) ==
    mem # 0 => /\ do_check_inuse_chunk(s, mem2chunk(mem))
               /\ chunksize(s, mem2chunk(mem)) >= request2size(words)
               /\ chunksize(s, mem2chunk(mem)) < request2size(words) + MIN_CHUNK_SIZE

HeapInit ==
    /\ mparams = init_mparams(no_mparams)
    /\ \E c \in Capacities : h = init_user_mstate(c, mparams)
    /\ live = <<>>
    /\ ok = [data |-> TRUE, fit |-> TRUE, malloced |-> TRUE, books |-> TRUE]

(* A call leaves heap s; the program then owns lv and writes to it.  data  *)
(* says that what the call had to keep is kept, fit that it took the right *)
(* chunk, malloced that the chunk passes its check.                        *)
Returns(s, lv, data, fit, malloced) ==
    /\ h' = Fill(s, lv)
    /\ live' = lv
    /\ ok' = [data |-> data, fit |-> fit, malloced |-> malloced,
              books |-> s.valgrind = DOMAIN lv]
    /\ UNCHANGED mparams

(* The calls that do not tell Valgrind; CXLMC makes none of them, and the  *)
(* books are taken to be put right before the next call.                   *)
ReturnsUntold(s, lv, data) == Returns([s EXCEPT !.valgrind = DOMAIN lv], lv, data, TRUE, TRUE)

Granted(r, words) == IF r.mem = 0 THEN live ELSE With(live, r.mem, words)

Malloc(words) ==
    \E r \in {mspace_malloc(h, words)} :
        Returns(r.h, Granted(r, words), Untouched(r.h, live), FitsBest(h, words, r),
                do_check_malloced_chunk(r.h, r.mem, words))

Calloc(n, elem) ==
    \E r \in {mspace_calloc(h, n, elem)} :
        Returns(r.h, Granted(r, n * elem),
                /\ Untouched(r.h, live)
                /\ r.mem # 0 => \A a \in r.mem .. r.mem + n * elem - 1 : r.h.w[a] = Zeroed,
                FitsBest(h, n * elem, r), do_check_malloced_chunk(r.h, r.mem, n * elem))

Free(mem) ==
    /\ mem \in DOMAIN live
    /\ \E s \in {mspace_free(h, mem)} :
           Returns(s, Without(live, mem), Untouched(s, Without(live, mem)), TRUE, TRUE)

(* operator new: a failed request is a failed assertion, with the heap as  *)
(* it was.  operator delete and deallocate are Free.                       *)
New(words) ==
    /\ mspace_malloc(h, words).mem # 0
    /\ Malloc(words)

(* The containers, the checker's own objects and the program's objects in  *)
(* CXL memory.                                                             *)
TEMPLATEALLOC(words) == New(words)
SHAREDALLOC(words)   == New(words)
CXLALLOC(words)      == New(words)

(* The allocators for std containers: n objects of some size.  The product *)
(* is not tested for wrap-around.                                          *)
shared_allocator(n, size)   == New(size_t(n * size))
snapshot_allocator(n, size) == New(size_t(n * size))
cxl_allocator(n, size)      == New(size_t(n * size))

(* The words both blocks have are the old ones.                            *)
Carried(r, oldmem, words) ==
    \A k \in 0 .. Min({words, live[oldmem]}) - 1 : r.h.w[r.mem + k] = User(oldmem)

Realloc(oldmem, words) ==
    /\ oldmem \in DOMAIN live
    /\ \E r \in {mspace_realloc(h, oldmem, words)}, lv \in {Without(live, oldmem)} :
           IF r.mem = 0 THEN Returns(r.h, live, Untouched(r.h, live), TRUE, TRUE)
           ELSE Returns(r.h, With(lv, r.mem, words), Untouched(r.h, lv) /\ Carried(r, oldmem, words),
                        TRUE, TRUE)

ReallocInPlace(oldmem, words) ==
    /\ oldmem \in DOMAIN live
    /\ words < MAX_REQUEST
    /\ \E r \in {try_realloc_chunk(h, mem2chunk(oldmem), request2size(words))} :
           IF r.mem = 0 THEN ReturnsUntold(r.h, live, Untouched(r.h, live))
           ELSE ReturnsUntold(r.h, With(live, oldmem, words),
                              Untouched(r.h, Without(live, oldmem)) /\ Carried(r, oldmem, words))

Memalign(alignment, words) ==
    \E r \in {mspace_memalign(h, alignment, words)} :
        Returns(r.h, Granted(r, words), Untouched(r.h, live) /\ r.mem % alignment = 0, TRUE, TRUE)

(* independent_calloc and independent_comalloc.                            *)
IndependentAlloc(sizes, zero, own) ==
    \E r \in {ialloc(h, sizes, zero, own)} :
    LET elem(mem) == CHOOSE i \in DOMAIN sizes : r.elems[i] = mem
        elems == [mem \in Range(r.elems) |-> sizes[elem(mem)]]
        array == IF own /\ r.mem # 0 THEN [mem \in {r.mem} |-> Len(sizes)] ELSE <<>>
    IN  ReturnsUntold(r.h,
                [mem \in DOMAIN live \cup DOMAIN elems \cup DOMAIN array |->
                   IF mem \in DOMAIN array THEN array[mem]
                   ELSE IF mem \in DOMAIN elems THEN elems[mem] ELSE live[mem]],
                /\ Untouched(r.h, live)
                /\ zero => \A mem \in DOMAIN elems : \A a \in mem .. mem + elems[mem] - 1 :
                             r.h.w[a] = Zeroed)

BulkFree(array) ==
    /\ Range(array) \subseteq DOMAIN live \cup {0}
    /\ \E s \in {internal_bulk_free(h, array)}, lv \in {[mem \in DOMAIN live \ Range(array) |-> live[mem]]} :
           ReturnsUntold(s, lv, Untouched(s, lv))

Trim(pad) ==
    /\ h' = sys_trim(h, pad)
    /\ UNCHANGED <<live, ok, mparams>>

(* Calls that set parameters: of all spaces, of this one.                  *)
SetParam(param, value) == Mallopt(param, value) /\ UNCHANGED <<h, live, ok>>

SetLimit(bytes) ==
    /\ h' = set_footprint_limit(h, bytes)
    /\ UNCHANGED <<live, ok, mparams>>

TrackLargeChunks(enable) ==
    /\ h' = track_large_chunks(h, enable)
    /\ UNCHANGED <<live, ok, mparams>>

-----------------------------------------------------------------------------
(* The checks of a DEBUG build.                                            *)
do_check_top_chunk(s) ==
    /\ s.topsize > 0 /\ chunksize(s, s.top) = s.topsize
    /\ LET sp == segment_holding(s, s.top)
       IN  sp # <<>> /\ s.topsize = sp[1].base + sp[1].size - s.top - TOP_FOOT_SIZE
    /\ pinuse(s, s.top) /\ ~pinuse(s, s.top + s.topsize)

do_check_free_chunk(s, p) ==
    LET next == next_chunk(s, p)
    IN  /\ IsHead(s, p) /\ ~is_inuse(s, p) /\ ~pinuse(s, next)
        /\ p # s.dv => /\ chunksize(s, p) >= MIN_CHUNK_SIZE
                       /\ prev_foot(s, next) = chunksize(s, p)
                       /\ next = s.top \/ is_inuse(s, next)

minsize_for_tree_index(i) ==
    2 ^ ((i \div 2) + TREEBIN_SHIFT) + (i % 2) * 2 ^ ((i \div 2) + TREEBIN_SHIFT - 1)

(* Every ring holds free chunks of one size that belongs into this tree,   *)
(* nodes have parents, and left is smaller than right.                     *)
do_check_tree(s, i) ==
    LET t == s.treebins[i]
    IN  \A path \in Paths(t) :
          LET size == SizeAt(s, t, path)
              child(c) == Append(path, c)
          IN  /\ compute_tree_index(size) = i /\ size >= minsize_for_tree_index(i)
              /\ i # NTREEBINS - 1 => size < minsize_for_tree_index(i + 1)
              /\ \A u \in Range(t[path]) :
                   chunksize(s, u) = size /\ ~is_inuse(s, u) /\ ~pinuse(s, next_chunk(s, u))
              /\ path = <<>> \/ Front(path) \in Paths(t)
              /\ {child(0), child(1)} \subseteq Paths(t) => SizeAt(s, t, child(0)) < SizeAt(s, t, child(1))

do_check_treebin(s, i) == (Paths(s.treebins[i]) = {}) = (i \notin s.treemap) /\ do_check_tree(s, i)

do_check_smallbin(s, i) ==
    /\ (s.smallbins[i] = <<>>) = (i \notin s.smallmap)
    /\ \A p \in Range(s.smallbins[i]) :
         /\ do_check_free_chunk(s, p) /\ chunksize(s, p) = i
         /\ do_check_inuse_chunk(s, next_chunk(s, p))

(* Looked up as the code does: by the size, along the bits of the size.    *)
bin_find(s, x) ==
    LET size == chunksize(s, x)
        i    == compute_tree_index(size)
        hits == { p \in OnWalk(s.treebins[i], sizebits(size, i)) : SizeAt(s, s.treebins[i], p) = size }
    IN  IF is_small(size) THEN size \in s.smallmap /\ x \in Range(s.smallbins[size])
        ELSE hits # {} /\ x \in Range(s.treebins[i][Shortest(hits)])

(* Chunk after chunk: those in use are in no bin, free ones are dv or in   *)
(* the bin for their size, and no two of them are neighbours.              *)
traverse_and_check(s) ==
    \A q \in Traverse(s) :
      IF is_inuse(s, q) THEN ~bin_find(s, q) /\ do_check_inuse_chunk(s, q)
      ELSE /\ q = s.dv \/ bin_find(s, q)
           /\ next_chunk(s, q) \in Traverse(s) => is_inuse(s, next_chunk(s, q))
           /\ do_check_free_chunk(s, q)

do_check_malloc_state(s) ==
    /\ \A i \in 0 .. NSMALLBINS - 1 : do_check_smallbin(s, i)
    /\ \A i \in 0 .. NTREEBINS - 1 : do_check_treebin(s, i)
    /\ s.dvsize # 0 => /\ s.dvsize = chunksize(s, s.dv) /\ s.dvsize >= MIN_CHUNK_SIZE
                       /\ ~bin_find(s, s.dv)
    /\ do_check_top_chunk(s) /\ ~bin_find(s, s.top)
    /\ traverse_and_check(s)
    /\ internal_mallinfo(s).arena <= Cardinality(DOMAIN s.w)

-----------------------------------------------------------------------------
(* Properties.                                                             *)

(* After every call the checks of a DEBUG build hold, a chunk just         *)
(* malloced passed its own, and every block the program owns passes the    *)
(* test of mspace_free, which aborts otherwise.                            *)
HeapChecks ==
    /\ do_check_malloc_state(h)
    /\ ok.malloced
    /\ \A mem \in DOMAIN live : do_check_inuse_chunk(h, mem2chunk(mem)) /\ ok_free(h, mem)

(* No call changes a word of a block another call returned; realloc brings *)
(* the old contents along, calloc returns zeroes, memalign is aligned, and *)
(* no two live blocks share a word.                                        *)
BlocksIntact == ok.data /\ Untouched(h, live)

(* Every word is in top, in a free chunk or in the chunk of a live block,  *)
(* which has at most MIN_CHUNK_SIZE words more than it needs (so many only *)
(* after memalign or realloc).  All books say so: what mallinfo and        *)
(* malloc_stats count as used is what the program has not freed, Valgrind  *)
(* knows exactly the live blocks, and the space takes nothing from the     *)
(* system and gives nothing back, whatever the parameters and the          *)
(* footprint limit are.                                                    *)
NothingLeaks ==
    LET info  == internal_mallinfo(h)
        stats == internal_malloc_stats(h)
        size  == Cardinality(DOMAIN h.w)
    IN  /\ info.arena = size
        /\ info.uordblks = MSIZE + SumOfSizes(h, { mem2chunk(mem) : mem \in DOMAIN live })
        /\ stats = [max_system |-> size, system |-> size, in_use |-> info.uordblks]
        /\ ok.books
        /\ \A mem \in DOMAIN live :
             /\ mspace_usable_size(h, mem) >= live[mem]
             /\ chunksize(h, mem2chunk(mem)) <= request2size(live[mem]) + MIN_CHUNK_SIZE
        /\ mspace_footprint(h) = size /\ mspace_max_footprint(h) = size
        /\ mspace_footprint_limit(h) > 0
        /\ create_mspace(size, MSIZE) = 0 /\ destroy_mspace(h) = 0

(* malloc takes the best fitting free chunk, and fails only if there is    *)
(* none: the walks over bins and tries find what a look at every chunk of  *)
(* the segment would.                                                      *)
BestFit == ok.fit
=============================================================================
