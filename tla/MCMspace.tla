------------------------------ MODULE MCMspace ------------------------------
(***************************************************************************)
(* The heap of malloc.c on a segment of a few words: every sequence of     *)
(* calls on it, until and beyond the point where it is full.               *)
(***************************************************************************)
EXTENDS Mspace

CONSTANTS
    Words,        \* sizes the program asks for on a segment of at most
    SmallSegment, \* so many words, with every call of the interface
    TinySegment,  \* and, on at most so many, every choice of parameters
    TreeWords,    \* sizes it asks for on a larger one, see LargeBlocks
    TooMany,      \* a size that can never be granted
    Alignments    \* alignments it asks for

(* Two elements, of equal sizes if they are to be zeroed.                  *)
ElementSizes(zero) == { s \in {<<1, 1>>, <<1, 3>>, <<3, 1>>} : zero => s[1] = s[2] }

AnyCall ==
    \/ \E words \in Words \cup {TooMany} : Malloc(words)
    \/ \E n \in {0, 1, 3}, elem \in {1, TooMany - 1} : Calloc(n, elem)
    \/ \E words \in Words : TEMPLATEALLOC(words) \/ SHAREDALLOC(words) \/ CXLALLOC(words)
    \/ \E n \in {1, 65}, size \in {1} :
         shared_allocator(n, size) \/ snapshot_allocator(n, size) \/ cxl_allocator(n, size)
    \/ \E mem \in DOMAIN live : Free(mem)
    \/ \E mem \in DOMAIN live, words \in Words \cup {TooMany} : Realloc(mem, words)
    \/ \E mem \in DOMAIN live, words \in Words : ReallocInPlace(mem, words)
    \/ \E alignment \in Alignments, words \in Words : Memalign(alignment, words)
    \/ \E zero, own \in BOOLEAN : \E sizes \in ElementSizes(zero) : IndependentAlloc(sizes, zero, own)
    \/ \E a, b \in DOMAIN live \cup {0} : (a # b \/ a = 0) /\ BulkFree(<<a, b>>)
    \/ \E pad \in {0, TooMany} : Trim(pad)

(* On a larger segment: first blocks of different sizes, each followed by  *)
(* a word that is never freed, so that they stay apart in the trees when   *)
(* they are; then malloc and free.                                         *)
Separators == { mem \in DOMAIN live : live[mem] = 1 }
MaxSeparators == Cardinality(TreeWords) - 1

LargeBlocks ==
    \/ \E words \in TreeWords \ Range(live) :
         /\ Cardinality(Separators) < MaxSeparators
         /\ IndependentAlloc(<<words, 1>>, FALSE, FALSE)
    \/ \E words \in TreeWords :
         /\ Cardinality(Separators) = MaxSeparators
         /\ Malloc(words)
    \/ \E mem \in DOMAIN live \ Separators : Free(mem)

(* On a very small segment the parameters change as well.                  *)
Parameters ==
    \/ \E param \in {"trim_threshold", "granularity", "mmap_threshold", "other"},
         value \in {-1, 0, 3, 4} : SetParam(param, value)
    \/ \E bytes \in {0, 9, TooMany, MAX_SIZE_T} : SetLimit(bytes)
    \/ \E enable \in BOOLEAN : TrackLargeChunks(enable)

HeapNext ==
    \/ Cardinality(DOMAIN h.w) <= TinySegment /\ Parameters
    \/ Cardinality(DOMAIN h.w) <= SmallSegment /\ AnyCall
    \/ Cardinality(DOMAIN h.w) > SmallSegment /\ LargeBlocks
=============================================================================
