---------------------------- MODULE MallocParams ----------------------------
(***************************************************************************)
(* The side of malloc.c that faces the system: its global parameters, the  *)
(* segments of a space, and how a space asks for more memory.  CXLMC       *)
(* builds it with HAVE_MMAP 0 and HAVE_MORECORE 0, so that the system      *)
(* never gives any and takes none back; what follows a grant in sys_alloc  *)
(* is dead code and not modelled.  Sizes count 8-byte words.               *)
(***************************************************************************)
EXTENDS Integers, Sequences, SequencesExt

CONSTANTS
    SIZE_T_BITSIZE,       \* width of a size
    TOP_FOOT_SIZE,        \* words reserved behind top (9)
    PAGE_SIZE,            \* malloc_getpagesize
    DEFAULT_GRANULARITY,
    TRIM_THRESHOLD        \* DEFAULT_TRIM_THRESHOLD

(* What init_mparams tests before it goes on, and would abort for.         *)
ASSUME ParamAssumption ==
    /\ SIZE_T_BITSIZE \in Nat /\ SIZE_T_BITSIZE > 4
    /\ TOP_FOOT_SIZE \in Nat
    /\ \E k \in 0 .. SIZE_T_BITSIZE : PAGE_SIZE = 2 ^ k
    /\ \E k \in 0 .. SIZE_T_BITSIZE : DEFAULT_GRANULARITY = 2 ^ k

VARIABLE
    mparams     \* the one instance of malloc_params

MAX_SIZE_T == 2 ^ SIZE_T_BITSIZE - 1

(* Unsigned arithmetic of the machine.                                     *)
size_t(x) == x % 2 ^ SIZE_T_BITSIZE

-----------------------------------------------------------------------------
(* Flag words are sets of bits.  Without HAVE_MMAP and USE_LOCKS the two   *)
(* masks are 0: no test of them succeeds and setting them changes nothing. *)
USE_MMAP_BIT == {}
USE_LOCK_BIT == {}

(* A magic of 0 says that the parameters are not set.                      *)
no_mparams == [magic |-> FALSE]

init_mparams(par) ==
    IF par.magic THEN par
    ELSE [magic |-> TRUE, page_size |-> PAGE_SIZE, granularity |-> DEFAULT_GRANULARITY,
          mmap_threshold |-> MAX_SIZE_T, trim_threshold |-> TRIM_THRESHOLD,
          default_mflags |-> USE_LOCK_BIT \cup USE_MMAP_BIT \cup {"noncontiguous"}]

(* An unknown parameter and a granularity that is no power of two or below *)
(* a page are refused (0 passes the test for a power, not the other).      *)
change_mparam(par, param, value) ==
    LET p   == init_mparams(par)
        val == IF value = -1 THEN MAX_SIZE_T ELSE value
    IN  CASE param = "trim_threshold" -> [p EXCEPT !.trim_threshold = val]
          [] param = "granularity"    ->
               IF val >= p.page_size /\ \E k \in 0 .. SIZE_T_BITSIZE : val = 2 ^ k
               THEN [p EXCEPT !.granularity = val] ELSE p
          [] param = "mmap_threshold" -> [p EXCEPT !.mmap_threshold = val]
          [] OTHER -> p

Mallopt(param, value) == mparams' = change_mparam(mparams, param, value)

align_up(size, unit) == size_t(((size + unit - 1) \div unit) * unit)
page_align(size)        == align_up(size, mparams.page_size)
granularity_align(size) == align_up(size, mparams.granularity)

-----------------------------------------------------------------------------
(* The segments of a space s; CXLMC makes a space on memory it mapped      *)
(* itself, an extern segment.                                              *)
Segment(base, size) == [base |-> base, size |-> size, sflags |-> {"extern"}]

segment_holds(sg, a) == a >= sg.base /\ a < sg.base + sg.size

segment_holding(s, a) == SelectSeq(s.seg, LAMBDA sg : segment_holds(sg, a))

is_extern_segment(sg)  == "extern" \in sg.sflags
is_mmapped_segment(sg) == sg.sflags \cap USE_MMAP_BIT # {}

(* CALL_MMAP, CALL_MREMAP and CALL_MUNMAP without HAVE_MMAP: MFAIL, which  *)
(* callers turn into 0.                                                    *)
CALL_MMAP(size) == 0
CALL_MUNMAP(sg) == FALSE

use_mmap(s) == s.mflags \cap USE_MMAP_BIT # {}

(* A limit on what a space takes from the system; 0 is no limit.           *)
within_limit(s, size) ==
    LET fp == size_t(s.footprint + size)
    IN  s.footprint_limit # 0 => fp > s.footprint /\ fp <= s.footprint_limit

(* Words a directly mapped chunk needs besides its own.                    *)
MMAP_OVERHEAD == 7

mmap_alloc(s, nb) ==
    LET mmsize == page_align(nb + MMAP_OVERHEAD)
    IN  IF within_limit(s, mmsize) /\ mmsize > nb THEN CALL_MMAP(mmsize) ELSE 0

(* sys_alloc up to the point where it would have memory: a chunk mapped    *)
(* directly, or a new segment.                                             *)
system_memory(s, nb) ==
    LET asize  == granularity_align(nb + TOP_FOOT_SIZE + 2)
        direct == IF use_mmap(s) /\ nb >= mparams.mmap_threshold /\ s.topsize # 0
                  THEN mmap_alloc(s, nb) ELSE 0
    IN  IF direct # 0 THEN direct
        ELSE IF asize > nb /\ within_limit(s, asize) THEN CALL_MMAP(asize) ELSE 0

(* Segments after the first that are mapped and hold nothing go back.      *)
release_unused_segments(s) ==
    LET goes(sg) == is_mmapped_segment(sg) /\ ~is_extern_segment(sg) /\ CALL_MUNMAP(sg)
    IN  [s EXCEPT !.seg = SubSeq(@, 1, 1) \o SelectSeq(Tail(@), LAMBDA sg : ~goes(sg))]

(* disable_mmap is empty without HAVE_MMAP, and enable_mmap sets no bit.   *)
track_large_chunks(s, enable) ==
    [s EXCEPT !.mflags = IF enable THEN @ ELSE @ \cup USE_MMAP_BIT]

(* The two tests are not exclusive: for 0 the minimal size the first one   *)
(* chooses is overwritten by granularity_align(0) = 0, which is no limit.  *)
set_footprint_limit(s, bytes) ==
    [s EXCEPT !.footprint_limit = IF bytes = MAX_SIZE_T THEN 0 ELSE granularity_align(bytes)]

mspace_footprint(s)     == s.footprint
mspace_max_footprint(s) == s.max_footprint
mspace_footprint_limit(s) == IF s.footprint_limit = 0 THEN MAX_SIZE_T ELSE s.footprint_limit

(* Both ask the system: there is no new space, and nothing is unmapped.    *)
create_mspace(capacity, msize) ==
    IF capacity < size_t(-(msize + TOP_FOOT_SIZE + mparams.page_size))
    THEN CALL_MMAP(granularity_align(IF capacity = 0 THEN mparams.granularity
                                     ELSE capacity + TOP_FOOT_SIZE + msize))
    ELSE 0

destroy_mspace(s) ==
    FoldSeq(LAMBDA sg, freed : freed + (IF is_mmapped_segment(sg) /\ ~is_extern_segment(sg)
                                           /\ CALL_MUNMAP(sg) THEN sg.size ELSE 0),
            0, s.seg)
=============================================================================
