------------------------------- MODULE MemApi -------------------------------
(***************************************************************************)
(* The memory functions CXLMC puts in front of libc's: memcpy, memmove,    *)
(* memset, bzero and strcpy.  On CXL memory they are cut into loads and    *)
(* stores of 8, 4, 2 and 1 bytes, each a ModelAction; elsewhere libc's     *)
(* function is called, or a byte loop while it is not resolved.  One call  *)
(* is modelled, one step per piece; memory is byte-wise.                   *)
(***************************************************************************)
EXTENDS Integers

CONSTANTS
    MemSize,    \* bytes of memory, addresses 0 .. MemSize-1
    MaxLen,     \* bound: longest n
    FillBytes   \* values of c tried with memset

ASSUME MemAssumption ==
    /\ MemSize \in Nat /\ MaxLen \in Nat
    /\ FillBytes \subseteq 0 .. 255

VARIABLES
    call,    \* the call: function, dst, src, n, c, and the way it takes
    mem,     \* mem[a]: the byte at a
    i,       \* the loop variable
    done,    \* the function returned
    piece    \* the last access: size and the two addresses

memVars == <<call, mem, i, done, piece>>

Copies == {"memcpy", "memmove", "strcpy"}
Fills  == {"memset", "bzero"}

(* cxl: access by access; real: libc's function; early: it is not resolved *)
(* yet, byte by byte.                                                      *)
Ways == {"cxl", "real", "early"}

(* The tests at the head of the functions: an argument in CXL memory and a *)
(* call that is not CXLMC's own.  strcpy asks for dst only, and takes      *)
(* CXLMC's own calls as well.                                              *)
Dispatch(f, dstCxl, srcCxl, inside, resolved) ==
    LET cxl == IF f = "strcpy" THEN dstCxl
               ELSE ~inside /\ (dstCxl \/ (f \in Copies /\ srcCxl))
    IN  IF cxl THEN "cxl" ELSE IF resolved THEN "real" ELSE "early"

(* Bytes that tell where they came from, none of them 0 or a fill byte.    *)
Tag(a) == 1000 + a

(* strcpy finds its n by looking for the 0 that ends the source.  It looks *)
(* into memory itself: that the source holds there what loads return, as   *)
(* it does outside CXL memory, is assumed.                                 *)
InitialMem(k) ==
    [a \in 0 .. MemSize - 1 |->
        IF k.f = "strcpy" /\ a = k.src + k.n THEN 0 ELSE Tag(a)]

(* memcpy and strcpy may not be called with overlapping regions.           *)
Overlap(k) == k.src < k.dst + k.n + 1 /\ k.dst < k.src + k.n + 1

MemInit ==
    /\ call \in [f: Copies \cup Fills, dst: 0 .. MemSize - MaxLen - 1,
                 src: 0 .. MemSize - MaxLen - 1, n: 0 .. MaxLen, c: FillBytes, way: Ways]
    /\ call.way \in { Dispatch(call.f, d, s, in, r) : d, s, in, r \in BOOLEAN }
    /\ call.f \in Fills => call.src = 0
    /\ call.f # "memset" => call.c = 0
    /\ call.f \in {"memcpy", "strcpy"} => ~Overlap(call)
    /\ mem = InitialMem(call)
    /\ i = 0
    /\ done = FALSE
    /\ piece = [size |-> 0, from |-> 0, to |-> 0]

Aligned(a, size) == a % size = 0

(* The cascade of tests in the loops: the widest access both addresses     *)
(* are aligned for and the rest has room for.                              *)
Fits(k, j, size) ==
    /\ Aligned(k.dst + j, size)
    /\ k.f \in Copies => Aligned(k.src + j, size)
    /\ j + size <= k.n

PieceSize_MutantNoRest(k, j) ==
    IF Aligned(k.dst + j, 8) /\ (k.f \in Copies => Aligned(k.src + j, 8)) THEN 8
    ELSE IF Fits(k, j, 4) THEN 4
    ELSE IF Fits(k, j, 2) THEN 2 ELSE 1

PieceSize(k, j) ==
    IF Fits(k, j, 8) THEN 8
    ELSE IF Fits(k, j, 4) THEN 4
    ELSE IF Fits(k, j, 2) THEN 2 ELSE 1

(* The byte a piece of memset stores at position b.  cs2 << 16 is an int,  *)
(* so for c >= 0x80 cs3 is sign-extended to 64 bits and the upper half of  *)
(* cs4 = cs3 << 32 | cs3 is all ones.                                      *)
FillByte(k, size, b) ==
    IF k.f = "bzero" THEN 0
    ELSE IF size = 8 /\ b >= 4 /\ k.c >= 128 THEN 255 ELSE k.c

(* One round of the loop: load a piece, store it.                          *)
Piece ==
    /\ ~done
    /\ call.way = "cxl"
    /\ i < call.n
    /\ LET s == PieceSize(call, i)
       IN  /\ mem' = [a \in DOMAIN mem |->
                        IF a \in call.dst + i .. call.dst + i + s - 1
                        THEN IF call.f \in Copies
                             THEN mem[call.src + (a - call.dst)]
                             ELSE FillByte(call, s, a - call.dst - i)
                        ELSE mem[a]]
           /\ piece' = [size |-> s, from |-> call.src + i, to |-> call.dst + i]
           /\ i' = i + s
    /\ UNCHANGED <<call, done>>

(* The byte loop of the early case; memmove goes downwards if dst is not   *)
(* below src.                                                              *)
Position(k, j) ==
    IF k.f = "memmove" /\ k.dst >= k.src THEN k.n - 1 - j ELSE j

EarlyByte ==
    /\ ~done
    /\ call.way = "early"
    /\ i < call.n
    /\ LET j == Position(call, i)
       IN  mem' = [mem EXCEPT ![call.dst + j] =
                     IF call.f \in Copies THEN mem[call.src + j] ELSE call.c]
    /\ i' = i + 1
    /\ UNCHANGED <<call, done, piece>>

(* What libc promises; strcpy copies the 0 as well.                        *)
Libc(k, m) ==
    [a \in DOMAIN m |->
        IF a \in k.dst .. k.dst + k.n - 1
        THEN IF k.f \in Copies THEN m[k.src + (a - k.dst)] ELSE k.c
        ELSE IF k.f = "strcpy" /\ a = k.dst + k.n THEN 0 ELSE m[a]]

RealCall ==
    /\ ~done
    /\ call.way = "real"
    /\ mem' = Libc(call, mem)
    /\ done' = TRUE
    /\ UNCHANGED <<call, i, piece>>

MemReturn ==
    /\ ~done
    /\ call.way # "real"
    /\ i >= call.n
    /\ done' = TRUE
    /\ UNCHANGED <<call, mem, i, piece>>

MemNext == Piece \/ EarlyByte \/ RealCall \/ MemReturn

MemSpec == MemInit /\ [][MemNext]_memVars

-----------------------------------------------------------------------------
(* The calls whose pieces do not add up to libc's function: memmove on CXL *)
(* memory only goes upwards, memset widens its byte as a signed number,    *)
(* and strcpy never stores the terminator.                                 *)
KnownWrong(k) ==
    \/ k.f = "memmove" /\ k.way = "cxl" /\ k.src < k.dst /\ k.dst < k.src + k.n
    \/ /\ k.f = "memset" /\ k.way = "cxl" /\ k.c \in 128 .. 254
       /\ \E j \in 0 .. k.n - 8 : Fits(k, j, 8)
    \/ k.f = "strcpy" /\ k.way # "real"

(* A memory function does exactly what libc's does: the pieces together    *)
(* copy or fill every byte of the range once and none outside it, except   *)
(* in the cases KnownWrong names, where the result really differs.  And no *)
(* piece spans two 8-byte words, as CXLMC's store lists need: they are     *)
(* kept per word and an access is looked up by the word of its address.    *)
PiecesAddUp ==
    /\ done => ((mem = Libc(call, InitialMem(call))) <=> ~KnownWrong(call))
    /\ piece.size > 0 => /\ (piece.to % 8) + piece.size <= 8
                         /\ call.f \in Copies => (piece.from % 8) + piece.size <= 8
=============================================================================
