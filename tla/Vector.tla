------------------------------- MODULE Vector -------------------------------
(***************************************************************************)
(* Vector of include/vector.h, the growing array the model keeps in shared *)
(* memory.  calloc gives zeroed elements, realloc leaves the new ones      *)
(* undefined, and resize never constructs the elements it adds.            *)
(***************************************************************************)
EXTENDS Integers, Sequences, SequencesExt

CONSTANTS
    VElems,
    VECTOR_DEFCAP,  \* capacity of a default-constructed vector
    MaxVec          \* bound: longest vector

ASSUME VectorAssumption ==
    /\ VECTOR_DEFCAP \in Nat \ {0}
    /\ MaxVec \in Nat

VARIABLES
    v,      \* _size and array (array[0] is element 1; capacity is its length),
            \* and wild: an element was written beyond the capacity
    vSeq    \* history: the sequence the calls so far describe

vecVars == <<v, vSeq>>

Zero  == 0             \* memory from calloc
Undef == 0 - 1         \* memory from realloc, or an element never set

Fresh(size, capacity) == [size |-> size, array |-> [k \in 1 .. capacity |-> Zero],
                          wild |-> FALSE]

Capacity(a) == Len(a.array)

(* Vector() and Vector(size); Vector(0) has no capacity.                   *)
VecInit ==
    \/ v = Fresh(0, VECTOR_DEFCAP) /\ vSeq = <<>>
    \/ \E size \in 0 .. MaxVec : v = Fresh(size, size) /\ vSeq = [k \in 1 .. size |-> Zero]

(* mspace_realloc keeps the old contents.                                  *)
Realloc(a, capacity) ==
    [a EXCEPT !.array = [k \in 1 .. capacity |-> IF k <= Len(@) THEN @[k] ELSE Undef]]

VResize(a, psize) ==
    LET b == IF psize > a.size /\ psize > Capacity(a) THEN Realloc(a, 2 * psize) ELSE a
    IN  [b EXCEPT !.size = psize]

(* set does not test index against the capacity, and push_back writes      *)
(* after doubling it: beyond it still if it was 0.                         *)
Set(a, index, x) ==
    IF index < Capacity(a) THEN [a EXCEPT !.array[index + 1] = x] ELSE [a EXCEPT !.wild = TRUE]

PushItem(a, x) ==
    LET b == IF a.size >= Capacity(a) THEN Realloc(a, 2 * Capacity(a)) ELSE a
    IN  Set([b EXCEPT !.size = @ + 1], a.size, x)

(* From the last element down to the one after index: the one before it.   *)
InsertElem_MutantShiftUp(a, index, x) ==
    LET b == VResize(a, a.size + 1)
        Shift(c, i) == Set(c, i, c.array[i])
    IN  Set(FoldLeft(Shift, b, [j \in 1 .. b.size - 1 - index |-> index + j]), index, x)

InsertElem(a, index, x) ==
    LET b == VResize(a, a.size + 1)
        Shift(c, i) == Set(c, i, c.array[i])
    IN  Set(FoldLeft(Shift, b, [j \in 1 .. b.size - 1 - index |-> b.size - j]), index, x)

RemoveElem(a, index) ==
    LET Shift(c, i) == Set(c, i, c.array[i + 2])
    IN  VResize(FoldLeft(Shift, a, [j \in 1 .. a.size - 1 - index |-> index + j - 1]), a.size - 1)

SetExpand(a, index, x) ==
    Set(IF index >= a.size THEN VResize(a, index + 1) ELSE a, index, x)

(* A calloc of the same capacity and one copy construction per element.    *)
CopyVec(a) ==
    [size |-> a.size,
     array |-> [k \in 1 .. Capacity(a) |-> IF k <= a.size THEN a.array[k] ELSE Zero],
     wild |-> a.wild]

-----------------------------------------------------------------------------
Grown(s, n) == [k \in 1 .. n |-> IF k <= Len(s) THEN s[k] ELSE Undef]

VecPushBack ==
    \E x \in VElems :
        /\ v.size < MaxVec
        /\ v' = PushItem(v, x) /\ vSeq' = Append(vSeq, x)

VecPopBack ==
    /\ v.size > 0
    /\ v' = [v EXCEPT !.size = @ - 1] /\ vSeq' = Front(vSeq)

VecResize ==
    \E n \in 0 .. MaxVec :
        /\ v' = VResize(v, n) /\ vSeq' = Grown(vSeq, n)

VecSet ==
    \E index \in 0 .. v.size - 1, x \in VElems :
        /\ v' = Set(v, index, x) /\ vSeq' = [vSeq EXCEPT ![index + 1] = x]

VecSetExpand ==
    \E index \in 0 .. MaxVec - 1, x \in VElems :
        /\ v' = SetExpand(v, index, x)
        /\ vSeq' = [Grown(vSeq, IF index < Len(vSeq) THEN Len(vSeq) ELSE index + 1)
                      EXCEPT ![index + 1] = x]

VecInsertAt ==
    \E index \in 0 .. v.size, x \in VElems :
        /\ v.size < MaxVec
        /\ v' = InsertElem(v, index, x) /\ vSeq' = InsertAt(vSeq, index + 1, x)

VecRemoveAt ==
    \E index \in 0 .. v.size - 1 :
        /\ v' = RemoveElem(v, index) /\ vSeq' = RemoveAt(vSeq, index + 1)

VecClear ==
    v' = [v EXCEPT !.size = 0] /\ vSeq' = <<>>

(* The copy takes the vector's place (assignment to a vector that is then  *)
(* used, or swapped with this one: swap exchanges the three fields).       *)
VecAssign == v' = CopyVec(v) /\ UNCHANGED vSeq

(* A write beyond the capacity hits memory of others: what the program     *)
(* does from there on is undefined.                                        *)
VecNext ==
    /\ ~v.wild
    /\ \/ VecPushBack \/ VecPopBack  \/ VecResize   \/ VecSet  \/ VecSetExpand
       \/ VecInsertAt \/ VecRemoveAt \/ VecClear    \/ VecAssign

VecSpec == VecInit /\ [][VecNext]_vecVars

-----------------------------------------------------------------------------
(* After any sequence of calls, growths and shifts included, every element *)
(* that was ever set has the value the calls describe and lies within the  *)
(* capacity.  The one call that writes beyond it is the first push_back to *)
(* a vector without capacity, a Vector(0) (or a copy of one) that no       *)
(* resize has grown: twice 0 is 0.                                         *)
VectorIsSequence ==
    IF v.wild THEN Capacity(v) = 0 /\ Len(vSeq) = 1
    ELSE /\ v.size = Len(vSeq) /\ v.size <= Capacity(v)
         /\ \A k \in 1 .. v.size : vSeq[k] # Undef => v.array[k] = vSeq[k]
=============================================================================
