---------------------------- MODULE MCNodeStack ----------------------------
(***************************************************************************)
(* Every decision tree with at most three decisions on a path, two choices *)
(* each, and every tree of depth two with two or three choices.            *)
(***************************************************************************)
EXTENDS NodeStack

Paths(depth, n) == UNION {[1 .. d -> 0 .. n - 1] : d \in 0 .. depth - 1}

\* Every decision other than the first is reached by a choice of another one.
IsTree(f) ==
    \A p \in DOMAIN f : p # <<>> =>
        LET q == SubSeq(p, 1, Len(p) - 1)
        IN q \in DOMAIN f /\ p[Len(p)] < f[q]

Trees(depth, arities, n) ==
    {f \in UNION {[S -> arities] : S \in SUBSET Paths(depth, n)} : IsTree(f)}

MCPrograms == Trees(3, {2}, 2) \cup Trees(2, {2, 3}, 3)
============================================================================
