----------------------------- MODULE MC_Library ------------------------------
(* Library pages over two records; every stamp but one is of the first.       *)
EXTENDS Library

CONSTANTS k1, k2, a1, b1

MCHashOf == [l \in Leaf |-> IF l = b1 THEN k2 ELSE k1]

Pending(l, place) ==
    LET c == [leaf |-> l, proof |-> FALSE]
    IN [parsed |-> c, rawText |-> c, pinned |-> place > 0,
        pinnedIndex |-> place]

\* Two records, one of them pinned.
MCVisits == {[k \in Key |-> IF k = k1 THEN Pending(a1, 1) ELSE Pending(b1, 0)]}
=============================================================================
