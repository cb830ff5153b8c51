------------------------- MODULE MerkleBatch_proofs -------------------------
(***************************************************************************)
(* For batches and claims of every size: what is built is accepted,        *)
(* nothing else is, and the two verifiers compute one root, the one that   *)
(* RFC 6962 defines.                                                       *)
(*                                                                         *)
(* RFC 6962 defines the root from the root down, halving the tree at a     *)
(* power of two; the verifiers climb from the leaf by the bits of its      *)
(* index.  What connects them is RebuildOneUp: the definition may as well  *)
(* be read from the leaf, taking two neighbours for the leaf of a tree of  *)
(* half the size.  The climbs then keep the root that is defined for what  *)
(* is left of the path (ClimbKeepsTheRoot, SigsumKeepsTheRoots); and that  *)
(* a root has no other leaves than its own follows from the definition     *)
(* read from the root, since hashes are equal only if they are built alike *)
(* (PathsLeadToTheRoot, OnlyLeavesLeadToARoot).                            *)
(***************************************************************************)
EXTENDS MerkleBatch, SequenceTheorems, Induction, TLAPS

-----------------------------------------------------------------------------
(***************************************************************************)
(* The loops: a recursive function over 0..n exists, one value at a time.  *)
(***************************************************************************)

\* Each round of the loop that splits a tree comes from the one before.
LEMMA DoublingsUnfold ==
    ASSUME NEW n \in Nat
    PROVE  Doublings(n) = [i \in 0..n |->
               IF i = 0 THEN 1
               ELSE Doubled(Doublings(n)[i - 1], n)]
<1> DEFINE First == 1
           Step(x, i) == Doubled(x, n)
           Body(g, i) == IF i = 0 THEN First ELSE Step(g[i - 1], i)
           Attempt(m) == \E g : g = [i \in 0..m |-> Body(g, i)]
           S == {m \in Nat : Attempt(m)}
<1> HIDE DEF First, Step
<1>1. 0 \in S
  <2> DEFINE h == [i \in 0..0 |-> First]
  <2>1. h = [i \in 0..0 |-> Body(h, i)]
    OBVIOUS
  <2> QED BY <2>1
<1>2. ASSUME NEW m \in Nat, m \in S
      PROVE  m + 1 \in S
  <2>1. PICK g : g = [i \in 0..m |-> Body(g, i)]
    BY <1>2
  <2> DEFINE h == [i \in 0..m + 1 |-> IF i = m + 1 THEN Step(g[m], i) ELSE g[i]]
  <2>2. ASSUME NEW i \in 0..m + 1
        PROVE  h[i] = Body(h, i)
    BY <2>1
  <2>3. h = [i \in 0..m + 1 |-> Body(h, i)]
    <3>1. h = [i \in 0..m + 1 |-> h[i]]
      OBVIOUS
    <3> HIDE DEF h
    <3> QED BY <2>2, <3>1
  <2> HIDE DEF h, Body
  <2> QED BY <2>3
<1>3. Nat \subseteq S
  <2> HIDE DEF S
  <2> QED BY <1>1, <1>2, NatInductionSet
<1>4. Attempt(n)
  BY <1>3
<1> QED BY <1>4 DEF Doublings, First, Step

\* Each level that the inner loop leaves behind comes from the one before.
LEMMA AscentsUnfold ==
    ASSUME NEW fn \in Nat, NEW sn
    PROVE  Ascents(fn, sn) = [i \in 0..fn |->
               IF i = 0 THEN <<fn, sn>>
               ELSE Halved(Ascents(fn, sn)[i - 1])]
<1> DEFINE First == <<fn, sn>>
           Step(x, i) == Halved(x)
           Body(g, i) == IF i = 0 THEN First ELSE Step(g[i - 1], i)
           Attempt(m) == \E g : g = [i \in 0..m |-> Body(g, i)]
           S == {m \in Nat : Attempt(m)}
<1> HIDE DEF First, Step
<1>1. 0 \in S
  <2> DEFINE h == [i \in 0..0 |-> First]
  <2>1. h = [i \in 0..0 |-> Body(h, i)]
    OBVIOUS
  <2> QED BY <2>1
<1>2. ASSUME NEW m \in Nat, m \in S
      PROVE  m + 1 \in S
  <2>1. PICK g : g = [i \in 0..m |-> Body(g, i)]
    BY <1>2
  <2> DEFINE h == [i \in 0..m + 1 |-> IF i = m + 1 THEN Step(g[m], i) ELSE g[i]]
  <2>2. ASSUME NEW i \in 0..m + 1
        PROVE  h[i] = Body(h, i)
    BY <2>1
  <2>3. h = [i \in 0..m + 1 |-> Body(h, i)]
    <3>1. h = [i \in 0..m + 1 |-> h[i]]
      OBVIOUS
    <3> HIDE DEF h
    <3> QED BY <2>2, <3>1
  <2> HIDE DEF h, Body
  <2> QED BY <2>3
<1>3. Nat \subseteq S
  <2> HIDE DEF S
  <2> QED BY <1>1, <1>2, NatInductionSet
<1>4. Attempt(fn)
  BY <1>3
<1> QED BY <1>4 DEF Ascents, First, Step

\* Each hash of the path is taken from where the one before has led.
LEMMA ClimbUnfolds ==
    ASSUME NEW leaf, NEW index, NEW size, NEW path, Len(path) \in Nat
    PROVE  Climb(leaf, index, size, path) = [i \in 0..Len(path) |->
               IF i = 0 THEN [r |-> leaf, fn |-> index, sn |-> size - 1]
               ELSE Take(Climb(leaf, index, size, path)[i - 1], path[i])]
<1> DEFINE First == [r |-> leaf, fn |-> index, sn |-> size - 1]
           Step(x, i) == Take(x, path[i])
           Body(g, i) == IF i = 0 THEN First ELSE Step(g[i - 1], i)
           Attempt(m) == \E g : g = [i \in 0..m |-> Body(g, i)]
           S == {m \in Nat : Attempt(m)}
<1> HIDE DEF First, Step
<1>1. 0 \in S
  <2> DEFINE h == [i \in 0..0 |-> First]
  <2>1. h = [i \in 0..0 |-> Body(h, i)]
    OBVIOUS
  <2> QED BY <2>1
<1>2. ASSUME NEW m \in Nat, m \in S
      PROVE  m + 1 \in S
  <2>1. PICK g : g = [i \in 0..m |-> Body(g, i)]
    BY <1>2
  <2> DEFINE h == [i \in 0..m + 1 |-> IF i = m + 1 THEN Step(g[m], i) ELSE g[i]]
  <2>2. ASSUME NEW i \in 0..m + 1
        PROVE  h[i] = Body(h, i)
    BY <2>1
  <2>3. h = [i \in 0..m + 1 |-> Body(h, i)]
    <3>1. h = [i \in 0..m + 1 |-> h[i]]
      OBVIOUS
    <3> HIDE DEF h
    <3> QED BY <2>2, <3>1
  <2> HIDE DEF h, Body
  <2> QED BY <2>3
<1>3. Nat \subseteq S
  <2> HIDE DEF S
  <2> QED BY <1>1, <1>2, NatInductionSet
<1>4. Attempt(Len(path))
  BY <1>3
<1> QED BY <1>4 DEF Climb, First, Step

\* Each round of sigsum.mjs's loop comes from the one before.
LEMMA SigsumClimbUnfolds ==
    ASSUME NEW leaf, NEW index, NEW size \in Nat, NEW path
    PROVE  SigsumClimb(leaf, index, size, path) = [i \in 0..size |->
               IF i = 0 THEN [r |-> leaf, fn |-> index, sn |-> size - 1, used |-> 0]
               ELSE Level(SigsumClimb(leaf, index, size, path)[i - 1], path)]
<1> DEFINE First == [r |-> leaf, fn |-> index, sn |-> size - 1, used |-> 0]
           Step(x, i) == Level(x, path)
           Body(g, i) == IF i = 0 THEN First ELSE Step(g[i - 1], i)
           Attempt(m) == \E g : g = [i \in 0..m |-> Body(g, i)]
           S == {m \in Nat : Attempt(m)}
<1> HIDE DEF First, Step
<1>1. 0 \in S
  <2> DEFINE h == [i \in 0..0 |-> First]
  <2>1. h = [i \in 0..0 |-> Body(h, i)]
    OBVIOUS
  <2> QED BY <2>1
<1>2. ASSUME NEW m \in Nat, m \in S
      PROVE  m + 1 \in S
  <2>1. PICK g : g = [i \in 0..m |-> Body(g, i)]
    BY <1>2
  <2> DEFINE h == [i \in 0..m + 1 |-> IF i = m + 1 THEN Step(g[m], i) ELSE g[i]]
  <2>2. ASSUME NEW i \in 0..m + 1
        PROVE  h[i] = Body(h, i)
    BY <2>1
  <2>3. h = [i \in 0..m + 1 |-> Body(h, i)]
    <3>1. h = [i \in 0..m + 1 |-> h[i]]
      OBVIOUS
    <3> HIDE DEF h
    <3> QED BY <2>2, <3>1
  <2> HIDE DEF h, Body
  <2> QED BY <2>3
<1>3. Nat \subseteq S
  <2> HIDE DEF S
  <2> QED BY <1>1, <1>2, NatInductionSet
<1>4. Attempt(size)
  BY <1>3
<1> QED BY <1>4 DEF SigsumClimb, First, Step

-----------------------------------------------------------------------------
(***************************************************************************)
(* Where a tree is split.                                                  *)
(***************************************************************************)

\* The loop ends with k < n <= 2k.
LEMMA SplitIsBelow ==
    ASSUME NEW n \in Nat, n >= 2
    PROVE  /\ Split(n) \in 1..n - 1
           /\ n <= 2 * Split(n)
           /\ \A i \in 0..n : Doublings(n)[i] \in 1..n - 1
<1> DEFINE d == Doublings(n)
           Far(i) == /\ d[i] \in 1..n - 1
                     /\ d[i] > i \/ n <= 2 * d[i]
           S == {i \in Nat : i <= n => Far(i)}
<1>1. ASSUME NEW i \in 0..n
      PROVE  d[i] = IF i = 0 THEN 1 ELSE Doubled(d[i - 1], n)
  BY DoublingsUnfold
<1> HIDE DEF d
<1>2. 0 \in S
  BY <1>1
<1>3. ASSUME NEW i \in Nat, i \in S
      PROVE  i + 1 \in S
  <2> SUFFICES ASSUME i + 1 <= n
               PROVE  Far(i + 1)
    OBVIOUS
  <2>1. d[i + 1] = Doubled(d[i], n)
    BY <1>1
  <2> QED BY <2>1, <1>3 DEF Doubled
<1>4. Nat \subseteq S
  <2> HIDE DEF S
  <2> QED BY <1>2, <1>3, NatInductionSet
<1> QED BY <1>4 DEF Split, d

\* One level up, where a level has half as many nodes, rounded up.
LEMMA SplitOneUp ==
    ASSUME NEW n \in Nat, n > 2
    PROVE  Split(n) = 2 * Split((n + 1) \div 2)
<1> DEFINE half == (n + 1) \div 2
           d == Doublings(n)
           e == Doublings(half)
<1>1. half \in Nat /\ half >= 2 /\ half + 1 <= n /\ 2 * half \in n..n + 1
  OBVIOUS
<1>2. ASSUME NEW i \in 0..n
      PROVE  d[i] = IF i = 0 THEN 1 ELSE Doubled(d[i - 1], n)
  BY DoublingsUnfold
<1>3. ASSUME NEW i \in 0..half
      PROVE  e[i] = IF i = 0 THEN 1 ELSE Doubled(e[i - 1], half)
  BY <1>1, DoublingsUnfold
<1>4. /\ \A i \in 0..half : e[i] \in Nat
      /\ half <= 2 * e[half]
  BY <1>1, SplitIsBelow DEF Split
<1> HIDE DEF d, e, half
<1>5. \A i \in 0..half : d[i + 1] = 2 * e[i]
  <2> DEFINE S == {i \in Nat : i <= half => d[i + 1] = 2 * e[i]}
  <2>1. 0 \in S
    <3>1. d[0] = 1 /\ d[1] = Doubled(d[0], n) /\ e[0] = 1
      BY <1>1, <1>2, <1>3
    <3> QED BY <3>1 DEF Doubled
  <2>2. ASSUME NEW i \in Nat, i \in S
        PROVE  i + 1 \in S
    <3> SUFFICES ASSUME i + 1 <= half
                 PROVE  d[i + 2] = 2 * e[i + 1]
      OBVIOUS
    <3>1. d[i + 2] = Doubled(d[i + 1], n) /\ e[i + 1] = Doubled(e[i], half)
      BY <1>1, <1>2, <1>3
    <3>2. e[i] \in Nat /\ d[i + 1] = 2 * e[i]
      BY <1>1, <1>4, <2>2
    <3> QED BY <1>1, <3>1, <3>2 DEF Doubled
  <2>3. Nat \subseteq S
    <3> HIDE DEF S
    <3> QED BY <2>1, <2>2, NatInductionSet
  <2> QED BY <1>1, <2>3
<1>6. \A i \in half + 1..n : d[i] = d[half + 1]
  <2> DEFINE S == {i \in Nat : i \in half + 1..n => d[i] = d[half + 1]}
  <2>1. 0 \in S
    BY <1>1
  <2>2. ASSUME NEW i \in Nat, i \in S
        PROVE  i + 1 \in S
    <3> SUFFICES ASSUME i + 1 \in half + 1..n
                 PROVE  d[i + 1] = d[half + 1]
      OBVIOUS
    <3>1. CASE i + 1 = half + 1
      BY <3>1
    <3>2. CASE i \in half + 1..n
      <4>1. d[i] = d[half + 1] /\ d[half + 1] = 2 * e[half] /\ e[half] \in Nat
        BY <1>1, <1>4, <1>5, <2>2, <3>2
      <4>2. d[i + 1] = Doubled(d[i], n)
        BY <1>1, <1>2, <3>2
      <4> QED BY <1>1, <1>4, <4>1, <4>2 DEF Doubled
    <3> QED BY <1>1, <3>1, <3>2
  <2>3. Nat \subseteq S
    <3> HIDE DEF S
    <3> QED BY <2>1, <2>2, NatInductionSet
  <2> QED BY <1>1, <2>3
<1>7. d[n] = 2 * e[half]
  BY <1>1, <1>5, <1>6
<1> QED BY <1>7 DEF Split, d, e, half

-----------------------------------------------------------------------------
(***************************************************************************)
(* The recursive functions over slices.                                    *)
(***************************************************************************)

\* The three recursive functions over slices have a value for single leaves, and
\* one that is made of those of the two halves.
RootsOf(left, right, n, lh) ==
    [a \in 1..Len(lh) - n + 1 |-> nodeHash(left[a], right[a + Split(n)])]

PathsOf(left, right, n, lh) ==
    [a \in 1..Len(lh) - n + 1 |-> [m \in 0..n - 1 |->
        IF m < Split(n)
        THEN Append(left[a][m], Roots(lh)[n - Split(n)][a + Split(n)])
        ELSE Append(right[a + Split(n)][m - Split(n)], Roots(lh)[Split(n)][a])]]

NoPaths(lh) == [a \in 1..Len(lh) |-> [m \in {0} |-> <<>>]]

PartsOf(left, right, n, below, path) ==
    [m \in 0..n - 1 |-> [j \in below..Len(path) |->
        LET half == IF m < Split(n) THEN left[m][j - 1]
                    ELSE right[m - Split(n)][j - 1]
        IN IF j = below \/ half = null THEN null
           ELSE IF m < Split(n) THEN nodeHash(half, path[j])
           ELSE nodeHash(path[j], half)]]

LeafPart(leaf, below, path) ==
    [m \in {0} |-> [j \in below..Len(path) |-> IF j = below THEN leaf ELSE null]]

\* The roots of the slices of one length are made of shorter ones'.
LEMMA RootsUnfold ==
    ASSUME NEW lh, Len(lh) \in Nat
    PROVE  Roots(lh) = [n \in 1..Len(lh) |->
               IF n = 1 THEN lh
               ELSE RootsOf(Roots(lh)[Split(n)], Roots(lh)[n - Split(n)], n, lh)]
<1> DEFINE First == lh
           Join(l, r, n) == RootsOf(l, r, n, lh)
           Body(g, n) == IF n = 1 THEN First
                         ELSE Join(g[Split(n)], g[n - Split(n)], n)
           Attempt(m) == \E g : g = [n \in 1..m |-> Body(g, n)]
           S == {m \in Nat : Attempt(m)}
<1> HIDE DEF First, Join
<1>1. 0 \in S
  <2> DEFINE h == [n \in 1..0 |-> First]
  <2>1. h = [n \in 1..0 |-> Body(h, n)]
    OBVIOUS
  <2> QED BY <2>1
<1>2. ASSUME NEW m \in Nat, m \in S
      PROVE  m + 1 \in S
  <2>1. PICK g : g = [n \in 1..m |-> Body(g, n)]
    BY <1>2
  <2> DEFINE h == [n \in 1..m + 1 |-> Body(g, n)]
  <2>2. ASSUME NEW n \in 1..m + 1
        PROVE  h[n] = Body(h, n)
    <3>1. \A k \in 1..m : h[k] = g[k]
      <4> HIDE DEF Body
      <4>1. \A k \in 1..m : g[k] = Body(g, k)
        BY <2>1
      <4>2. \A k \in 1..m : h[k] = Body(g, k)
        OBVIOUS
      <4> QED BY <4>1, <4>2
    <3>2. CASE n = 1
      BY <3>2
    <3>3. CASE n # 1
      <4>1. Split(n) \in 1..m /\ n - Split(n) \in 1..m
        BY <3>3, SplitIsBelow
      <4> QED BY <3>1, <3>3, <4>1
    <3> QED BY <3>2, <3>3
  <2>3. h = [n \in 1..m + 1 |-> Body(h, n)]
    <3>1. h = [n \in 1..m + 1 |-> h[n]]
      OBVIOUS
    <3> HIDE DEF h
    <3> QED BY <2>2, <3>1
  <2> HIDE DEF h, Body
  <2> QED BY <2>3
<1>3. Nat \subseteq S
  <2> HIDE DEF S
  <2> QED BY <1>1, <1>2, NatInductionSet
<1>4. Attempt(Len(lh))
  BY <1>3
<1> QED BY <1>4 DEF Roots, RootsOf, First, Join

\* The paths in the slices of one length are made of those in shorter ones.
LEMMA PathsUnfold ==
    ASSUME NEW lh, Len(lh) \in Nat
    PROVE  Paths(lh) = [n \in 1..Len(lh) |->
               IF n = 1 THEN NoPaths(lh)
               ELSE PathsOf(Paths(lh)[Split(n)], Paths(lh)[n - Split(n)], n, lh)]
<1> DEFINE First == NoPaths(lh)
           Join(l, r, n) == PathsOf(l, r, n, lh)
           Body(g, n) == IF n = 1 THEN First
                         ELSE Join(g[Split(n)], g[n - Split(n)], n)
           Attempt(m) == \E g : g = [n \in 1..m |-> Body(g, n)]
           S == {m \in Nat : Attempt(m)}
<1> HIDE DEF First, Join
<1>1. 0 \in S
  <2> DEFINE h == [n \in 1..0 |-> First]
  <2>1. h = [n \in 1..0 |-> Body(h, n)]
    OBVIOUS
  <2> QED BY <2>1
<1>2. ASSUME NEW m \in Nat, m \in S
      PROVE  m + 1 \in S
  <2>1. PICK g : g = [n \in 1..m |-> Body(g, n)]
    BY <1>2
  <2> DEFINE h == [n \in 1..m + 1 |-> Body(g, n)]
  <2>2. ASSUME NEW n \in 1..m + 1
        PROVE  h[n] = Body(h, n)
    <3>1. \A k \in 1..m : h[k] = g[k]
      <4> HIDE DEF Body
      <4>1. \A k \in 1..m : g[k] = Body(g, k)
        BY <2>1
      <4>2. \A k \in 1..m : h[k] = Body(g, k)
        OBVIOUS
      <4> QED BY <4>1, <4>2
    <3>2. CASE n = 1
      BY <3>2
    <3>3. CASE n # 1
      <4>1. Split(n) \in 1..m /\ n - Split(n) \in 1..m
        BY <3>3, SplitIsBelow
      <4> QED BY <3>1, <3>3, <4>1
    <3> QED BY <3>2, <3>3
  <2>3. h = [n \in 1..m + 1 |-> Body(h, n)]
    <3>1. h = [n \in 1..m + 1 |-> h[n]]
      OBVIOUS
    <3> HIDE DEF h
    <3> QED BY <2>2, <3>1
  <2> HIDE DEF h, Body
  <2> QED BY <2>3
<1>3. Nat \subseteq S
  <2> HIDE DEF S
  <2> QED BY <1>1, <1>2, NatInductionSet
<1>4. Attempt(Len(lh))
  BY <1>3
<1> QED BY <1>4 DEF Paths, PathsOf, NoPaths, First, Join

\* The definition's roots for one size are made of those for smaller sizes.
LEMMA RebuildUnfolds ==
    ASSUME NEW leaf, NEW below \in Nat, NEW size \in Nat,
           NEW path, Len(path) \in Nat
    PROVE  Rebuild(leaf, below, size, path) = [n \in 1..size |->
               IF n = 1 THEN LeafPart(leaf, below, path)
               ELSE PartsOf(Rebuild(leaf, below, size, path)[Split(n)],
                            Rebuild(leaf, below, size, path)[n - Split(n)],
                            n, below, path)]
<1> DEFINE First == LeafPart(leaf, below, path)
           Join(l, r, n) == PartsOf(l, r, n, below, path)
           Body(g, n) == IF n = 1 THEN First
                         ELSE Join(g[Split(n)], g[n - Split(n)], n)
           Attempt(m) == \E g : g = [n \in 1..m |-> Body(g, n)]
           S == {m \in Nat : Attempt(m)}
<1> HIDE DEF First, Join
<1>1. 0 \in S
  <2> DEFINE h == [n \in 1..0 |-> First]
  <2>1. h = [n \in 1..0 |-> Body(h, n)]
    OBVIOUS
  <2> QED BY <2>1
<1>2. ASSUME NEW m \in Nat, m \in S
      PROVE  m + 1 \in S
  <2>1. PICK g : g = [n \in 1..m |-> Body(g, n)]
    BY <1>2
  <2> DEFINE h == [n \in 1..m + 1 |-> Body(g, n)]
  <2>2. ASSUME NEW n \in 1..m + 1
        PROVE  h[n] = Body(h, n)
    <3>1. \A k \in 1..m : h[k] = g[k]
      <4> HIDE DEF Body
      <4>1. \A k \in 1..m : g[k] = Body(g, k)
        BY <2>1
      <4>2. \A k \in 1..m : h[k] = Body(g, k)
        OBVIOUS
      <4> QED BY <4>1, <4>2
    <3>2. CASE n = 1
      BY <3>2
    <3>3. CASE n # 1
      <4>1. Split(n) \in 1..m /\ n - Split(n) \in 1..m
        BY <3>3, SplitIsBelow
      <4> QED BY <3>1, <3>3, <4>1
    <3> QED BY <3>2, <3>3
  <2>3. h = [n \in 1..m + 1 |-> Body(h, n)]
    <3>1. h = [n \in 1..m + 1 |-> h[n]]
      OBVIOUS
    <3> HIDE DEF h
    <3> QED BY <2>2, <3>1
  <2> HIDE DEF h, Body
  <2> QED BY <2>3
<1>3. Nat \subseteq S
  <2> HIDE DEF S
  <2> QED BY <1>1, <1>2, NatInductionSet
<1>4. Attempt(size)
  BY <1>3
<1> QED BY <1>4 DEF Rebuild, PartsOf, LeafPart, First, Join

-----------------------------------------------------------------------------
(***************************************************************************)
(* The definition, read one level at a time.                               *)
(***************************************************************************)

\* The root of two halves, the leaf being in the left or in the right one.
InLeft(half, hash) == IF half = null THEN null ELSE nodeHash(half, hash)
InRight(half, hash) == IF half = null THEN null ELSE nodeHash(hash, half)

\* The root that the definition gives for n leaves, from that of a half.
FromRoot(R, leaf, below, path, n, m, j) ==
    IF n = 1 THEN IF j = below THEN leaf ELSE null
    ELSE IF j = below THEN null
    ELSE IF m < Split(n) THEN InLeft(R[Split(n)][m][j - 1], path[j])
    ELSE InRight(R[n - Split(n)][m - Split(n)][j - 1], path[j])

\* The definition, read from the root.
LEMMA RebuildIs ==
    ASSUME NEW leaf, NEW below \in Nat, NEW size \in Nat,
           NEW path, Len(path) \in Nat,
           NEW n \in 1..size, NEW m \in 0..n - 1, NEW j \in below..Len(path)
    PROVE  Rebuild(leaf, below, size, path)[n][m][j] =
               FromRoot(Rebuild(leaf, below, size, path), leaf, below, path, n, m, j)
<1> DEFINE R == Rebuild(leaf, below, size, path)
           l == R[Split(n)]
           r == R[n - Split(n)]
<1>1. R[n] = IF n = 1 THEN LeafPart(leaf, below, path)
             ELSE PartsOf(l, r, n, below, path)
  BY RebuildUnfolds
<1> HIDE DEF R, l, r
<1>2. CASE n = 1
  BY <1>1, <1>2 DEF LeafPart, R, FromRoot
<1>3. CASE n # 1
  <2>1. Split(n) \in Nat
    BY <1>3, SplitIsBelow
  <2>2. R[n][m][j] = IF j = below THEN null
                     ELSE IF m < Split(n) THEN InLeft(l[m][j - 1], path[j])
                     ELSE InRight(r[m - Split(n)][j - 1], path[j])
    BY <1>1, <1>3, <2>1 DEF PartsOf, InLeft, InRight
  <2> QED BY <1>3, <2>2 DEF l, r, R, FromRoot
<1> QED BY <1>2, <1>3

\* What the leaf has become one level up, if it has a sibling there.
Above(leaf, hash, m) == IF m % 2 = 1 THEN nodeHash(hash, leaf)
                        ELSE nodeHash(leaf, hash)

\* The same, from that of the next level up, of half as many nodes.
FromLeaf(leaf, below, size, path, n, m, j) ==
    IF m % 2 = 1 \/ m + 1 < n
    THEN IF j = below THEN null
         ELSE Rebuild(Above(leaf, path[below + 1], m), below + 1, size, path)
                  [(n + 1) \div 2][m \div 2][j]
    ELSE Rebuild(leaf, below, size, path)[(n + 1) \div 2][m \div 2][j]

\* The definition, read from the leaf: a leaf at an odd place, or one that is not
\* the last, has a sibling, and any other is passed on to the next level.
LEMMA RebuildOneUp ==
    ASSUME NEW leaf, leaf # null, NEW below \in Nat, NEW size \in Nat,
           NEW path, Len(path) \in Nat
    PROVE  \A n \in 2..size : \A m \in 0..n - 1 : \A j \in below..Len(path) :
               Rebuild(leaf, below, size, path)[n][m][j] =
                   FromLeaf(leaf, below, size, path, n, m, j)
<1> DEFINE L == Len(path)
           R == Rebuild(leaf, below, size, path)
           Q(m) == Rebuild(Above(leaf, path[below + 1], m), below + 1, size, path)
           Sibling(n, m) == m % 2 = 1 \/ m + 1 < n
           Up(n, m, j) == IF Sibling(n, m)
                          THEN IF j = below THEN null
                               ELSE Q(m)[(n + 1) \div 2][m \div 2][j]
                          ELSE R[(n + 1) \div 2][m \div 2][j]
           S == {n \in Nat : n \in 2..size => \A m \in 0..n - 1 : \A j \in below..L :
                                 R[n][m][j] = Up(n, m, j)}
<1>1. ASSUME NEW n \in 1..size, NEW m \in 0..n - 1, NEW j \in below..L
      PROVE  R[n][m][j] = FromRoot(R, leaf, below, path, n, m, j)
  BY RebuildIs
<1>2. ASSUME NEW o \in Nat, NEW n \in 1..size, NEW m \in 0..n - 1,
             NEW j \in below + 1..L
      PROVE  Q(o)[n][m][j] = FromRoot(Q(o), Above(leaf, path[below + 1], o),
                                      below + 1, path, n, m, j)
  BY RebuildIs
<1>3. ASSUME NEW m \in Nat
      PROVE  Q(m) = Q(m % 2)
  BY DEF Above
<1> HIDE DEF R, Q
<1>4. ASSUME NEW n \in Nat, \A k \in 0..n - 1 : k \in S
      PROVE  n \in S
  <2> SUFFICES ASSUME n \in 2..size, NEW m \in 0..n - 1, NEW j \in below..L
               PROVE  R[n][m][j] = Up(n, m, j)
    OBVIOUS
  <2>0. R[n][m][j] = FromRoot(R, leaf, below, path, n, m, j)
    BY <1>1
  <2>1. CASE n = 2
    <3>1. Split(n) = 1 /\ (n + 1) \div 2 = 1 /\ Sibling(n, m) /\ m \div 2 = 0
      BY <2>1, SplitIsBelow
    <3>2. CASE j = below
      <4>1. R[n][m][j] = null
        BY <2>0, <2>1, <3>2 DEF FromRoot
      <4> QED BY <3>1, <3>2, <4>1
    <3>3. CASE j # below
      <4>1. Up(n, m, j) = IF j = below + 1 THEN Above(leaf, path[below + 1], m)
                          ELSE null
        BY <1>2, <2>1, <3>1, <3>3 DEF FromRoot
      <4>2. R[1][0][j - 1] = IF j = below + 1 THEN leaf ELSE null
        BY <1>1, <3>3 DEF FromRoot
      <4>3. R[n][m][j] = IF m = 0 THEN InLeft(R[1][0][j - 1], path[j])
                         ELSE InRight(R[1][0][j - 1], path[j])
        BY <2>0, <2>1, <3>1, <3>3 DEF FromRoot
      <4> QED BY <2>1, <4>1, <4>2, <4>3 DEF InLeft, InRight, Above, nodeHash, null
    <3> QED BY <3>2, <3>3
  <2>2. CASE n # 2
    <3> DEFINE up == (n + 1) \div 2
               k == Split(n)
               h == Split(up)
    <3>1. /\ up \in 2..n - 1 /\ 2 * up \in n..n + 1
          /\ m \div 2 \in 0..up - 1
      BY <2>2
    <3>2. /\ h \in 1..up - 1 /\ k = 2 * h
          /\ k \in 2..n - 1 /\ (k + 1) \div 2 = h
      <4>1. n \in Nat /\ n > 2 /\ up \in Nat /\ up >= 2
        BY <2>2, <3>1
      <4>2. h \in 1..up - 1 /\ k = 2 * h
        BY <4>1, SplitIsBelow, SplitOneUp
      <4> HIDE DEF up, k, h
      <4> QED BY <3>1, <4>2
    <3>3. m \in Nat /\ (m < k <=> m \div 2 < h)
      <4>1. \A x, y \in Nat : x < 2 * y <=> x \div 2 < y
        OBVIOUS
      <4>2. m \in Nat /\ h \in Nat
        BY <3>1, <3>2
      <4> QED BY <3>2, <4>1, <4>2
    <3> HIDE DEF up, k, h
    <3>4. CASE j = below
      <4>1. R[n][m][j] = null
        BY <2>0, <2>2, <3>4 DEF FromRoot
      <4>2. CASE Sibling(n, m)
        BY <3>4, <4>1, <4>2
      <4>3. CASE ~Sibling(n, m)
        <5>1. R[up][m \div 2][j] = null
          BY <1>1, <3>1, <3>4 DEF FromRoot
        <5> QED BY <4>1, <4>3, <5>1 DEF up
      <4> QED BY <4>2, <4>3
    <3>5. CASE j # below /\ m < k
      <4>1. Sibling(n, m) /\ Sibling(k, m)
        BY <3>2, <3>5
      <4>2. R[n][m][j] = InLeft(R[k][m][j - 1], path[j])
        BY <2>0, <2>2, <3>5 DEF FromRoot, k
      <4>3. R[k][m][j - 1] = IF j = below + 1 THEN null
                             ELSE Q(m)[h][m \div 2][j - 1]
        <5>1. k \in S /\ k \in 2..size /\ m \in 0..k - 1 /\ j - 1 \in below..L
          BY <1>4, <3>2, <3>5
        <5>2. R[k][m][j - 1] = Up(k, m, j - 1)
          BY <5>1
        <5> QED BY <3>2, <3>5, <4>1, <5>2
      <4>4. Q(m)[up][m \div 2][j] =
                IF j = below + 1 THEN null
                ELSE InLeft(Q(m)[h][m \div 2][j - 1], path[j])
        <5>1. up \in 1..size /\ m \div 2 \in 0..up - 1 /\ j \in below + 1..L
          BY <3>1, <3>5
        <5>2. Q(m)[up][m \div 2][j] =
                  FromRoot(Q(m), Above(leaf, path[below + 1], m), below + 1,
                           path, up, m \div 2, j)
          BY <1>2, <3>3, <5>1
        <5> QED BY <3>1, <3>3, <3>5, <5>2 DEF FromRoot, h
      <4>5. Up(n, m, j) = Q(m)[up][m \div 2][j]
        BY <3>5, <4>1 DEF up
      <4> QED BY <4>2, <4>3, <4>4, <4>5 DEF InLeft
    <3>6. CASE j # below /\ m >= k /\ n - k = 1
      <4>1. ~Sibling(n, m) /\ m = k /\ m \div 2 = h /\ up = h + 1
        BY <3>1, <3>2, <3>6 DEF up
      <4>2. R[n][m][j] = InRight(R[1][0][j - 1], path[j])
        BY <2>0, <2>2, <3>2, <3>3, <3>6, <4>1 DEF FromRoot, k
      <4>3. R[up][m \div 2][j] = InRight(R[1][0][j - 1], path[j])
        BY <1>1, <3>1, <3>6, <4>1 DEF FromRoot, h
      <4> QED BY <4>1, <4>2, <4>3 DEF up
    <3>7. CASE j # below /\ m >= k /\ n - k # 1
      <4>1. /\ Sibling(n - k, m - k) <=> Sibling(n, m)
            /\ (n - k + 1) \div 2 = up - h
            /\ (m - k) \div 2 = m \div 2 - h
            /\ (m - k) % 2 = m % 2
        BY <3>1, <3>2, <3>7 DEF up
      <4>2. R[n][m][j] = InRight(R[n - k][m - k][j - 1], path[j])
        BY <2>0, <2>2, <3>2, <3>3, <3>7 DEF FromRoot, k
      <4>3. Q(m - k) = Q(m)
        <5>1. m - k \in Nat /\ m \in Nat
          BY <3>2, <3>7
        <5> QED BY <1>3, <4>1, <5>1
      <4>4. R[n - k][m - k][j - 1] =
                IF Sibling(n, m)
                THEN IF j = below + 1 THEN null
                     ELSE Q(m)[up - h][m \div 2 - h][j - 1]
                ELSE R[up - h][m \div 2 - h][j - 1]
        <5>1. /\ n - k \in S /\ n - k \in 2..size /\ m - k \in 0..n - k - 1
              /\ j - 1 \in below..L
          <6>1. /\ n - k \in 0..n - 1 /\ n - k \in 2..size
                /\ m - k \in 0..n - k - 1 /\ j - 1 \in below..L
            BY <3>2, <3>3, <3>7
          <6> QED BY <1>4, <6>1
        <5>2. R[n - k][m - k][j - 1] = Up(n - k, m - k, j - 1)
          BY <5>1
        <5> QED BY <3>7, <4>1, <4>3, <5>2
      <4>5. CASE Sibling(n, m)
        <5>1. Q(m)[up][m \div 2][j] =
                  IF j = below + 1 THEN null
                  ELSE InRight(Q(m)[up - h][m \div 2 - h][j - 1], path[j])
          <6>1. Q(m)[up][m \div 2][j] =
                    FromRoot(Q(m), Above(leaf, path[below + 1], m), below + 1,
                             path, up, m \div 2, j)
            <7>1. /\ m \in Nat /\ up \in 1..size /\ m \div 2 \in 0..up - 1
                  /\ j \in below + 1..L
              BY <3>1, <3>3, <3>7
            <7> QED BY <1>2, <7>1
          <6>2. below + 1 \in Nat /\ up # 1 /\ (m < k <=> m \div 2 < h) /\ m >= k
            BY <3>1, <3>3, <3>7
          <6> QED BY SMTT(15), <3>2, <3>3, <6>1, <6>2 DEF FromRoot, h
        <5>2. Up(n, m, j) = Q(m)[up][m \div 2][j]
          BY <3>7, <4>5 DEF up
        <5> QED BY <4>2, <4>4, <4>5, <5>1, <5>2 DEF InRight
      <4>6. CASE ~Sibling(n, m)
        <5>1. R[up][m \div 2][j] =
                  InRight(R[up - h][m \div 2 - h][j - 1], path[j])
          <6>1. R[up][m \div 2][j] =
                    FromRoot(R, leaf, below, path, up, m \div 2, j)
            BY <1>1, <3>1, <3>3, <3>7
          <6> QED BY <3>1, <3>2, <3>3, <3>7, <6>1 DEF FromRoot, h
        <5>2. Up(n, m, j) = R[up][m \div 2][j]
          BY <4>6 DEF up
        <5> QED BY <4>2, <4>4, <4>6, <5>1, <5>2
      <4> QED BY <4>5, <4>6
    <3>8. m \in Nat /\ k \in Nat
      BY <3>2
    <3> QED BY <3>4, <3>5, <3>6, <3>7, <3>8
  <2> QED BY <2>1, <2>2
<1>5. Nat \subseteq S
  <2> HIDE DEF S
  <2> QED BY <1>4, StrongInduction
<1>6. ASSUME NEW n \in 2..size, NEW m \in 0..n - 1, NEW j \in below..L
      PROVE  R[n][m][j] = Up(n, m, j)
  <2>1. n \in S
    BY <1>5
  <2> QED BY <2>1
<1> QED BY <1>6 DEF R, Q, FromLeaf

-----------------------------------------------------------------------------
(***************************************************************************)
(* The verifier of merkle.mjs.                                             *)
(***************************************************************************)

\* The last node of a level, having no sibling, is passed on until its place is
\* odd, where it has one.
SkipsTo(leaf, below, size, path, j, f, g) ==
    /\ Ascend(f, f) = <<g, g>>
    /\ g % 2 = 1
    /\ Rebuild(leaf, below, size, path)[f + 1][f][j] =
           Rebuild(leaf, below, size, path)[g + 1][g][j]

\* Ascend stops at that place, and the definition's root is the same from there.
LEMMA AscendSkips ==
    ASSUME NEW leaf, leaf # null, NEW below \in Nat, NEW size \in Nat,
           NEW path, Len(path) \in Nat, NEW j \in below..Len(path),
           NEW f \in Nat, f # 0, f < size
    PROVE  \E g \in 1..f : SkipsTo(leaf, below, size, path, j, f, g)
<1> DEFINE R == Rebuild(leaf, below, size, path)
           s == Ascents(f, f)
           At(i) == \E g \in 1..f :
                        /\ s[i] = <<g, g>>
                        /\ g % 2 = 1 \/ g <= f - i
                        /\ R[f + 1][f][j] = R[g + 1][g][j]
           S == {i \in Nat : i <= f => At(i)}
<1>1. ASSUME NEW i \in 0..f
      PROVE  s[i] = IF i = 0 THEN <<f, f>> ELSE Halved(s[i - 1])
  BY AscentsUnfold
<1>2. ASSUME NEW g \in 1..f, g % 2 = 0
      PROVE  R[g + 1][g][j] = R[g \div 2 + 1][g \div 2][j]
  <2>1. g + 1 \in 2..size /\ g \in 0..g + 1 - 1 /\ ~(g % 2 = 1 \/ g + 1 < g + 1)
    BY <1>2
  <2>2. R[g + 1][g][j] = R[(g + 1 + 1) \div 2][g \div 2][j]
    <3> HIDE DEF R
    <3> DEFINE gg == g + 1
    <3>1. gg \in 2..size /\ g \in 0..gg - 1 /\ ~(g % 2 = 1 \/ g + 1 < gg)
      BY <2>1
    <3> HIDE DEF gg
    <3>2. R[gg][g][j] = FromLeaf(leaf, below, size, path, gg, g, j)
      BY <3>1, RebuildOneUp DEF R
    <3> QED BY <3>1, <3>2 DEF gg, FromLeaf, R
  <2>3. (g + 1 + 1) \div 2 = g \div 2 + 1
    BY <1>2
  <2> HIDE DEF R
  <2> QED BY <2>2, <2>3
<1> HIDE DEF R, s
<1>3. 0 \in S
  BY <1>1
<1>4. ASSUME NEW i \in Nat, i \in S
      PROVE  i + 1 \in S
  <2> SUFFICES ASSUME i + 1 <= f
               PROVE  At(i + 1)
    OBVIOUS
  <2>1. PICK g \in 1..f : /\ s[i] = <<g, g>>
                          /\ g % 2 = 1 \/ g <= f - i
                          /\ R[f + 1][f][j] = R[g + 1][g][j]
    <3>1. i <= f
      BY <1>4
    <3>2. At(i)
      BY <1>4, <3>1
    <3> QED BY <3>2
  <2>2. s[i + 1] = Halved(<<g, g>>)
    <3>1. i + 1 \in 0..f /\ i + 1 # 0 /\ i + 1 - 1 = i
      BY <1>4
    <3>2. s[i + 1] = Halved(s[i + 1 - 1])
      BY <1>1, <3>1
    <3> QED BY <2>1, <3>1, <3>2
  <2>3. CASE g % 2 = 1
    BY <2>1, <2>2, <2>3 DEF Halved
  <2>4. CASE g % 2 = 0
    <3>1. /\ s[i + 1] = <<g \div 2, g \div 2>>
          /\ g \div 2 \in 1..f /\ g \div 2 <= f - (i + 1)
      BY <2>1, <2>2, <2>4 DEF Halved
    <3> QED BY <1>2, <2>1, <2>4, <3>1
  <2> QED BY <2>3, <2>4
<1>5. Nat \subseteq S
  <2> HIDE DEF S
  <2> QED BY <1>3, <1>4, NatInductionSet
<1>6. At(f)
  <2>1. f \in S
    <3> HIDE DEF S
    <3> QED BY <1>5
  <2>2. f <= f
    OBVIOUS
  <2> HIDE DEF At
  <2> QED BY <2>1, <2>2
<1>7. PICK g \in 1..f : /\ s[f] = <<g, g>>
                        /\ g % 2 = 1 \/ g <= f - f
                        /\ R[f + 1][f][j] = R[g + 1][g][j]
  BY <1>6
<1> QED BY <1>7 DEF SkipsTo, Ascend, R, s

\* The climb keeps the root that the definition gives: after i hashes it is that
\* of the node reached, at its place in its level and with the hashes left over.
LEMMA ClimbKeepsTheRoot ==
    ASSUME NEW leaf, leaf # null, NEW size \in Nat, NEW index \in 0..size - 1,
           NEW path, Len(path) \in Nat
    PROVE  \A i \in 0..Len(path) :
               LET s == Climb(leaf, index, size, path)[i]
                   root == Rebuild(leaf, 0, size, path)[size][index][Len(path)]
               IN \/ s.r = null /\ s.sn = 0 /\ root = null
                  \/ /\ s.r # null
                     /\ s.sn \in 0..size - 1 /\ s.fn \in 0..s.sn
                     /\ root = Rebuild(s.r, i, size, path)
                                   [s.sn + 1][s.fn][Len(path)]
<1> DEFINE L == Len(path)
           C == Climb(leaf, index, size, path)
           root == Rebuild(leaf, 0, size, path)[size][index][L]
           Refused(s) == s.r = null /\ s.sn = 0 /\ root = null
           Kept(s, i) == /\ s.r # null
                         /\ s.sn \in 0..size - 1 /\ s.fn \in 0..s.sn
                         /\ root = Rebuild(s.r, i, size, path)[s.sn + 1][s.fn][L]
           Good(s, i) == Refused(s) \/ Kept(s, i)
           S == {i \in Nat : i <= L => Good(C[i], i)}
<1>1. ASSUME NEW i \in 0..L
      PROVE  C[i] = IF i = 0 THEN [r |-> leaf, fn |-> index, sn |-> size - 1]
                    ELSE Take(C[i - 1], path[i])
  BY ClimbUnfolds
<1> HIDE DEF C
<1>2. 0 \in S
  <2>1. C[0] = [r |-> leaf, fn |-> index, sn |-> size - 1]
    BY <1>1
  <2>2. size - 1 + 1 = size
    OBVIOUS
  <2>3. Kept(C[0], 0)
    BY <2>1, <2>2
  <2> QED BY <2>3
<1>3. ASSUME NEW r, r # null, NEW i \in 0..L - 1, NEW sn \in 1..size - 1,
             NEW fn \in 0..sn, fn % 2 = 1 \/ fn < sn
      PROVE  Rebuild(r, i, size, path)[sn + 1][fn][L] =
                 Rebuild(Above(r, path[i + 1], fn), i + 1, size, path)
                     [sn \div 2 + 1][fn \div 2][L]
  <2> DEFINE n == sn + 1
  <2>1. n \in 2..size /\ fn \in 0..n - 1 /\ (fn % 2 = 1 \/ fn + 1 < n)
        /\ L \in i..Len(path) /\ L # i /\ i \in Nat
    BY <1>3
  <2>2. (n + 1) \div 2 = sn \div 2 + 1
    OBVIOUS
  <2> HIDE DEF n
  <2>3. Rebuild(r, i, size, path)[n][fn][L] =
            FromLeaf(r, i, size, path, n, fn, L)
    BY <1>3, <2>1, RebuildOneUp
  <2> QED BY <2>1, <2>2, <2>3 DEF n, FromLeaf
<1>4. ASSUME NEW i \in 0..L - 1, NEW s, Kept(s, i)
      PROVE  Good(Take(s, path[i + 1]), i + 1)
  <2> DEFINE t == Take(s, path[i + 1])
             hash == path[i + 1]
  <2>1. ASSUME NEW fn \in Nat, NEW sn \in 1..size - 1, fn \in 0..sn,
               fn % 2 = 1 \/ fn < sn,
               root = Rebuild(s.r, i, size, path)[sn + 1][fn][L],
               t = [r |-> Above(s.r, hash, fn),
                    fn |-> fn \div 2, sn |-> sn \div 2]
        PROVE  Kept(t, i + 1)
    <3>1. root = Rebuild(Above(s.r, hash, fn), i + 1, size, path)
                     [sn \div 2 + 1][fn \div 2][L]
      BY <1>3, <1>4, <2>1
    <3>2. Above(s.r, hash, fn) # null
      BY DEF Above, nodeHash, null
    <3>3. sn \div 2 \in 0..size - 1 /\ fn \div 2 \in 0..sn \div 2
      BY SMTT(15), <2>1
    <3> HIDE DEF root, t
    <3> QED BY <2>1, <3>1, <3>2, <3>3
  <2>2. CASE s.sn = 0
    <3>1. Rebuild(s.r, i, size, path)[1][0][L] = null
      <4>1. i \in Nat /\ 1 \in 1..size /\ 0 \in 0..1 - 1 /\ L \in i..Len(path)
        OBVIOUS
      <4>2. Rebuild(s.r, i, size, path)[1][0][L] =
                FromRoot(Rebuild(s.r, i, size, path), s.r, i, path, 1, 0, L)
        BY <4>1, RebuildIs
      <4> QED BY <4>2 DEF FromRoot
    <3>2. s.fn = 0
      BY <1>4, <2>2
    <3>3. root = null
      BY <1>4, <2>2, <3>1, <3>2
    <3> HIDE DEF root
    <3> QED BY <2>2, <3>3 DEF Take
  <2>3. CASE s.sn # 0 /\ (s.fn % 2 = 1 \/ s.fn # s.sn)
    <3>1. s.fn % 2 = 1 \/ s.fn < s.sn
      BY <1>4, <2>3
    <3>2. s.fn \in Nat /\ s.sn \in 1..size - 1 /\ s.fn % 2 \in {0, 1}
      BY <1>4, <2>3
    <3>3. t = [r |-> Above(s.r, hash, s.fn),
               fn |-> s.fn \div 2, sn |-> s.sn \div 2]
      <4>1. s.r # null /\ s.fn % 2 \in {0, 1}
        BY <1>4, <3>2
      <4> QED BY <2>3, <4>1 DEF Take, Above
    <3> HIDE DEF t, root
    <3>6. Kept(t, i + 1)
      BY <1>4, <2>1, <3>1, <3>2, <3>3
    <3> HIDE DEF Kept
    <3> QED BY <3>6 DEF t
  <2>4. CASE s.sn # 0 /\ s.fn % 2 = 0 /\ s.fn = s.sn
    <3>1. /\ s.fn \in Nat /\ s.fn # 0 /\ s.fn < size
          /\ s.r # null /\ i \in Nat /\ L \in i..Len(path)
      BY <1>4, <2>4
    <3>2. PICK g \in 1..s.fn :
              /\ Ascend(s.fn, s.fn) = <<g, g>>
              /\ g % 2 = 1
              /\ Rebuild(s.r, i, size, path)[s.fn + 1][s.fn][L] =
                     Rebuild(s.r, i, size, path)[g + 1][g][L]
      <4>1. PICK g \in 1..s.fn : SkipsTo(s.r, i, size, path, L, s.fn, g)
        BY <3>1, AscendSkips
      <4> QED BY <4>1 DEF SkipsTo
    <3>3. g \in Nat /\ g \in 1..size - 1 /\ g \in 0..g
      BY <3>1, <3>2
    <3>4. root = Rebuild(s.r, i, size, path)[g + 1][g][L]
      BY <1>4, <2>4, <3>2
    <3>5. t = [r |-> Above(s.r, hash, g), fn |-> g \div 2, sn |-> g \div 2]
      BY <2>4, <3>1, <3>2 DEF Take, Above
    <3> HIDE DEF t, root
    <3>6. Kept(t, i + 1)
      BY <2>1, <3>2, <3>3, <3>4, <3>5
    <3> HIDE DEF Kept
    <3> QED BY <3>6 DEF t
  <2>5. s.fn % 2 \in {0, 1}
    BY <1>4
  <2> QED BY <2>2, <2>3, <2>4, <2>5
<1>5. ASSUME NEW i \in Nat, i \in S
      PROVE  i + 1 \in S
  <2> SUFFICES ASSUME i + 1 <= L
               PROVE  Good(C[i + 1], i + 1)
    OBVIOUS
  <2>1. C[i + 1] = Take(C[i], path[i + 1]) /\ i \in 0..L - 1
    BY <1>1
  <2>2. CASE Refused(C[i])
    <3> HIDE DEF root
    <3>1. Refused(Take(C[i], path[i + 1]))
      BY <2>2 DEF Take
    <3> QED BY <2>1, <3>1
  <2>3. CASE Kept(C[i], i)
    <3> HIDE DEF Good, Kept
    <3> QED BY <1>4, <2>1, <2>3
  <2>4. Good(C[i], i)
    <3> HIDE DEF Good
    <3> QED BY <1>5, <2>1
  <2> QED BY <2>2, <2>3, <2>4
<1>6. Nat \subseteq S
  <2> HIDE DEF S
  <2> QED BY <1>2, <1>5, NatInductionSet
<1>7. ASSUME NEW i \in 0..L
      PROVE  Good(C[i], i)
  <2>1. i \in S
    <3> HIDE DEF S
    <3> QED BY <1>6
  <2> HIDE DEF Good
  <2> QED BY <2>1
<1> QED BY <1>7 DEF C

\* What rootFromInclusion returns is what the definition gives.
THEOREM ClimbFindsTheRoot ==
    ASSUME NEW leaf, leaf # null, NEW size \in Nat, NEW index \in 0..size - 1,
           NEW path, Len(path) \in Nat
    PROVE  rootFromInclusion(leaf, index, size, path) =
               definedRoot(leaf, index, size, path)
<1> DEFINE L == Len(path)
           end == Climb(leaf, index, size, path)[L]
           root == Rebuild(leaf, 0, size, path)[size][index][L]
<1>1. \/ end.r = null /\ end.sn = 0 /\ root = null
      \/ /\ end.r # null
         /\ end.sn \in 0..size - 1 /\ end.fn \in 0..end.sn
         /\ root = Rebuild(end.r, L, size, path)[end.sn + 1][end.fn][L]
  BY ClimbKeepsTheRoot
<1>2. rootFromInclusion(leaf, index, size, path) =
          IF end.sn # 0 THEN null ELSE end.r
  BY DEF rootFromInclusion
<1>3. definedRoot(leaf, index, size, path) = root
  BY DEF definedRoot
<1> HIDE DEF end, root
<1>4. ASSUME end.sn \in 0..size - 1, end.fn \in 0..end.sn
      PROVE  Rebuild(end.r, L, size, path)[end.sn + 1][end.fn][L] =
                 IF end.sn = 0 THEN end.r ELSE null
  <2> DEFINE n == end.sn + 1
  <2>1. /\ n \in 1..size /\ end.fn \in 0..n - 1 /\ L \in L..Len(path)
        /\ n = 1 <=> end.sn = 0
    BY <1>4
  <2> HIDE DEF n
  <2>2. Rebuild(end.r, L, size, path)[n][end.fn][L] =
            FromRoot(Rebuild(end.r, L, size, path), end.r, L, path, n, end.fn, L)
    BY <2>1, RebuildIs
  <2> QED BY <2>1, <2>2 DEF FromRoot, n
<1> QED BY <1>1, <1>2, <1>3, <1>4

-----------------------------------------------------------------------------
(***************************************************************************)
(* The builder.                                                            *)
(***************************************************************************)

\* The root of a slice, from those of its halves.
LEMMA RootsAre ==
    ASSUME NEW lh, Len(lh) \in Nat,
           NEW n \in 1..Len(lh), NEW a \in 1..Len(lh) - n + 1
    PROVE  /\ n = 1 => Roots(lh)[n][a] = lh[a]
           /\ n # 1 => Roots(lh)[n][a] =
                  nodeHash(Roots(lh)[Split(n)][a],
                           Roots(lh)[n - Split(n)][a + Split(n)])
<1>1. Roots(lh)[n] = IF n = 1 THEN lh
                     ELSE RootsOf(Roots(lh)[Split(n)], Roots(lh)[n - Split(n)], n, lh)
  BY RootsUnfold
<1>2. CASE n = 1
  BY <1>1, <1>2
<1>3. CASE n # 1
  <2> DEFINE l == Roots(lh)[Split(n)]
             r == Roots(lh)[n - Split(n)]
  <2>1. Roots(lh)[n] = RootsOf(l, r, n, lh)
    BY <1>1, <1>3
  <2> HIDE DEF l, r
  <2>2. Roots(lh)[n][a] = nodeHash(l[a], r[a + Split(n)])
    BY <2>1 DEF RootsOf
  <2> QED BY <1>3, <2>2 DEF l, r
<1> QED BY <1>2, <1>3

\* The path in a slice, from that in the half where the leaf is.
PathFromRoot(P, lh, n, a, m) ==
    IF n = 1 THEN <<>>
    ELSE IF m < Split(n)
    THEN Append(P[Split(n)][a][m], Roots(lh)[n - Split(n)][a + Split(n)])
    ELSE Append(P[n - Split(n)][a + Split(n)][m - Split(n)], Roots(lh)[Split(n)][a])

\* The audit path of every leaf of every slice is that one.
LEMMA PathsAre ==
    ASSUME NEW lh, Len(lh) \in Nat, NEW n \in 1..Len(lh),
           NEW a \in 1..Len(lh) - n + 1, NEW m \in 0..n - 1
    PROVE  Paths(lh)[n][a][m] = PathFromRoot(Paths(lh), lh, n, a, m)
<1> DEFINE P == Paths(lh)
           l == P[Split(n)]
           r == P[n - Split(n)]
<1>1. P[n] = IF n = 1 THEN NoPaths(lh) ELSE PathsOf(l, r, n, lh)
  BY PathsUnfold
<1> HIDE DEF P, l, r
<1>2. CASE n = 1
  BY <1>1, <1>2 DEF NoPaths, P, PathFromRoot
<1>3. CASE n # 1
  <2>1. P[n][a][m] =
            IF m < Split(n)
            THEN Append(l[a][m], Roots(lh)[n - Split(n)][a + Split(n)])
            ELSE Append(r[a + Split(n)][m - Split(n)], Roots(lh)[Split(n)][a])
    BY <1>1, <1>3 DEF PathsOf
  <2> QED BY <1>3, <2>1 DEF l, r, P, PathFromRoot
<1> QED BY <1>2, <1>3

\* The slices that a slice of more than one leaf is made of.
LEMMA HalvesAreSlices ==
    ASSUME NEW L \in Nat, NEW n \in 2..L, NEW a \in 1..L - n + 1
    PROVE  /\ Split(n) \in 1..n - 1 /\ Split(n) \in 1..L
           /\ a \in 1..L - Split(n) + 1
           /\ n - Split(n) \in 1..n - 1 /\ n - Split(n) \in 1..L
           /\ a + Split(n) \in 1..L - (n - Split(n)) + 1
<1>1. Split(n) \in 1..n - 1
  BY SplitIsBelow
<1> QED BY <1>1

\* The roots of all slices.
Nodes(lh) == UNION {{Roots(lh)[n][a] : a \in 1..Len(lh) - n + 1} : n \in 1..Len(lh)}

\* An audit path is a sequence of nodes of the tree.
LEMMA PathsAreSequences ==
    ASSUME NEW lh, Len(lh) \in Nat
    PROVE  \A n \in 1..Len(lh) : \A a \in 1..Len(lh) - n + 1 : \A m \in 0..n - 1 :
               Paths(lh)[n][a][m] \in Seq(Nodes(lh))
<1> DEFINE L == Len(lh)
           P == Paths(lh)
           N == Nodes(lh)
           S == {n \in Nat : n \in 1..L => \A a \in 1..L - n + 1 : \A m \in 0..n - 1 :
                                P[n][a][m] \in Seq(N)}
<1>1. ASSUME NEW n \in Nat, \A k \in 0..n - 1 : k \in S
      PROVE  n \in S
  <2> SUFFICES ASSUME n \in 1..L, NEW a \in 1..L - n + 1, NEW m \in 0..n - 1
               PROVE  P[n][a][m] \in Seq(N)
    OBVIOUS
  <2>1. P[n][a][m] = PathFromRoot(P, lh, n, a, m)
    BY PathsAre
  <2>2. CASE n = 1
    BY <2>1, <2>2 DEF PathFromRoot
  <2>3. CASE n # 1
    <3> DEFINE k == Split(n)
    <3>1. /\ k \in 1..n - 1 /\ k \in 1..L /\ a \in 1..L - k + 1
          /\ n - k \in 1..n - 1 /\ n - k \in 1..L
          /\ a + k \in 1..L - (n - k) + 1
      <4>1. L \in Nat /\ n \in 2..L
        BY <2>3
      <4> HIDE DEF k
      <4> QED BY <4>1, HalvesAreSlices DEF k
    <3> HIDE DEF k, P
    <3>2. Roots(lh)[k][a] \in N /\ Roots(lh)[n - k][a + k] \in N
      <4>1. \A l \in 1..L : \A b \in 1..L - l + 1 : Roots(lh)[l][b] \in N
        BY DEF Nodes
      <4> HIDE DEF N
      <4> QED BY <3>1, <4>1
    <3> HIDE DEF N
    <3>3. CASE m < k
      <4>1. P[k][a][m] \in Seq(N)
        BY <1>1, <3>1, <3>3
      <4>2. P[n][a][m] = Append(P[k][a][m], Roots(lh)[n - k][a + k])
        BY <2>1, <2>3, <3>3 DEF PathFromRoot, k
      <4> QED BY <3>2, <4>1, <4>2
    <3>4. CASE ~(m < k)
      <4>1. m - k \in 0..n - k - 1
        BY <3>1, <3>4
      <4>2. P[n - k][a + k][m - k] \in Seq(N)
        BY <1>1, <3>1, <4>1
      <4>3. P[n][a][m] = Append(P[n - k][a + k][m - k], Roots(lh)[k][a])
        BY <2>1, <2>3, <3>4 DEF PathFromRoot, k
      <4> QED BY <3>2, <4>2, <4>3
    <3> QED BY <3>3, <3>4
  <2> QED BY <2>2, <2>3
<1>2. Nat \subseteq S
  <2> HIDE DEF S
  <2> QED BY <1>1, StrongInduction
<1> QED BY <1>2

\* Every root of a slice of leaf hashes is a hash.
LEMMA RootsAreHashes ==
    ASSUME NEW lh, Len(lh) \in Nat, NEW none \in {null, throws},
           \A i \in 1..Len(lh) : lh[i] # none
    PROVE  \A n \in 1..Len(lh) : \A a \in 1..Len(lh) - n + 1 :
               Roots(lh)[n][a] # none
<1> SUFFICES ASSUME NEW n \in 1..Len(lh), NEW a \in 1..Len(lh) - n + 1
             PROVE  Roots(lh)[n][a] # none
  OBVIOUS
<1>1. CASE n = 1
  BY <1>1, RootsAre
<1>2. CASE n # 1
  <2>1. Roots(lh)[n][a] = nodeHash(Roots(lh)[Split(n)][a],
                                   Roots(lh)[n - Split(n)][a + Split(n)])
    BY <1>2, RootsAre
  <2> QED BY <2>1 DEF nodeHash, null, throws
<1> QED BY <1>1, <1>2

\* Whether the first hashes of a path are those of another.
Begins(path, p) == Len(p) <= Len(path) /\ \A x \in 1..Len(p) : path[x] = p[x]

\* The root that the definition gives for a leaf and its audit path is the slice's.
LeadsToTheRoot(lh, leaf, path, n, a, m) ==
    lh[a + m] = leaf /\ Begins(path, Paths(lh)[n][a][m]) =>
        Rebuild(leaf, 0, Len(lh), path)[n][m][Len(Paths(lh)[n][a][m])] =
            Roots(lh)[n][a]

\* By the definition, the audit path of a leaf leads from it to the root.
LEMMA PathsLeadToTheRoot ==
    ASSUME NEW lh, Len(lh) \in Nat, \A i \in 1..Len(lh) : lh[i] # null,
           NEW leaf, NEW path, Len(path) \in Nat
    PROVE  \A n \in 1..Len(lh) : \A a \in 1..Len(lh) - n + 1 : \A m \in 0..n - 1 :
               LeadsToTheRoot(lh, leaf, path, n, a, m)
<1> DEFINE L == Len(lh)
           P == Paths(lh)
           R == Rebuild(leaf, 0, L, path)
           T == Roots(lh)
           Leads(n, a, m) == lh[a + m] = leaf /\ Begins(path, P[n][a][m]) =>
                                 R[n][m][Len(P[n][a][m])] = T[n][a]
           S == {n \in Nat : n \in 1..L => \A a \in 1..L - n + 1 : \A m \in 0..n - 1 :
                                Leads(n, a, m)}
<1>1. ASSUME NEW n \in 1..L, NEW a \in 1..L - n + 1, NEW m \in 0..n - 1
      PROVE  /\ P[n][a][m] = PathFromRoot(P, lh, n, a, m)
             /\ P[n][a][m] \in Seq(Nodes(lh))
  BY PathsAre, PathsAreSequences
<1>2. ASSUME NEW n \in 1..L, NEW m \in 0..n - 1, NEW j \in 0..Len(path)
      PROVE  R[n][m][j] = FromRoot(R, leaf, 0, path, n, m, j)
  <2>1. 0 \in Nat
    OBVIOUS
  <2> QED BY <2>1, RebuildIs
<1>3. ASSUME NEW n \in 1..L, NEW a \in 1..L - n + 1
      PROVE  /\ T[n][a] # null
             /\ n = 1 => T[n][a] = lh[a]
             /\ n # 1 => T[n][a] = nodeHash(T[Split(n)][a],
                                            T[n - Split(n)][a + Split(n)])
  BY RootsAre, RootsAreHashes
<1> HIDE DEF P, R, T
<1>4. ASSUME NEW n \in Nat, \A k \in 0..n - 1 : k \in S
      PROVE  n \in S
  <2> SUFFICES ASSUME n \in 1..L, NEW a \in 1..L - n + 1, NEW m \in 0..n - 1,
                      lh[a + m] = leaf, Begins(path, P[n][a][m])
               PROVE  R[n][m][Len(P[n][a][m])] = T[n][a]
    OBVIOUS
  <2> DEFINE j == Len(P[n][a][m])
  <2>1. P[n][a][m] = PathFromRoot(P, lh, n, a, m)
    BY <1>1
  <2>2. j \in 0..Len(path)
    <3>1. P[n][a][m] \in Seq(Nodes(lh))
      BY <1>1
    <3>2. j \in Nat
      BY <3>1
    <3> QED BY <3>2 DEF Begins
  <2>3. R[n][m][j] = FromRoot(R, leaf, 0, path, n, m, j)
    BY <1>2, <2>2
  <2>4. CASE n = 1
    <3>1. m = 0 /\ a + m = a
      BY <2>4
    <3>2. P[n][a][m] = <<>>
      BY <2>1, <2>4 DEF PathFromRoot
    <3>3. j = 0
      BY <3>2
    <3>4. T[n][a] = lh[a]
      BY <1>3, <2>4
    <3> QED BY <2>3, <2>4, <3>1, <3>3, <3>4 DEF FromRoot
  <2>5. CASE n # 1
    <3> DEFINE k == Split(n)
    <3>1. /\ k \in 1..n - 1 /\ k \in 1..L /\ a \in 1..L - k + 1
          /\ n - k \in 1..n - 1 /\ n - k \in 1..L
          /\ a + k \in 1..L - (n - k) + 1
      <4>1. L \in Nat /\ n \in 2..L
        BY <2>5
      <4> HIDE DEF k
      <4> QED BY <4>1, HalvesAreSlices DEF k
    <3>2. T[n][a] = nodeHash(T[k][a], T[n - k][a + k])
      BY <1>3, <2>5
    <3>3. T[k][a] # null /\ T[n - k][a + k] # null
      BY <1>3, <3>1
    <3> HIDE DEF k
    <3>4. ASSUME NEW p \in Seq(Nodes(lh)), NEW e, P[n][a][m] = Append(p, e)
          PROVE  /\ Len(p) = j - 1 /\ j # 0
                 /\ path[j] = e
                 /\ Begins(path, p)
      <4>1. Len(P[n][a][m]) = Len(p) + 1 /\ Len(p) \in Nat
        BY <3>4
      <4>2. P[n][a][m][Len(p) + 1] = e /\ \A x \in 1..Len(p) : P[n][a][m][x] = p[x]
        BY <3>4
      <4>3. j <= Len(path) /\ \A x \in 1..j : path[x] = P[n][a][m][x]
        BY DEF Begins
      <4> HIDE DEF j
      <4>4. j = Len(p) + 1
        BY <4>1 DEF j
      <4> QED BY SMTT(15), <4>1, <4>2, <4>3, <4>4 DEF Begins
    <3>5. CASE m < k
      <4> DEFINE p == P[k][a][m]
      <4>1. k \in S /\ m \in 0..k - 1 /\ p \in Seq(Nodes(lh))
        <5>1. m \in 0..k - 1 /\ k \in 0..n - 1
          BY <3>1, <3>5
        <5> QED BY <1>1, <1>4, <3>1, <5>1
      <4>2. P[n][a][m] = Append(p, T[n - k][a + k])
        BY <2>1, <2>5, <3>5 DEF PathFromRoot, k, T
      <4>3. Len(p) = j - 1 /\ j # 0 /\ path[j] = T[n - k][a + k] /\ Begins(path, p)
        BY <3>4, <4>1, <4>2
      <4>4. R[k][m][j - 1] = T[k][a]
        BY <3>1, <4>1, <4>3
      <4>5. R[n][m][j] = InLeft(R[k][m][j - 1], path[j])
        BY <2>3, <2>5, <3>5, <4>3 DEF FromRoot, k
      <4> HIDE DEF p, j
      <4> QED BY <3>2, <3>3, <4>3, <4>4, <4>5 DEF InLeft, j
    <3>6. CASE ~(m < k)
      <4> DEFINE p == P[n - k][a + k][m - k]
      <4>1. /\ n - k \in 0..n - 1 /\ m - k \in 0..n - k - 1
            /\ a + k + (m - k) = a + m
        BY <3>1, <3>6
      <4>2. n - k \in S /\ p \in Seq(Nodes(lh))
        BY <1>1, <1>4, <3>1, <4>1
      <4>3. P[n][a][m] = Append(p, T[k][a])
        BY <2>1, <2>5, <3>6 DEF PathFromRoot, k, T
      <4>4. Len(p) = j - 1 /\ j # 0 /\ path[j] = T[k][a] /\ Begins(path, p)
        BY <3>4, <4>2, <4>3
      <4>5. R[n - k][m - k][j - 1] = T[n - k][a + k]
        BY <3>1, <4>1, <4>2, <4>4
      <4>6. R[n][m][j] = InRight(R[n - k][m - k][j - 1], path[j])
        BY <2>3, <2>5, <3>6, <4>4 DEF FromRoot, k
      <4> HIDE DEF p, j
      <4> QED BY <3>2, <3>3, <4>4, <4>5, <4>6 DEF InRight, j
    <3> QED BY <3>5, <3>6
  <2> QED BY <2>4, <2>5
<1>5. Nat \subseteq S
  <2> HIDE DEF S
  <2> QED BY <1>4, StrongInduction
<1>6. ASSUME NEW n \in 1..L, NEW a \in 1..L - n + 1, NEW m \in 0..n - 1
      PROVE  Leads(n, a, m)
  <2>1. n \in S
    <3> HIDE DEF S
    <3> QED BY <1>5
  <2> HIDE DEF Leads
  <2> QED BY <2>1
<1> QED BY <1>6 DEF P, R, T, LeadsToTheRoot

\* What leads to the root of a slice is one of the leaf hashes, and with the
\* slice's size the one at its place, by its audit path.
IsOfTheTree(lh, leaf, path, s, m, j, n, a) ==
    /\ \E i \in 1..Len(lh) : leaf = lh[i]
    /\ s = n => /\ leaf = lh[a + m]
                /\ j = Len(Paths(lh)[n][a][m])
                /\ Begins(path, Paths(lh)[n][a][m])

\* By the definition, only the leaf hashes of the tree lead to the root of one of
\* its slices, and with the slice's own size only the one that is at the place,
\* by its audit path: whatever else leads there would be another hash.
LEMMA OnlyLeavesLeadToARoot ==
    ASSUME NEW lh, Len(lh) \in Nat,
           \A i \in 1..Len(lh) : \E d : lh[i] = leafHash(d),
           NEW y, NEW size \in Nat, NEW path, Len(path) \in Nat
    PROVE  \A s \in 1..size : \A m \in 0..s - 1 : \A j \in 0..Len(path) :
           \A n \in 1..Len(lh) : \A a \in 1..Len(lh) - n + 1 :
               Rebuild(leafHash(y), 0, size, path)[s][m][j] = Roots(lh)[n][a] =>
                   IsOfTheTree(lh, leafHash(y), path, s, m, j, n, a)
<1> DEFINE L == Len(lh)
           P == Paths(lh)
           leaf == leafHash(y)
           R == Rebuild(leaf, 0, size, path)
           T == Roots(lh)
           Opened(s, m, j, n, a) ==
               /\ \E i \in 1..L : leaf = lh[i]
               /\ s = n => /\ leaf = lh[a + m]
                           /\ j = Len(P[n][a][m])
                           /\ Begins(path, P[n][a][m])
           Opens(s) == \A m \in 0..s - 1 : \A j \in 0..Len(path) :
                       \A n \in 1..L : \A a \in 1..L - n + 1 :
                           R[s][m][j] = T[n][a] => Opened(s, m, j, n, a)
           S == {s \in Nat : s \in 1..size => Opens(s)}
<1>1. ASSUME NEW n \in 1..L, NEW a \in 1..L - n + 1, NEW m \in 0..n - 1
      PROVE  /\ P[n][a][m] = PathFromRoot(P, lh, n, a, m)
             /\ P[n][a][m] \in Seq(Nodes(lh))
  BY PathsAre, PathsAreSequences
<1>2. ASSUME NEW n \in 1..size, NEW m \in 0..n - 1, NEW j \in 0..Len(path)
      PROVE  R[n][m][j] = FromRoot(R, leaf, 0, path, n, m, j)
  <2>1. 0 \in Nat
    OBVIOUS
  <2> QED BY <2>1, RebuildIs
<1>3. ASSUME NEW n \in 1..L, NEW a \in 1..L - n + 1
      PROVE  /\ n = 1 => T[n][a] = lh[a]
             /\ n # 1 => T[n][a] = nodeHash(T[Split(n)][a],
                                            T[n - Split(n)][a + Split(n)])
  BY RootsAre
<1>4. ASSUME NEW n \in 1..L, NEW a \in 1..L - n + 1
      PROVE  T[n][a] # null
  <2>1. \A i \in 1..L : lh[i] # null
    BY DEF leafHash, null
  <2> QED BY <2>1, RootsAreHashes
<1>5. ASSUME NEW n \in 1..L, NEW a \in 1..L - n + 1,
             NEW l, NEW r, T[n][a] = nodeHash(l, r)
      PROVE  /\ n # 1
             /\ l = T[Split(n)][a] /\ r = T[n - Split(n)][a + Split(n)]
  <2>1. n # 1
    <3> SUFFICES ASSUME n = 1
                 PROVE  FALSE
      OBVIOUS
    <3>1. lh[a] = nodeHash(l, r) /\ a \in 1..L
      BY <1>3, <1>5
    <3>2. PICK d : lh[a] = leafHash(d)
      BY <3>1
    <3> QED BY <3>1, <3>2 DEF leafHash, nodeHash
  <2>2. nodeHash(l, r) = nodeHash(T[Split(n)][a], T[n - Split(n)][a + Split(n)])
    BY <1>3, <1>5, <2>1
  <2> QED BY <2>1, <2>2 DEF nodeHash
<1>6. leaf # null /\ \A l, r : leaf # nodeHash(l, r)
  BY DEF leafHash, nodeHash, null
<1> HIDE DEF P, R, T, leaf
<1>7. ASSUME NEW s \in Nat, \A k \in 0..s - 1 : k \in S
      PROVE  s \in S
  <2> SUFFICES ASSUME s \in 1..size, NEW m \in 0..s - 1, NEW j \in 0..Len(path),
                      NEW n \in 1..L, NEW a \in 1..L - n + 1,
                      R[s][m][j] = T[n][a]
               PROVE  Opened(s, m, j, n, a)
    OBVIOUS
  <2>1. T[n][a] = FromRoot(R, leaf, 0, path, s, m, j)
    BY <1>2
  <2>2. CASE s = 1
    <3>1. j = 0 /\ T[n][a] = leaf /\ m = 0
      <4>1. T[n][a] = IF j = 0 THEN leaf ELSE null
        BY <2>1, <2>2 DEF FromRoot
      <4>2. T[n][a] # null
        BY <1>4
      <4> QED BY <2>2, <4>1, <4>2
    <3>2. n = 1
      BY <1>3, <1>6, <3>1
    <3>3. leaf = lh[a] /\ a \in 1..L /\ a + m = a
      BY <1>3, <3>1, <3>2
    <3>4. P[n][a][m] = <<>>
      BY <1>1, <3>1, <3>2 DEF PathFromRoot
    <3>5. Len(P[n][a][m]) = 0 /\ Begins(path, P[n][a][m])
      BY <3>4 DEF Begins
    <3> QED BY <3>1, <3>3, <3>5
  <2>3. CASE s # 1
    <3> DEFINE k == Split(n)
               h == Split(s)
    <3>1. j # 0 /\ j - 1 \in 0..Len(path)
      BY <1>4, <2>1, <2>3 DEF FromRoot
    <3>2. h \in 1..s - 1 /\ h \in Nat
      BY <2>3, SplitIsBelow
    <3>3. ASSUME n # 1
          PROVE  /\ k \in 1..n - 1 /\ k \in 1..L /\ a \in 1..L - k + 1
                 /\ n - k \in 1..n - 1 /\ n - k \in 1..L
                 /\ a + k \in 1..L - (n - k) + 1
      <4>1. L \in Nat /\ n \in 2..L
        BY <3>3
      <4> HIDE DEF k
      <4> QED BY <4>1, HalvesAreSlices DEF k
    <3> HIDE DEF h, k
    <3>4. ASSUME NEW p \in Seq(Nodes(lh)), NEW e, P[n][a][m] = Append(p, e),
                 j - 1 = Len(p), path[j] = e, Begins(path, p)
          PROVE  j = Len(P[n][a][m]) /\ Begins(path, P[n][a][m])
      <4>1. Len(P[n][a][m]) = Len(p) + 1 /\ Len(p) \in Nat
        BY <3>4
      <4>2. P[n][a][m][Len(p) + 1] = e /\ \A x \in 1..Len(p) : P[n][a][m][x] = p[x]
        BY <3>4
      <4>3. j = Len(P[n][a][m])
        BY <3>4, <4>1
      <4>4. ASSUME NEW x \in 1..Len(p) + 1
            PROVE  path[x] = P[n][a][m][x]
        <5> PICK q \in Nat : q = Len(p)
          BY <4>1
        <5>1. CASE x = q + 1
          <6>1. j = x
            BY <3>4, <5>1
          <6> QED BY <3>4, <4>2, <5>1, <6>1
        <5>2. CASE x \in 1..q
          BY <3>4, <4>2, <5>2 DEF Begins
        <5>3. x \in 1..q + 1
          OBVIOUS
        <5> QED BY <5>1, <5>2, <5>3
      <4>5. Len(P[n][a][m]) <= Len(path) /\ Len(P[n][a][m]) = Len(p) + 1
        BY <4>1, <4>3
      <4> QED BY <4>3, <4>4, <4>5 DEF Begins
    <3>5. CASE m < h
      <4>1. T[n][a] = InLeft(R[h][m][j - 1], path[j])
        BY <2>1, <2>3, <3>1, <3>5 DEF FromRoot, h
      <4>2. T[n][a] = nodeHash(R[h][m][j - 1], path[j])
        BY <1>4, <4>1 DEF InLeft
      <4>3. n # 1 /\ R[h][m][j - 1] = T[k][a] /\ path[j] = T[n - k][a + k]
        BY <1>5, <4>2 DEF k
      <4>4. h \in 0..s - 1 /\ h \in 1..size /\ m \in 0..h - 1
        BY <3>2, <3>5
      <4>5. Opened(h, m, j - 1, k, a)
        <5>1. Opens(h)
          BY <1>7, <4>4
        <5> HIDE DEF Opened
        <5> QED BY <3>1, <3>3, <4>3, <4>4, <5>1
      <4>6. ASSUME s = n
            PROVE  leaf = lh[a + m] /\ j = Len(P[n][a][m]) /\ Begins(path, P[n][a][m])
        <5>1. h = k
          BY <4>6 DEF h, k
        <5>2. P[n][a][m] = Append(P[k][a][m], T[n - k][a + k])
          BY <1>1, <3>5, <4>3, <4>6, <5>1 DEF PathFromRoot, k, T
        <5>3. P[k][a][m] \in Seq(Nodes(lh))
          BY <1>1, <3>3, <4>3, <4>4, <5>1
        <5> QED BY <3>4, <4>3, <4>5, <5>1, <5>2, <5>3
      <4> QED BY <4>5, <4>6
    <3>6. CASE ~(m < h)
      <4>1. T[n][a] = InRight(R[s - h][m - h][j - 1], path[j])
        BY <2>1, <2>3, <3>1, <3>6 DEF FromRoot, h
      <4>2. T[n][a] = nodeHash(path[j], R[s - h][m - h][j - 1])
        BY <1>4, <4>1 DEF InRight
      <4>3. n # 1 /\ R[s - h][m - h][j - 1] = T[n - k][a + k] /\ path[j] = T[k][a]
        BY <1>5, <4>2 DEF k
      <4>4. s - h \in 0..s - 1 /\ s - h \in 1..size /\ m - h \in 0..s - h - 1
        BY <3>2, <3>6
      <4>5. Opened(s - h, m - h, j - 1, n - k, a + k)
        <5>1. Opens(s - h)
          BY <1>7, <4>4
        <5> HIDE DEF Opened
        <5> QED BY <3>1, <3>3, <4>3, <4>4, <5>1
      <4>6. ASSUME s = n
            PROVE  leaf = lh[a + m] /\ j = Len(P[n][a][m]) /\ Begins(path, P[n][a][m])
        <5>1. h = k /\ a + k + (m - k) = a + m
          BY <3>2, <4>6 DEF h, k
        <5>2. P[n][a][m] = Append(P[n - k][a + k][m - k], T[k][a])
          BY <1>1, <3>6, <4>3, <4>6, <5>1 DEF PathFromRoot, k, T
        <5>3. P[n - k][a + k][m - k] \in Seq(Nodes(lh))
          BY <1>1, <3>3, <4>3, <4>4, <4>6, <5>1
        <5>4. /\ leaf = lh[a + k + (m - k)]
              /\ j - 1 = Len(P[n - k][a + k][m - k])
              /\ Begins(path, P[n - k][a + k][m - k])
          BY <4>5, <4>6, <5>1
        <5> QED BY <3>4, <4>3, <5>1, <5>2, <5>3, <5>4
      <4> QED BY <4>5, <4>6
    <3> QED BY <3>5, <3>6
  <2> QED BY <2>2, <2>3
<1>8. Nat \subseteq S
  <2> HIDE DEF S
  <2> QED BY <1>7, StrongInduction
<1>9. ASSUME NEW s \in 1..size
      PROVE  Opens(s)
  <2>1. s \in S
    <3> HIDE DEF S
    <3> QED BY <1>8
  <2> HIDE DEF Opens
  <2> QED BY <2>1
<1> QED BY <1>9 DEF P, R, T, leaf, IsOfTheTree

-----------------------------------------------------------------------------
(***************************************************************************)
(* The verifier of sigsum.mjs.                                             *)
(***************************************************************************)

\* What the definition gives for a first part of a path.
LEMMA RebuildOfAPrefix ==
    ASSUME NEW leaf, NEW size \in Nat, NEW Hash, NEW path \in Seq(Hash),
           NEW p \in 0..Len(path)
    PROVE  \A n \in 1..size : \A m \in 0..n - 1 : \A j \in 0..p :
               Rebuild(leaf, 0, size, SubSeq(path, 1, p))[n][m][j] =
                   Rebuild(leaf, 0, size, path)[n][m][j]
<1> DEFINE q == SubSeq(path, 1, p)
           Q == Rebuild(leaf, 0, size, q)
           R == Rebuild(leaf, 0, size, path)
           S == {n \in Nat : n \in 1..size => \A m \in 0..n - 1 : \A j \in 0..p :
                                Q[n][m][j] = R[n][m][j]}
<1>1. Len(path) \in Nat /\ 0 \in Nat
  OBVIOUS
<1>2. Len(q) = p /\ \A x \in 1..p : q[x] = path[x]
  OBVIOUS
<1> HIDE DEF q
<1>3. ASSUME NEW n \in 1..size, NEW m \in 0..n - 1, NEW j \in 0..p
      PROVE  /\ Q[n][m][j] = FromRoot(Q, leaf, 0, q, n, m, j)
             /\ R[n][m][j] = FromRoot(R, leaf, 0, path, n, m, j)
  <2>1. j \in 0..Len(q) /\ Len(q) \in Nat /\ j \in 0..Len(path)
    BY <1>1, <1>2
  <2> QED BY <1>1, <2>1, RebuildIs
<1> HIDE DEF Q, R
<1>4. ASSUME NEW n \in Nat, \A k \in 0..n - 1 : k \in S
      PROVE  n \in S
  <2> SUFFICES ASSUME n \in 1..size, NEW m \in 0..n - 1, NEW j \in 0..p
               PROVE  Q[n][m][j] = R[n][m][j]
    OBVIOUS
  <2>1. /\ Q[n][m][j] = FromRoot(Q, leaf, 0, q, n, m, j)
        /\ R[n][m][j] = FromRoot(R, leaf, 0, path, n, m, j)
    BY <1>3
  <2>2. CASE n = 1 \/ j = 0
    BY <2>1, <2>2 DEF FromRoot
  <2>3. CASE n # 1 /\ j # 0
    <3> DEFINE k == Split(n)
    <3>1. k \in 1..n - 1
      BY <2>3, SplitIsBelow
    <3>2. q[j] = path[j] /\ j - 1 \in 0..p
      BY <1>1, <1>2, <2>3
    <3> HIDE DEF k
    <3>3. CASE m < k
      <4>1. k \in S /\ k \in 1..size /\ m \in 0..k - 1
        BY <1>4, <3>1, <3>3
      <4>2. Q[k][m][j - 1] = R[k][m][j - 1]
        BY <3>2, <4>1
      <4> QED BY <2>1, <2>3, <3>2, <3>3, <4>2 DEF FromRoot, k
    <3>4. CASE ~(m < k)
      <4>1. n - k \in 0..n - 1 /\ n - k \in 1..size /\ m - k \in 0..n - k - 1
        BY <3>1, <3>4
      <4>2. Q[n - k][m - k][j - 1] = R[n - k][m - k][j - 1]
        <5>1. n - k \in S
          BY <1>4, <4>1
        <5> QED BY <3>2, <4>1, <5>1
      <4> QED BY <2>1, <2>3, <3>2, <3>4, <4>2 DEF FromRoot, k
    <3> QED BY <3>3, <3>4
  <2> QED BY <2>2, <2>3
<1>5. Nat \subseteq S
  <2> HIDE DEF S
  <2> QED BY <1>4, StrongInduction
<1>6. ASSUME NEW n \in 1..size, NEW m \in 0..n - 1, NEW j \in 0..p
      PROVE  Q[n][m][j] = R[n][m][j]
  <2>1. n \in S
    <3> HIDE DEF S
    <3> QED BY <1>5
  <2> QED BY <2>1
<1> QED BY <1>6 DEF Q, R, q

\* The loop keeps, for every first part of the path, the root that the definition
\* gives: those shorter than what is used lead nowhere, and with the others it is
\* that of the node reached.
KeepsTheRoots(s, l, leaf, index, size, path) ==
    LET Root(j) == Rebuild(leaf, 0, size, path)[size][index][j]
    IN \/ s.r = throws /\ \A j \in 0..Len(path) : Root(j) = null
       \/ /\ s.r # null /\ s.r # throws
          /\ s.used \in 0..Len(path)
          /\ s.sn \in 0..size - 1 /\ s.fn \in 0..s.sn
          /\ s.sn = 0 \/ s.sn + l < size
          /\ \A j \in 0..s.used - 1 : Root(j) = null
          /\ \A j \in s.used..Len(path) :
                 Root(j) = Rebuild(s.r, s.used, size, path)[s.sn + 1][s.fn][j]

\* This holds after every round.
LEMMA SigsumKeepsTheRoots ==
    ASSUME NEW leaf, leaf # null, leaf # throws,
           NEW size \in Nat, NEW index \in 0..size - 1,
           NEW path, Len(path) \in Nat
    PROVE  \A l \in 0..size :
               KeepsTheRoots(SigsumClimb(leaf, index, size, path)[l], l,
                             leaf, index, size, path)
<1> DEFINE L == Len(path)
           C == SigsumClimb(leaf, index, size, path)
           Root(j) == Rebuild(leaf, 0, size, path)[size][index][j]
           Thrown(s) == s.r = throws /\ \A j \in 0..L : Root(j) = null
           Kept(s, l) == /\ s.r # null /\ s.r # throws
                         /\ s.used \in 0..L
                         /\ s.sn \in 0..size - 1 /\ s.fn \in 0..s.sn
                         /\ s.sn = 0 \/ s.sn + l < size
                         /\ \A j \in 0..s.used - 1 : Root(j) = null
                         /\ \A j \in s.used..L :
                                Root(j) = Rebuild(s.r, s.used, size, path)
                                              [s.sn + 1][s.fn][j]
           Fields(s) == DOMAIN s = {"r", "fn", "sn", "used"}
           Good(s, l) == Fields(s) /\ (Thrown(s) \/ Kept(s, l))
           S == {l \in Nat : l <= size => Good(C[l], l)}
<1>1. ASSUME NEW l \in 0..size
      PROVE  C[l] = IF l = 0 THEN [r |-> leaf, fn |-> index, sn |-> size - 1,
                                   used |-> 0]
                    ELSE Level(C[l - 1], path)
  BY SigsumClimbUnfolds
<1> HIDE DEF C
<1>2. 0 \in S
  <2>1. C[0] = [r |-> leaf, fn |-> index, sn |-> size - 1, used |-> 0]
    BY <1>1
  <2>2. size - 1 + 1 = size /\ 0..0 - 1 = {}
    OBVIOUS
  <2>3. Kept(C[0], 0)
    BY <2>1, <2>2
  <2>4. Fields(C[0])
    BY <2>1
  <2> QED BY <2>3, <2>4
<1>3. ASSUME NEW r, r # null, NEW i \in 0..L, NEW sn \in 1..size - 1,
             NEW fn \in 0..sn, NEW j \in i..L
      PROVE  Rebuild(r, i, size, path)[sn + 1][fn][j] =
                 FromLeaf(r, i, size, path, sn + 1, fn, j)
  <2> DEFINE n == sn + 1
  <2>1. n \in 2..size /\ fn \in 0..n - 1 /\ j \in i..Len(path) /\ i \in Nat
    BY <1>3
  <2> HIDE DEF n
  <2>2. Rebuild(r, i, size, path)[n][fn][j] = FromLeaf(r, i, size, path, n, fn, j)
    BY <1>3, <2>1, RebuildOneUp
  <2> QED BY <2>2 DEF n
<1>4. ASSUME NEW l \in 0..size - 1, NEW s, Fields(s), Kept(s, l)
      PROVE  Good(Level(s, path), l + 1)
  <2> DEFINE t == Level(s, path)
             hashed == s.fn % 2 = 1 \/ s.fn < s.sn
  <2>1. CASE s.sn = 0
    <3>1. t = s
      BY <2>1 DEF Level
    <3>2. Kept(s, l + 1)
      BY <1>4, <2>1
    <3> HIDE DEF Kept
    <3> QED BY <1>4, <3>1, <3>2
  <2>2. CASE s.sn # 0
    <3>1. /\ s.sn \in 1..size - 1 /\ s.sn \div 2 \in 0..size - 1
          /\ s.fn \div 2 \in 0..s.sn \div 2 /\ s.sn \div 2 + (l + 1) < size
      BY SMTT(15), <1>4, <2>2
    <3>2. ASSUME NEW j \in s.used..L
          PROVE  Root(j) =
                     IF hashed
                     THEN IF j = s.used THEN null
                          ELSE Rebuild(Above(s.r, path[s.used + 1], s.fn),
                                       s.used + 1, size, path)
                                   [s.sn \div 2 + 1][s.fn \div 2][j]
                     ELSE Rebuild(s.r, s.used, size, path)
                              [s.sn \div 2 + 1][s.fn \div 2][j]
      <4>1. Root(j) = Rebuild(s.r, s.used, size, path)[s.sn + 1][s.fn][j]
        BY <1>4
      <4> HIDE DEF Root
      <4>2. /\ s.r # null /\ s.used \in 0..L /\ s.sn \in 1..size - 1
            /\ s.fn \in 0..s.sn /\ j \in s.used..L
        BY <1>4, <3>1
      <4>3. Root(j) = FromLeaf(s.r, s.used, size, path, s.sn + 1, s.fn, j)
        BY <1>3, <4>1, <4>2
      <4>4. /\ (s.sn + 1 + 1) \div 2 = s.sn \div 2 + 1
            /\ s.fn + 1 < s.sn + 1 <=> s.fn < s.sn
        BY <4>2
      <4> QED BY <4>3, <4>4 DEF FromLeaf
    <3> HIDE DEF Root
    <3>3. CASE ~hashed
      <4>1. t = [s EXCEPT !.fn = s.fn \div 2, !.sn = s.sn \div 2]
        BY <1>4, <2>2, <3>3 DEF Level
      <4>2. /\ t.r = s.r /\ t.used = s.used
            /\ t.fn = s.fn \div 2 /\ t.sn = s.sn \div 2 /\ Fields(t)
        BY <1>4, <4>1
      <4> HIDE DEF t
      <4>3. Kept(t, l + 1)
        BY <1>4, <3>1, <3>2, <3>3, <4>2
      <4> HIDE DEF Kept, Fields
      <4> QED BY <4>2, <4>3 DEF t
    <3>4. CASE hashed /\ s.used = L
      <4>1. t = [s EXCEPT !.r = throws]
        BY <1>4, <2>2, <3>4 DEF Level
      <4>2. t.r = throws /\ Fields(t)
        BY <1>4, <4>1
      <4>3. \A j \in 0..L : Root(j) = null
        BY <1>4, <3>2, <3>4
      <4> HIDE DEF t, Fields
      <4>4. Thrown(t)
        BY <4>2, <4>3
      <4> HIDE DEF Thrown
      <4> QED BY <4>2, <4>4 DEF t
    <3>5. CASE hashed /\ s.used # L
      <4>1. t = [r |-> Above(s.r, path[s.used + 1], s.fn), fn |-> s.fn \div 2,
                 sn |-> s.sn \div 2, used |-> s.used + 1]
        BY <1>4, <2>2, <3>5 DEF Level, Above
      <4>2. /\ t.r = Above(s.r, path[s.used + 1], s.fn) /\ t.used = s.used + 1
            /\ t.fn = s.fn \div 2 /\ t.sn = s.sn \div 2 /\ Fields(t)
        BY <4>1
      <4>3. t.r # null /\ t.r # throws
        BY <4>2 DEF Above, nodeHash, null, throws
      <4> HIDE DEF t
      <4>4. Kept(t, l + 1)
        <5>1. t.used \in 0..L
          BY <1>4, <3>5, <4>2
        <5>2. \A j \in 0..t.used - 1 : Root(j) = null
          BY <1>4, <3>2, <3>5, <4>2
        <5>3. ASSUME NEW j \in t.used..L
              PROVE  Root(j) = Rebuild(t.r, t.used, size, path)[t.sn + 1][t.fn][j]
          <6>1. j \in s.used..L /\ j # s.used
            BY <1>4, <4>2
          <6>2. Root(j) = Rebuild(Above(s.r, path[s.used + 1], s.fn),
                                  s.used + 1, size, path)
                              [s.sn \div 2 + 1][s.fn \div 2][j]
            BY <3>2, <3>5, <6>1
          <6> QED BY <4>2, <6>2
        <5> QED BY <3>1, <4>2, <4>3, <5>1, <5>2, <5>3
      <4> HIDE DEF Kept, Fields
      <4> QED BY <4>2, <4>4 DEF t
    <3> QED BY <3>3, <3>4, <3>5
  <2> QED BY <2>1, <2>2
<1>5. ASSUME NEW l \in Nat, l \in S
      PROVE  l + 1 \in S
  <2> SUFFICES ASSUME l + 1 <= size
               PROVE  Good(C[l + 1], l + 1)
    OBVIOUS
  <2>1. C[l + 1] = Level(C[l], path) /\ l \in 0..size - 1
    BY <1>1
  <2>2. Good(C[l], l)
    <3> HIDE DEF Good
    <3> QED BY <1>5, <2>1
  <2>3. CASE Thrown(C[l])
    <3>1. Level(C[l], path) = C[l]
      BY <2>3 DEF Level
    <3> HIDE DEF Thrown, Kept, Fields
    <3> QED BY <2>1, <2>2, <2>3, <3>1
  <2>4. CASE Kept(C[l], l)
    <3> HIDE DEF Thrown, Kept, Fields
    <3>1. Good(Level(C[l], path), l + 1)
      <4> HIDE DEF Good
      <4> QED BY <1>4, <2>1, <2>2, <2>4 DEF Good
    <3> QED BY <2>1, <3>1
  <2> QED BY <2>2, <2>3, <2>4
<1>6. Nat \subseteq S
  <2> HIDE DEF S
  <2> QED BY <1>2, <1>5, NatInductionSet
<1>7. ASSUME NEW l \in 0..size
      PROVE  Thrown(C[l]) \/ Kept(C[l], l)
  <2>1. l \in S
    <3> HIDE DEF S
    <3> QED BY <1>6
  <2> HIDE DEF Thrown, Kept
  <2> QED BY <2>1
<1> QED BY <1>7 DEF C, KeepsTheRoots

\* So merkle.mjs takes exactly one first part of the path, and sigsum.mjs compares
\* the root it leads to, or it takes none, and sigsum.mjs runs out of path.
THEOREM SigsumFindsTheSameRoot ==
    ASSUME NEW leaf, leaf # null, leaf # throws,
           NEW size \in Nat, NEW index \in 0..size - 1,
           NEW Hash, NEW path \in Seq(Hash)
    PROVE  SameRoot(leaf, index, size, path)
<1> SUFFICES
           LET Root(k) == rootFromInclusion(leaf, index, size, SubSeq(path, 1, k))
               taken == {k \in 0..Len(path) : Root(k) # null}
               sigsum == sigsumRoot(leaf, index, size, path)
           IN IF taken = {} THEN sigsum = throws
              ELSE \E k \in taken : taken = {k} /\ sigsum = Root(k)
  BY DEF SameRoot
<1> DEFINE L == Len(path)
           Root(k) == rootFromInclusion(leaf, index, size, SubSeq(path, 1, k))
           taken == {k \in 0..L : Root(k) # null}
           D(k) == Rebuild(leaf, 0, size, path)[size][index][k]
           s == SigsumClimb(leaf, index, size, path)[size]
<1>1. ASSUME NEW k \in 0..L
      PROVE  Root(k) = D(k)
  <2> DEFINE q == SubSeq(path, 1, k)
  <2>1. Len(q) = k /\ k \in Nat
    OBVIOUS
  <2>2. size \in 1..size /\ index \in 0..size - 1 /\ k \in 0..k
    OBVIOUS
  <2>3. Rebuild(leaf, 0, size, q)[size][index][k] = D(k)
    BY <2>2, RebuildOfAPrefix
  <2> HIDE DEF q
  <2>4. rootFromInclusion(leaf, index, size, q) = definedRoot(leaf, index, size, q)
    BY <2>1, ClimbFindsTheRoot
  <2> HIDE DEF D
  <2> QED BY <2>1, <2>3, <2>4 DEF definedRoot, q
<1>2. /\ Len(path) \in Nat /\ size \in 0..size
      /\ sigsumRoot(leaf, index, size, path) = s.r
  BY DEF sigsumRoot
<1>3. \/ s.r = throws /\ \A j \in 0..L : D(j) = null
      \/ /\ s.r # null /\ s.used \in 0..L
         /\ s.sn = 0 /\ s.fn = 0
         /\ \A j \in 0..s.used - 1 : D(j) = null
         /\ \A j \in s.used..L :
                D(j) = Rebuild(s.r, s.used, size, path)[1][0][j]
  <2>1. \/ s.r = throws /\ \A j \in 0..L : D(j) = null
        \/ /\ s.r # null /\ s.r # throws
           /\ s.used \in 0..L
           /\ s.sn \in 0..size - 1 /\ s.fn \in 0..s.sn
           /\ s.sn = 0 \/ s.sn + size < size
           /\ \A j \in 0..s.used - 1 : D(j) = null
           /\ \A j \in s.used..L :
                  D(j) = Rebuild(s.r, s.used, size, path)[s.sn + 1][s.fn][j]
    <3>1. KeepsTheRoots(s, size, leaf, index, size, path)
      BY <1>2, SigsumKeepsTheRoots
    <3> HIDE DEF s
    <3> QED BY <3>1 DEF KeepsTheRoots
  <2> HIDE DEF s, D
  <2> QED BY <2>1
<1> HIDE DEF Root, D, s
<1>4. CASE s.r = throws /\ \A j \in 0..L : D(j) = null
  BY <1>1, <1>2, <1>4 DEF Root
<1>5. CASE /\ s.r # null /\ s.used \in 0..L
           /\ \A j \in 0..s.used - 1 : D(j) = null
           /\ \A j \in s.used..L :
                  D(j) = Rebuild(s.r, s.used, size, path)[1][0][j]
  <2>1. ASSUME NEW j \in s.used..L
        PROVE  D(j) = IF j = s.used THEN s.r ELSE null
    <3>1. s.used \in Nat /\ 1 \in 1..size /\ 0 \in 0..1 - 1
      BY <1>5
    <3>2. Rebuild(s.r, s.used, size, path)[1][0][j] =
              FromRoot(Rebuild(s.r, s.used, size, path), s.r, s.used, path, 1, 0, j)
      BY <1>2, <3>1, RebuildIs
    <3> QED BY <1>5, <3>2 DEF FromRoot
  <2>2. ASSUME NEW j \in 0..L
        PROVE  D(j) # null <=> j = s.used
    <3>1. CASE j \in 0..s.used - 1
      BY <1>5, <3>1
    <3>2. CASE j \in s.used..L
      BY <1>5, <2>1, <3>2
    <3> QED BY <1>5, <3>1, <3>2
  <2>3. taken = {s.used}
    BY <1>1, <1>5, <2>2
  <2>4. s.r = Root(s.used)
    BY <1>1, <1>5, <2>1
  <2> HIDE DEF taken
  <2>5. IF taken = {} THEN s.r = throws
        ELSE \E k \in taken : taken = {k} /\ s.r = Root(k)
    BY <2>3, <2>4
  <2> QED BY <1>2, <2>5 DEF taken, Root
<1> QED BY <1>3, <1>4, <1>5

\* Where all of the path leads to a root, sigsum.mjs compares that one.
LEMMA WholePathAgrees ==
    ASSUME NEW leaf, leaf # null, leaf # throws,
           NEW size \in Nat, NEW index \in 0..size - 1,
           NEW Hash, NEW path \in Seq(Hash),
           rootFromInclusion(leaf, index, size, path) # null
    PROVE  sigsumRoot(leaf, index, size, path) =
               rootFromInclusion(leaf, index, size, path)
<1> DEFINE Root(k) == rootFromInclusion(leaf, index, size, SubSeq(path, 1, k))
           taken == {k \in 0..Len(path) : Root(k) # null}
           sigsum == sigsumRoot(leaf, index, size, path)
<1>1. SubSeq(path, 1, Len(path)) = path /\ Len(path) \in Nat
  OBVIOUS
<1>2. Root(Len(path)) = rootFromInclusion(leaf, index, size, path)
  BY <1>1
<1>3. IF taken = {} THEN sigsum = throws
      ELSE \E k \in taken : taken = {k} /\ sigsum = Root(k)
  BY SigsumFindsTheSameRoot DEF SameRoot
<1> HIDE DEF Root, sigsum
<1>4. Len(path) \in taken
  BY <1>1, <1>2
<1>5. \E k \in taken : taken = {k} /\ sigsum = Root(k)
  BY <1>3, <1>4
<1>6. sigsum = Root(Len(path))
  BY <1>4, <1>5
<1> QED BY <1>2, <1>6 DEF sigsum

-----------------------------------------------------------------------------
(***************************************************************************)
(* Indices past the tree.                                                  *)
(***************************************************************************)

\* One level up the loop looks at one bit less.
LEMMA RoundOneUp ==
    ASSUME NEW sn \in Nat \ {0}
    PROVE  /\ Round(sn + 1) \in Nat \ {0}
           /\ Round(sn + 1) = 2 * Round(sn \div 2 + 1)
           /\ sn < Round(sn + 1)
<1> DEFINE n == sn + 1
           half == sn \div 2 + 1
<1>1. /\ n \in Nat /\ n >= 2 /\ half \in Nat /\ half >= 1
      /\ half = (n + 1) \div 2
      /\ n = 2 => half = 1
      /\ n > 2 => half >= 2
  OBVIOUS
<1>2. Split(n) \in 1..n - 1 /\ n <= 2 * Split(n)
  BY <1>1, SplitIsBelow
<1>3. CASE n = 2
  <2>1. Split(n) = 1 /\ Round(n) = 2 * Split(n) /\ Round(half) = 1
    BY <1>1, <1>2, <1>3 DEF Round
  <2> QED BY <1>3, <2>1
<1>4. CASE n > 2
  <2>1. Split(n) = 2 * Split(half)
    BY <1>1, <1>4, SplitOneUp
  <2>2. Round(n) = 2 * Split(n) /\ Round(half) = 2 * Split(half)
    BY <1>1, <1>4 DEF Round
  <2>3. half \in Nat /\ half >= 2
    BY <1>1, <1>4
  <2> HIDE DEF half
  <2>4. Split(half) \in 1..half - 1
    BY <2>3, SplitIsBelow
  <2> QED BY <1>2, <2>1, <2>2, <2>3, <2>4 DEF half
<1> QED BY <1>1, <1>3, <1>4

\* The climb of the last leaf, and that of an index past the tree that ends in
\* its bits, hash the same.
LEMMA LastLeafAgain ==
    ASSUME NEW leaf, NEW size \in Nat \ {0}, NEW path,
           NEW index \in Nat, index >= size, index % Round(size) = size - 1
    PROVE  sigsumRoot(leaf, index, size, path) =
               sigsumRoot(leaf, size - 1, size, path)
<1> DEFINE C == SigsumClimb(leaf, index, size, path)
           E == SigsumClimb(leaf, size - 1, size, path)
           Ahead(fn, sn) == \E q \in Nat \ {0} : fn = sn + q * Round(sn + 1)
           Fields(s) == s = [r |-> s.r, fn |-> s.fn, sn |-> s.sn, used |-> s.used]
           Alike(s, t) == /\ Fields(s) /\ Fields(t)
                          /\ s.r = t.r /\ s.sn = t.sn /\ s.used = t.used
                          /\ t.sn \in Nat /\ t.fn = t.sn
                          /\ Ahead(s.fn, s.sn)
           SameEnd(s, t) == Alike(s, t) \/ (s.r = throws /\ t.r = throws)
           S == {l \in Nat : l <= size => SameEnd(C[l], E[l])}
<1>1. ASSUME NEW l \in 0..size
      PROVE  /\ C[l] = IF l = 0 THEN [r |-> leaf, fn |-> index, sn |-> size - 1,
                                      used |-> 0]
                       ELSE Level(C[l - 1], path)
             /\ E[l] = IF l = 0 THEN [r |-> leaf, fn |-> size - 1, sn |-> size - 1,
                                      used |-> 0]
                       ELSE Level(E[l - 1], path)
  BY SigsumClimbUnfolds
<1> HIDE DEF C, E
<1>2. 0 \in S
  <2>1. /\ C[0] = [r |-> leaf, fn |-> index, sn |-> size - 1, used |-> 0]
        /\ E[0] = [r |-> leaf, fn |-> size - 1, sn |-> size - 1, used |-> 0]
    BY <1>1
  <2>2. Round(size) \in Nat \ {0} /\ size - 1 < Round(size)
    <3>1. CASE size = 1
      BY <3>1 DEF Round
    <3>2. CASE size # 1
      <4>1. size - 1 \in Nat \ {0} /\ size - 1 + 1 = size
        BY <3>2
      <4> QED BY <4>1, RoundOneUp
    <3> QED BY <3>1, <3>2
  <2>3. Ahead(index, size - 1)
    <3> DEFINE R == Round(size)
    <3>1. R \in Nat \ {0} /\ index % R = size - 1 /\ size - 1 + 1 = size
      BY <2>2
    <3> HIDE DEF R
    <3>2. index = (index % R) + (index \div R) * R /\ index \div R \in Nat
      BY <3>1
    <3>3. index \div R # 0
      BY <3>1, <3>2
    <3> QED BY <3>1, <3>2, <3>3 DEF R
  <2> HIDE DEF Ahead
  <2>4. Alike(C[0], E[0])
    BY <2>1, <2>3
  <2> QED BY <2>4
<1>3. ASSUME NEW s, NEW t, Alike(s, t)
      PROVE  SameEnd(Level(s, path), Level(t, path))
  <2> DEFINE sn == t.sn
  <2>1. CASE sn = 0
    <3>1. Level(s, path) = s /\ Level(t, path) = t
      BY <1>3, <2>1 DEF Level
    <3> HIDE DEF Ahead
    <3> QED BY <1>3, <3>1
  <2>2. CASE s.r = throws
    <3>1. Level(s, path) = s /\ Level(t, path) = t
      BY <1>3, <2>2 DEF Level
    <3> HIDE DEF Ahead
    <3> QED BY <1>3, <3>1
  <2>3. CASE sn # 0 /\ s.r # throws
    <3>1. PICK q \in Nat \ {0} : s.fn = sn + q * Round(sn + 1)
      BY <1>3
    <3> DEFINE R == Round(sn \div 2 + 1)
    <3>2. sn \in Nat \ {0} /\ t.fn = sn
      BY <1>3, <2>3
    <3> HIDE DEF sn
    <3>3. R \in Nat \ {0} /\ Round(sn + 1) = 2 * R
      <4>1. sn \div 2 \in Nat /\ (sn \div 2 = 0 \/ sn \div 2 \in Nat \ {0})
        BY <3>2
      <4>2. R \in Nat \ {0}
        <5>1. CASE sn \div 2 = 0
          BY <5>1 DEF Round
        <5>2. CASE sn \div 2 \in Nat \ {0}
          <6> DEFINE h == sn \div 2
          <6> HIDE DEF h
          <6>1. h \in Nat \ {0} => Round(h + 1) \in Nat \ {0}
            BY RoundOneUp
          <6> QED BY <5>2, <6>1 DEF h
        <5> QED BY <4>1, <5>1, <5>2
      <4> QED BY <3>2, <4>2, RoundOneUp
    <3> HIDE DEF R
    <3>4. /\ s.fn \in Nat /\ s.fn % 2 = sn % 2 /\ ~(s.fn < sn)
          /\ s.fn \div 2 = sn \div 2 + q * R
          /\ sn \div 2 \in Nat
      <4>1. PICK w \in Nat : w = q * R
        BY <3>1, <3>3
      <4>2. q * (2 * R) = 2 * w
        BY <3>1, <3>3, <4>1
      <4>3. s.fn = sn + 2 * w
        BY <3>1, <3>3, <4>2
      <4> QED BY <3>2, <4>1, <4>3
    <3>5. Ahead(s.fn \div 2, sn \div 2)
      BY <3>1, <3>4 DEF R
    <3> HIDE DEF Ahead
    <3>6. CASE sn % 2 # 1
      <4>1. /\ Level(s, path) = [s EXCEPT !.fn = s.fn \div 2, !.sn = s.sn \div 2]
            /\ Level(t, path) = [t EXCEPT !.fn = t.fn \div 2, !.sn = t.sn \div 2]
        BY <1>3, <2>3, <3>2, <3>4, <3>6 DEF Level, sn
      <4>2. /\ Level(s, path) = [r |-> s.r, fn |-> s.fn \div 2,
                                 sn |-> s.sn \div 2, used |-> s.used]
            /\ Level(t, path) = [r |-> t.r, fn |-> t.fn \div 2,
                                 sn |-> t.sn \div 2, used |-> t.used]
        BY <1>3, <4>1
      <4>3. s.sn = sn /\ t.sn = sn /\ t.fn = sn
        BY <1>3, <3>2 DEF sn
      <4>4. Alike(Level(s, path), Level(t, path))
        BY <1>3, <3>4, <3>5, <4>2, <4>3
      <4> QED BY <4>4
    <3>7. CASE sn % 2 = 1 /\ s.used = Len(path)
      <4>1. /\ Level(s, path) = [s EXCEPT !.r = throws]
            /\ Level(t, path) = [t EXCEPT !.r = throws]
        BY <1>3, <2>3, <3>2, <3>4, <3>7 DEF Level, sn
      <4> QED BY <1>3, <4>1
    <3>8. CASE sn % 2 = 1 /\ s.used # Len(path)
      <4>1. /\ Level(s, path) = [r |-> nodeHash(path[s.used + 1], s.r),
                                 fn |-> s.fn \div 2, sn |-> s.sn \div 2,
                                 used |-> s.used + 1]
            /\ Level(t, path) = [r |-> nodeHash(path[t.used + 1], t.r),
                                 fn |-> t.fn \div 2, sn |-> t.sn \div 2,
                                 used |-> t.used + 1]
        BY <1>3, <2>3, <3>2, <3>4, <3>8 DEF Level, sn
      <4> QED BY <1>3, <3>2, <3>4, <3>5, <4>1 DEF sn
    <3> QED BY <3>6, <3>7, <3>8
  <2> QED BY <2>1, <2>2, <2>3
<1>4. ASSUME NEW l \in Nat, l \in S
      PROVE  l + 1 \in S
  <2> SUFFICES ASSUME l + 1 <= size
               PROVE  SameEnd(C[l + 1], E[l + 1])
    OBVIOUS
  <2>1. C[l + 1] = Level(C[l], path) /\ E[l + 1] = Level(E[l], path)
    BY <1>1
  <2>2. CASE Alike(C[l], E[l])
    <3> HIDE DEF Alike, SameEnd
    <3> QED BY <1>3, <2>1, <2>2
  <2>3. CASE C[l].r = throws /\ E[l].r = throws
    <3>1. C[l + 1] = C[l] /\ E[l + 1] = E[l]
      BY <2>1, <2>3 DEF Level
    <3> QED BY <2>3, <3>1
  <2> HIDE DEF Alike
  <2> QED BY <1>4, <2>2, <2>3
<1>5. Nat \subseteq S
  <2> HIDE DEF S
  <2> QED BY <1>2, <1>4, NatInductionSet
<1>6. SameEnd(C[size], E[size])
  <2> HIDE DEF SameEnd
  <2> QED BY <1>5
<1>7. C[size].r = E[size].r
  <2> HIDE DEF Ahead
  <2> QED BY <1>6
<1> QED BY <1>7 DEF sigsumRoot, C, E

-----------------------------------------------------------------------------
(***************************************************************************)
(* A batch, for any digests, and a claim about it, for any claim.          *)
(***************************************************************************)

\* What is claimed is a leaf, that is not one of the two values that stand for
\* none, a place, a size and a path.
IsClaim(c) ==
    /\ c = [leaf |-> c.leaf, index |-> c.index, tree_size |-> c.tree_size,
            path |-> c.path]
    /\ c.leaf # null /\ c.leaf # throws
    /\ c.index \in Nat /\ c.tree_size \in Nat \ {0}
    /\ \E H : c.path \in Seq(H)

\* The leaf hashes of a batch are hashes, one for each of its digests.
LEMMA LeafHashesAre ==
    ASSUME NEW D, NEW ds \in Seq(D)
    PROVE  /\ Len(leafHashes(ds)) = Len(ds) /\ Len(ds) \in Nat
           /\ \A i \in 1..Len(ds) : /\ leafHashes(ds)[i] = leafHash(ds[i])
                                    /\ leafHashes(ds)[i] # null
                                    /\ leafHashes(ds)[i] # throws
<1> DEFINE lh == leafHashes(ds)
           H == {leafHash(d) : d \in D}
<1>1. DOMAIN ds = 1..Len(ds) /\ Len(ds) \in Nat
  OBVIOUS
<1>2. lh = [i \in 1..Len(ds) |-> leafHash(ds[i])]
  BY <1>1 DEF leafHashes
<1>3. lh \in [1..Len(ds) -> H]
  <2>1. \A i \in 1..Len(ds) : ds[i] \in D
    BY ElementOfSeq
  <2>2. \A i \in 1..Len(ds) : leafHash(ds[i]) \in H
    BY <2>1
  <2> HIDE DEF H, lh
  <2> QED BY <1>2, <2>2
<1>4. lh \in Seq(H)
  <2> HIDE DEF H, lh
  <2> QED BY <1>1, <1>3, SeqDef
<1>5. DOMAIN lh = 1..Len(ds)
  BY <1>2
<1>6. Len(lh) = Len(ds)
  <2> HIDE DEF H, lh
  <2> QED BY <1>1, <1>4, <1>5, LenProperties
<1>7. \A i \in 1..Len(ds) : lh[i] = leafHash(ds[i])
  BY <1>2
<1>8. \A d : leafHash(d) # null /\ leafHash(d) # throws
  BY DEF leafHash, null, throws
<1> HIDE DEF lh, H
<1> QED BY <1>1, <1>6, <1>7, <1>8 DEF lh

\* What is built for a batch of any digests is accepted.
THEOREM BuiltEntriesVerify ==
    ASSUME NEW D, NEW ds \in Seq(D), NEW i \in DOMAIN ds
    PROVE  verifyMerkleInclusion(buildMerkleBatch(ds).entries[i],
                                 buildMerkleBatch(ds).root, ds[i])
<1> DEFINE lh == leafHashes(ds)
           L == Len(ds)
           p == Paths(lh)[L][1][i - 1]
           e == buildMerkleBatch(ds).entries[i]
<1>1. /\ Len(lh) = L /\ L \in Nat /\ i \in 1..L
      /\ \A x \in 1..L : lh[x] # null
      /\ lh[i] = leafHash(ds[i]) /\ lh[i] # null
  BY LeafHashesAre
<1>2. /\ e.leaf = ds[i] /\ e.index = i - 1
      /\ e.path = p /\ e.tree_size = L
      /\ buildMerkleBatch(ds).root = Roots(lh)[L][1]
  BY <1>1 DEF buildMerkleBatch, mth, auditPath
<1> HIDE DEF lh, e
<1>3. L \in 1..L /\ 1 \in 1..L - L + 1 /\ i - 1 \in 0..L - 1
  BY <1>1
<1>4. p \in Seq(Nodes(lh))
  BY <1>1, <1>3, PathsAreSequences
<1>5. Len(p) \in Nat
  BY <1>4
<1>6. Rebuild(lh[i], 0, L, p)[L][i - 1][Len(p)] = Roots(lh)[L][1]
  <2>1. lh[1 + (i - 1)] = lh[i] /\ Begins(p, p)
    BY <1>1, <1>5 DEF Begins
  <2>2. /\ Len(lh) \in Nat /\ L \in 1..Len(lh) /\ 1 \in 1..Len(lh) - L + 1
        /\ i - 1 \in 0..L - 1 /\ \A x \in 1..Len(lh) : lh[x] # null
    BY <1>1, <1>3
  <2>3. LeadsToTheRoot(lh, lh[i], p, L, 1, i - 1)
    BY <1>5, <2>2, PathsLeadToTheRoot
  <2> QED BY <1>1, <2>1, <2>3 DEF LeadsToTheRoot
<1> HIDE DEF p
<1>7. rootFromInclusion(lh[i], i - 1, L, p) = Roots(lh)[L][1]
  <2>1. rootFromInclusion(lh[i], i - 1, L, p) = definedRoot(lh[i], i - 1, L, p)
    BY <1>1, <1>3, <1>5, ClimbFindsTheRoot
  <2> QED BY <1>6, <2>1 DEF definedRoot
<1> QED BY <1>1, <1>2, <1>7 DEF verifyMerkleInclusion, e

\* Whatever is claimed, nothing else is accepted.
THEOREM OnlyBuiltEntriesVerify ==
    ASSUME NEW D, NEW ds \in Seq(D), ds # <<>>, NEW c, IsClaim(c), NEW art,
           verifyMerkleInclusion(c, buildMerkleBatch(ds).root, art)
    PROVE  /\ c.leaf \in Range(ds)
           /\ art \in {None, c.leaf}
           /\ c.tree_size = Len(ds) =>
                  buildMerkleBatch(ds).entries[c.index + 1] = c
<1> DEFINE lh == leafHashes(ds)
           L == Len(ds)
           T == Roots(lh)[L][1]
           m == c.index
           size == c.tree_size
           path == c.path
           leaf == leafHash(c.leaf)
<1>1. /\ Len(lh) = L /\ L \in Nat /\ L >= 1 /\ DOMAIN ds = 1..L
      /\ \A x \in 1..L : lh[x] = leafHash(ds[x]) /\ lh[x] # null
  BY LeafHashesAre
<1>2. /\ buildMerkleBatch(ds).root = T
      /\ \A i \in 1..L : buildMerkleBatch(ds).entries[i] =
             [leaf |-> ds[i], index |-> i - 1, path |-> Paths(lh)[L][1][i - 1],
              tree_size |-> L]
  BY <1>1 DEF buildMerkleBatch, mth, auditPath
<1>3. PICK H : path \in Seq(H)
  BY DEF IsClaim
<1>4. size \in Nat \ {0} /\ m \in Nat /\ Len(path) \in Nat
  BY <1>3 DEF IsClaim
<1>5. leaf # null /\ \A x : leaf = leafHash(x) => c.leaf = x
  BY DEF leafHash, null
<1>6. rootFromInclusion(leaf, m, size, path) = T /\ art \in {None, c.leaf}
  BY <1>2 DEF verifyMerkleInclusion
<1>7. T # null
  <2>1. null \in {null, throws} /\ L \in 1..L /\ 1 \in 1..L - L + 1
    BY <1>1
  <2> HIDE DEF lh
  <2> QED BY <1>1, <2>1, RootsAreHashes
<1> HIDE DEF lh, T, leaf
<1>8. m \in 0..size - 1
  BY <1>4, <1>6, <1>7 DEF rootFromInclusion
<1>9. Rebuild(leaf, 0, size, path)[size][m][Len(path)] = T
  <2>1. rootFromInclusion(leaf, m, size, path) = definedRoot(leaf, m, size, path)
    BY <1>4, <1>5, <1>8, ClimbFindsTheRoot
  <2> QED BY <1>6, <2>1 DEF definedRoot
<1>10. /\ \E i \in 1..L : leaf = lh[i]
       /\ size = L => /\ leaf = lh[1 + m]
                      /\ Len(path) = Len(Paths(lh)[L][1][m])
                      /\ Begins(path, Paths(lh)[L][1][m])
  <2>1. /\ size \in 1..size /\ m \in 0..size - 1 /\ Len(path) \in 0..Len(path)
        /\ L \in 1..L /\ 1 \in 1..L - L + 1 /\ size \in Nat
    BY <1>1, <1>4, <1>8
  <2>2. \A i \in 1..Len(lh) : \E d : lh[i] = leafHash(d)
    BY <1>1
  <2>3. Rebuild(leafHash(c.leaf), 0, size, path)[size][m][Len(path)] = Roots(lh)[L][1]
    BY <1>9 DEF leaf, T
  <2>4. /\ Len(lh) \in Nat /\ L \in 1..Len(lh) /\ 1 \in 1..Len(lh) - L + 1
        /\ Len(path) \in Nat
    BY <1>1, <1>4, <2>1
  <2>5. IsOfTheTree(lh, leafHash(c.leaf), path, size, m, Len(path), L, 1)
    BY <2>1, <2>2, <2>3, <2>4, OnlyLeavesLeadToARoot
  <2> QED BY <1>1, <2>5 DEF leaf, IsOfTheTree
<1>11. c.leaf \in Range(ds)
  <2>1. PICK i \in 1..L : leaf = lh[i]
    BY <1>10
  <2>2. c.leaf = ds[i]
    BY <1>1, <1>5, <2>1
  <2> QED BY <1>1, <2>2 DEF Range
<1>12. ASSUME size = L
       PROVE  buildMerkleBatch(ds).entries[m + 1] = c
  <2> DEFINE p == Paths(lh)[L][1][m]
  <2>1. m + 1 \in 1..L /\ m + 1 - 1 = m /\ 1 + m = m + 1
    BY <1>1, <1>8, <1>12
  <2>2. c.leaf = ds[m + 1]
    BY <1>1, <1>5, <1>10, <1>12, <2>1
  <2>3. p \in Seq(Nodes(lh))
    <3>1. /\ Len(lh) \in Nat /\ L \in 1..Len(lh) /\ 1 \in 1..Len(lh) - L + 1
          /\ m \in 0..L - 1
      BY <1>1, <1>8, <1>12
    <3> QED BY <3>1, PathsAreSequences
  <2> HIDE DEF p
  <2>4. Len(path) = Len(p) /\ \A x \in 1..Len(p) : path[x] = p[x]
    BY <1>10, <1>12 DEF p, Begins
  <2>5. path = p
    BY <1>3, <2>3, <2>4, SeqEqual
  <2>6. buildMerkleBatch(ds).entries[m + 1] =
            [leaf |-> c.leaf, index |-> m, path |-> path, tree_size |-> size]
    <3> DEFINE x == m + 1
    <3>1. x \in 1..L /\ x - 1 = m /\ c.leaf = ds[x]
      <4>1. x \in 1..L
        BY <2>1
      <4>2. x - 1 = m
        BY <1>4
      <4>3. c.leaf = ds[x]
        BY <2>2
      <4> QED BY <4>1, <4>2, <4>3
    <3> HIDE DEF x
    <3>2. buildMerkleBatch(ds).entries[x] =
              [leaf |-> ds[x], index |-> x - 1,
               path |-> Paths(lh)[L][1][x - 1], tree_size |-> L]
      BY <1>2, <3>1, Zenon
    <3> QED BY <1>12, <2>5, <3>1, <3>2 DEF p, x
  <2> QED BY <2>6 DEF IsClaim
<1> QED BY <1>6, <1>11, <1>12

-----------------------------------------------------------------------------
(***************************************************************************)
(* The specification.                                                      *)
(***************************************************************************)

\* All digests, of whatever number of hashes.
AllDigests == {Digest(i) : i \in Nat}

\* What is kept of a batch is what was built for its digests, what is verified
\* is a claim, and what is said of it is the verifier's answer.
IInv ==
    /\ digests # <<>> => /\ digests \in Seq(AllDigests)
                         /\ batch = buildMerkleBatch(digests)
    /\ claim # None => digests # <<>> /\ IsClaim(claim)
    /\ accepted => /\ digests # <<>> /\ IsClaim(claim)
                   /\ verifyMerkleInclusion(claim, batch.root, artifact)

\* A digest is neither of the two values that stand for none.
LEMMA DigestsAreHashes ==
    \A d \in AllDigests : d # null /\ d # throws
<1>1. \A i : Digest(i) # null /\ Digest(i) # throws
  BY DEF Digest, null, throws
<1> QED BY <1>1 DEF AllDigests

\* The batches that are built are sequences of digests.
LEMMA BatchesAre ==
    ASSUME NEW ds \in Batches
    PROVE  ds # <<>> /\ ds \in Seq(AllDigests)
<1> DEFINE D == {Digest(i) : i \in 1..Digests}
<1>1. Small \in Nat /\ Large \in Nat /\ D \subseteq AllDigests
  BY MerkleAssumption DEF AllDigests
<1>2. \A n \in Nat \ {0} : \A s \in [1..n -> AllDigests] :
          s \in Seq(AllDigests) /\ s # <<>>
  <2> TAKE n \in Nat \ {0}
  <2> TAKE s \in [1..n -> AllDigests]
  <2>1. s \in Seq(AllDigests)
    BY SeqDef
  <2>2. 1 \in DOMAIN s /\ DOMAIN <<>> = {}
    OBVIOUS
  <2> QED BY <2>1, <2>2
<1>3. CASE \E n \in 2..Small : ds \in [1..n -> D]
  <2> HIDE DEF D
  <2>1. PICK n \in 2..Small : ds \in [1..n -> D]
    BY <1>3
  <2>2. n \in Nat \ {0}
    BY <1>1
  <2>3. ds \in [1..n -> AllDigests]
    BY <1>1, <2>1
  <2> QED BY <1>2, <2>2, <2>3
<1>4. CASE \E n \in 2..Large : ds = [i \in 1..n |-> Digest(i)]
  <2>1. PICK n \in 2..Large : ds = [i \in 1..n |-> Digest(i)]
    BY <1>4
  <2>2. n \in Nat \ {0}
    BY <1>1
  <2>3. \A i \in 1..n : Digest(i) \in AllDigests
    BY <2>2 DEF AllDigests
  <2>4. ds \in [1..n -> AllDigests]
    BY <2>1, <2>3
  <2> QED BY <1>2, <2>2, <2>4
<1> QED BY <1>3, <1>4 DEF Batches

\* The entries of a batch, and the hashes its claims are made of.
LEMMA EntriesAre ==
    ASSUME digests \in Seq(AllDigests), digests # <<>>,
           batch = buildMerkleBatch(digests)
    PROVE  /\ \A e \in Range(batch.entries) : IsClaim(e)
           /\ \A h \in Hashes : h # null /\ h # throws
<1> DEFINE lh == leafHashes(digests)
           L == Len(digests)
           N == Nodes(lh)
<1>1. /\ Len(lh) = L /\ L \in Nat /\ L >= 1 /\ DOMAIN digests = 1..L
      /\ \A i \in 1..L : lh[i] # null /\ lh[i] # throws
  BY LeafHashesAre
<1>2. \A i \in 1..L : digests[i] \in AllDigests
  BY <1>1, ElementOfSeq
<1>3. /\ batch.root = Roots(lh)[L][1]
      /\ DOMAIN batch.entries = 1..L
      /\ \A i \in 1..L : batch.entries[i] =
             [leaf |-> digests[i], index |-> i - 1,
              path |-> Paths(lh)[L][1][i - 1], tree_size |-> L]
  BY <1>1 DEF buildMerkleBatch, mth, auditPath
<1> HIDE DEF lh
<1>4. \A h \in N : h # null /\ h # throws
  <2>1. ASSUME NEW n \in 1..L, NEW a \in 1..L - n + 1
        PROVE  Roots(lh)[n][a] # null /\ Roots(lh)[n][a] # throws
    <3>1. null \in {null, throws} /\ throws \in {null, throws}
      OBVIOUS
    <3>2. Roots(lh)[n][a] # null
      BY <1>1, <3>1, RootsAreHashes
    <3>3. Roots(lh)[n][a] # throws
      BY <1>1, <3>1, RootsAreHashes
    <3> QED BY <3>2, <3>3
  <2> QED BY <1>1, <2>1 DEF Nodes
<1>5. L \in 1..L /\ 1 \in 1..L - L + 1
  BY <1>1
<1>6. batch.root \in N
  BY <1>1, <1>3, <1>5 DEF Nodes
<1>7. ASSUME NEW i \in 1..L
      PROVE  IsClaim(batch.entries[i]) /\ batch.entries[i].path \in Seq(N)
  <2> DEFINE e == batch.entries[i]
             p == Paths(lh)[L][1][i - 1]
  <2>1. i - 1 \in 0..L - 1 /\ i - 1 \in Nat
    BY <1>1
  <2>2. p \in Seq(N)
    BY <1>1, <1>5, <2>1, PathsAreSequences
  <2> HIDE DEF p, N
  <2>3. e = [leaf |-> digests[i], index |-> i - 1, path |-> p, tree_size |-> L]
    BY <1>3 DEF p
  <2> HIDE DEF e
  <2>4. /\ e.leaf = digests[i] /\ e.index = i - 1
        /\ e.path = p /\ e.tree_size = L
    BY <2>3
  <2>5. e.leaf # null /\ e.leaf # throws
    BY <1>2, <2>4, DigestsAreHashes
  <2>6. e = [leaf |-> e.leaf, index |-> e.index, tree_size |-> e.tree_size,
             path |-> e.path]
    BY <2>3, <2>4
  <2>7. e.index \in Nat /\ e.tree_size \in Nat \ {0}
    BY <1>1, <2>1, <2>4
  <2>8. \E H : e.path \in Seq(H)
    BY <2>2, <2>4
  <2>9. IsClaim(e)
    BY <2>5, <2>6, <2>7, <2>8 DEF IsClaim
  <2> QED BY <2>2, <2>4, <2>9 DEF e
<1> HIDE DEF N
<1>8. \A e \in Range(batch.entries) : IsClaim(e) /\ e.path \in Seq(N)
  BY <1>3, <1>7 DEF Range
<1>9. \A e \in Range(batch.entries) : Range(e.path) \subseteq N
  <2> SUFFICES ASSUME NEW e \in Range(batch.entries)
               PROVE  Range(e.path) \subseteq N
    OBVIOUS
  <2>1. \A s \in Seq(N) : \A x \in DOMAIN s : s[x] \in N
    BY ElementOfSeq
  <2> QED BY <1>8, <2>1 DEF Range
<1>10. Hashes \subseteq N
  BY <1>6, <1>9 DEF Hashes
<1> QED BY <1>4, <1>8, <1>10

\* Every claim that is verified is one.
LEMMA ClaimsAre ==
    ASSUME digests \in Seq(AllDigests), digests # <<>>,
           batch = buildMerkleBatch(digests),
           NEW c \in Range(batch.entries) \cup Tampered \cup Shapes
    PROVE  IsClaim(c)
<1>1. CASE c \in Range(batch.entries)
  BY <1>1, EntriesAre
<1>2. CASE c \in Tampered
  <2> DEFINE leafs == {Digest(i) : i \in 1..Digests + 1} \cup Hashes
             paths == UNION {[1..k -> Hashes] : k \in 0..3}
  <2>1. c \in [leaf : leafs, index : 0..Len(digests),
               tree_size : 1..Len(digests) + 1, path : paths]
    BY <1>2 DEF Tampered
  <2>2. \A d \in leafs : d # null /\ d # throws
    <3>1. \A i \in 1..Digests + 1 : Digest(i) \in AllDigests
      BY MerkleAssumption DEF AllDigests
    <3> QED BY <3>1, DigestsAreHashes, EntriesAre
  <2>3. \A p \in paths : p \in Seq(Hashes)
    <3> SUFFICES ASSUME NEW k \in 0..3, NEW p \in [1..k -> Hashes]
                 PROVE  p \in Seq(Hashes)
      OBVIOUS
    <3>1. k \in Nat
      OBVIOUS
    <3> QED BY <3>1, SeqDef
  <2> HIDE DEF leafs, paths
  <2>4. /\ c = [leaf |-> c.leaf, index |-> c.index, tree_size |-> c.tree_size,
                path |-> c.path]
        /\ c.leaf \in leafs /\ c.index \in 0..Len(digests)
        /\ c.tree_size \in 1..Len(digests) + 1 /\ c.path \in paths
    BY <2>1
  <2>5. Len(digests) \in Nat
    OBVIOUS
  <2>6. c.index \in Nat /\ c.tree_size \in Nat \ {0}
    BY <2>4, <2>5
  <2> QED BY <2>2, <2>3, <2>4, <2>6 DEF IsClaim
<1>3. CASE c \in Shapes
  <2>1. PICK m \in 0..Large, n \in 1..Large, k \in 0..LongPath :
            c = [leaf |-> Digest(0), index |-> m, tree_size |-> n,
                 path |-> [i \in 1..k |-> Digest(i)]]
    BY <1>3 DEF Shapes
  <2>2. Large \in Nat /\ LongPath \in Nat
    BY MerkleAssumption
  <2>3. Digest(0) \in AllDigests /\ \A i \in 1..k : Digest(i) \in AllDigests
    BY <2>2 DEF AllDigests
  <2>4. [i \in 1..k |-> Digest(i)] \in Seq(AllDigests)
    <3>1. [i \in 1..k |-> Digest(i)] \in [1..k -> AllDigests] /\ k \in Nat
      BY <2>2, <2>3
    <3> QED BY <3>1, SeqDef
  <2> DEFINE p == [i \in 1..k |-> Digest(i)]
             d == Digest(0)
  <2>5. d # null /\ d # throws
    BY <2>3, DigestsAreHashes
  <2> HIDE DEF p, d
  <2>6. c = [leaf |-> d, index |-> m, tree_size |-> n, path |-> p]
    BY <2>1 DEF p, d
  <2>7. /\ c = [leaf |-> c.leaf, index |-> c.index, tree_size |-> c.tree_size,
                path |-> c.path]
        /\ c.leaf = d /\ c.index = m /\ c.tree_size = n /\ c.path = p
    BY <2>6
  <2>8. m \in Nat /\ n \in Nat \ {0}
    BY <2>2
  <2> QED BY <2>4, <2>5, <2>7, <2>8 DEF IsClaim, p
<1> QED BY <1>1, <1>2, <1>3

\* The invariant holds of every reachable state.
THEOREM Invariance == Spec => []IInv
<1>1. Init => IInv
  BY DEF Init, IInv
<1>2. ASSUME IInv, [Next]_vars
      PROVE  IInv'
  <2>1. CASE Build
    <3>1. /\ digests = <<>> /\ digests' \in Batches
          /\ batch' = buildMerkleBatch(digests')
          /\ claim' = claim /\ accepted' = accepted
      BY <2>1 DEF Build
    <3>2. claim = None /\ ~accepted
      BY <1>2, <3>1 DEF IInv
    <3>3. digests' # <<>> /\ digests' \in Seq(AllDigests)
      BY <3>1, BatchesAre
    <3> QED BY <3>1, <3>2, <3>3 DEF IInv
  <2>2. CASE Verify
    <3>1. /\ digests # <<>> /\ claim = None
          /\ claim' \in Range(batch.entries) \cup Tampered \cup Shapes
          /\ accepted' = verifyMerkleInclusion(claim', batch.root, artifact')
          /\ digests' = digests /\ batch' = batch
      BY <2>2 DEF Verify
    <3>2. digests \in Seq(AllDigests) /\ batch = buildMerkleBatch(digests)
      BY <1>2, <3>1 DEF IInv
    <3>3. IsClaim(claim')
      BY <3>1, <3>2, ClaimsAre
    <3> QED BY <3>1, <3>2, <3>3 DEF IInv
  <2>3. CASE UNCHANGED vars
    BY <1>2, <2>3 DEF IInv, vars
  <2> QED BY <1>2, <2>1, <2>2, <2>3 DEF Next
<1> QED BY <1>1, <1>2, PTL DEF Spec

\* The builder and the verifier agree on every batch: each entry is accepted
\* under the root, for its own digest.
THEOREM EveryEntry == Spec => []EveryEntryVerifies
<1>1. ASSUME IInv
      PROVE  EveryEntryVerifies
  <2> SUFFICES ASSUME digests # <<>>, NEW i \in DOMAIN digests
               PROVE  verifyMerkleInclusion(batch.entries[i], batch.root, digests[i])
    BY DEF EveryEntryVerifies
  <2>1. digests \in Seq(AllDigests) /\ batch = buildMerkleBatch(digests)
    BY <1>1 DEF IInv
  <2> QED BY <2>1, BuiltEntriesVerify
<1> QED BY <1>1, Invariance, PTL

\* Only a digest of the batch is accepted under its root, and with the batch's
\* own size only at its place and by the path that was built for it.
THEOREM OnlyMembers == Spec => []OnlyMembersVerify
<1>1. ASSUME IInv
      PROVE  OnlyMembersVerify
  <2> SUFFICES ASSUME accepted
               PROVE  /\ claim.leaf \in Range(digests)
                      /\ artifact \in {None, claim.leaf}
                      /\ claim.tree_size = Len(digests) =>
                            batch.entries[claim.index + 1] = claim
    BY DEF OnlyMembersVerify
  <2>1. /\ digests # <<>> /\ digests \in Seq(AllDigests)
        /\ batch = buildMerkleBatch(digests) /\ IsClaim(claim)
        /\ verifyMerkleInclusion(claim, batch.root, artifact)
    BY <1>1 DEF IInv
  <2> QED BY <2>1, OnlyBuiltEntriesVerify
<1> QED BY <1>1, Invariance, PTL

\* The climb from the leaf computes what RFC 6962 defines from the root, and
\* refuses any index outside the tree.
THEOREM ClimbIsDefined == Spec => []ClimbIsTheDefinition
<1>1. ASSUME IInv
      PROVE  ClimbIsTheDefinition
  <2> SUFFICES ASSUME claim # None
               PROVE  rootFromInclusion(claim.leaf, claim.index, claim.tree_size,
                                        claim.path) =
                          IF claim.index >= claim.tree_size THEN null
                          ELSE definedRoot(claim.leaf, claim.index,
                                           claim.tree_size, claim.path)
    BY DEF ClimbIsTheDefinition
  <2>1. IsClaim(claim)
    BY <1>1 DEF IInv
  <2>2. /\ claim.leaf # null /\ claim.index \in Nat
        /\ claim.tree_size \in Nat /\ Len(claim.path) \in Nat
    BY <2>1 DEF IsClaim
  <2>3. CASE claim.index >= claim.tree_size
    BY <2>3 DEF rootFromInclusion
  <2>4. CASE ~(claim.index >= claim.tree_size)
    <3>1. claim.index \in 0..claim.tree_size - 1
      BY <2>2, <2>4
    <3> QED BY <2>2, <2>4, <3>1, ClimbFindsTheRoot
  <2> QED BY <2>3, <2>4
<1> QED BY <1>1, Invariance, PTL

\* Every claim that merkle.mjs takes leads to the same root in sigsum.mjs.
THEOREM VerifiersAgreeAlways == Spec => []VerifiersAgree
<1>1. ASSUME IInv
      PROVE  VerifiersAgree
  <2> DEFINE root == rootFromInclusion(claim.leaf, claim.index,
                                       claim.tree_size, claim.path)
  <2>1. ASSUME claim # None, root # null
        PROVE  sigsumRoot(claim.leaf, claim.index, claim.tree_size, claim.path) = root
    <3>1. IsClaim(claim)
      BY <1>1, <2>1 DEF IInv
    <3>2. PICK H : claim.path \in Seq(H)
      BY <3>1 DEF IsClaim
    <3>3. /\ claim.leaf # null /\ claim.leaf # throws
          /\ claim.tree_size \in Nat /\ claim.index \in Nat
      BY <3>1 DEF IsClaim
    <3>4. ~(claim.index >= claim.tree_size)
      BY <2>1 DEF rootFromInclusion
    <3>5. claim.index \in 0..claim.tree_size - 1
      BY <3>3, <3>4
    <3> QED BY <2>1, <3>2, <3>3, <3>5, WholePathAgrees
  <2> HIDE DEF root
  <2>2. claim # None /\ root # null =>
            sigsumRoot(claim.leaf, claim.index, claim.tree_size, claim.path) = root
    BY <2>1
  <2> QED BY <2>2 DEF VerifiersAgree, root
<1> QED BY <1>1, Invariance, PTL

\* What else sigsum.mjs takes: the root of a first part of the path, and an index
\* past the tree that ends in the bits of the last leaf's.
THEOREM SigsumTakesMoreAlways == Spec => []SigsumTakesMore
<1>1. ASSUME IInv
      PROVE  SigsumTakesMore
  <2> DEFINE index == claim.index
             size == claim.tree_size
             place == Place(index, size)
  <2> SUFFICES ASSUME claim # None, place < size
               PROVE  /\ SameRoot(claim.leaf, place, size, claim.path)
                      /\ sigsumRoot(claim.leaf, index, size, claim.path) =
                             sigsumRoot(claim.leaf, place, size, claim.path)
    BY DEF SigsumTakesMore
  <2>1. IsClaim(claim)
    BY <1>1 DEF IInv
  <2>2. PICK H : claim.path \in Seq(H)
    BY <2>1 DEF IsClaim
  <2>3. /\ claim.leaf # null /\ claim.leaf # throws
        /\ size \in Nat \ {0} /\ index \in Nat
    BY <2>1 DEF IsClaim
  <2>4. place = index \/ (place = size - 1 /\ index % Round(size) = size - 1)
    BY DEF Place
  <2> HIDE DEF place, index, size
  <2>5. place \in 0..size - 1
    BY <2>3, <2>4
  <2>6. SameRoot(claim.leaf, place, size, claim.path)
    BY <2>2, <2>3, <2>5, SigsumFindsTheSameRoot
  <2>7. CASE index < size
    <3>1. place = index
      <4>1. CASE size = 1
        BY <2>3, <2>5, <2>7, <4>1
      <4>2. CASE size # 1
        <5>1. size - 1 \in Nat \ {0} /\ size - 1 + 1 = size
          BY <2>3, <4>2
        <5>2. Round(size) \in Nat \ {0} /\ size - 1 < Round(size)
          BY <5>1, RoundOneUp
        <5> DEFINE R == Round(size)
        <5>3. R \in Nat \ {0} /\ index < R
          BY <2>3, <2>7, <5>2
        <5> HIDE DEF R
        <5>4. index % R = index
          BY <2>3, <5>3
        <5> QED BY <2>4, <5>4 DEF R
      <4> QED BY <4>1, <4>2
    <3> QED BY <2>6, <3>1
  <2>8. CASE ~(index < size)
    <3>1. place = size - 1 /\ index % Round(size) = size - 1
      BY <2>4, <2>8
    <3>2. index >= size
      BY <2>3, <2>8
    <3>3. sigsumRoot(claim.leaf, index, size, claim.path) =
              sigsumRoot(claim.leaf, size - 1, size, claim.path)
      BY <2>3, <3>1, <3>2, LastLeafAgain
    <3> QED BY <2>6, <3>1, <3>3
  <2> QED BY <2>7, <2>8
<1> QED BY <1>1, Invariance, PTL
=============================================================================
