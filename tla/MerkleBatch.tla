---------------------------- MODULE MerkleBatch ----------------------------
(***************************************************************************)
(* Batches of hashes under one Merkle root, public/lib/merkle.mjs, and the *)
(* second verifier of inclusion proofs, in public/lib/sigsum.mjs.          *)
(*                                                                         *)
(* Hashing is free: a digest, the hash of a leaf and the hash of two nodes *)
(* are terms that are equal only if they are built alike.  A claim is a    *)
(* merkle_inclusion object as anyone may present it: its leaf may be any   *)
(* digest, the hashes inside the tree included, its path any sequence of   *)
(* such hashes, its index and tree_size any numbers.  The hexadecimal      *)
(* forms and the checks of their shape are left out.                       *)
(***************************************************************************)
EXTENDS Naturals, SequencesExt, FiniteSetsExt

CONSTANTS
    None,       \* nothing yet, undefined
    Digests,    \* how many different digests the small batches are made of
    Small,      \* largest batch whose claims are tampered with in every way
    Large,      \* largest batch, and largest size in a claim of Shapes
    LongPath    \* longest path in a claim of Shapes

\* A batch has 2 to 1024 hashes.
ASSUME MerkleAssumption ==
    /\ {Digests, Small, Large, LongPath} \subseteq Nat
    /\ 2 <= Small /\ Small <= Large /\ Large <= 1024

Digest(i) == <<2, i>>

\* Slip: leaves and nodes are hashed alike.
leafHashBare(d) == d

\* The hash of a leaf and of a node, told apart by their first byte.
leafHash(d) == <<0, d>>
nodeHash(l, r) == <<1, l, r>>

\* What a verifier returns instead of a root: null, and an exception.
null == <<3>>
throws == <<4>>

-----------------------------------------------------------------------------
(* The tree.  A slice of the leaves is the n of them from leaf a on. *)

\* The loop of mth and auditPath, which ends before it has gone round n times.
Doubled(k, n) == IF k * 2 < n THEN k * 2 ELSE k
Doublings(n) ==
    LET k[i \in 0..n] == IF i = 0 THEN 1 ELSE Doubled(k[i - 1], n) IN k

\* The largest power of two less than n.
Split(n) == Doublings(n)[n]

\* The roots of all slices, by length and first leaf.
Roots(lh) ==
    LET t[n \in 1..Len(lh)] ==
            IF n = 1 THEN lh
            ELSE LET k == Split(n)
                 IN [a \in 1..Len(lh) - n + 1 |->
                        nodeHash(t[k][a], t[n - k][a + k])]
    IN t

mth(lh) == Roots(lh)[Len(lh)][1]

\* The siblings of leaf m of every slice, from the leaf to the slice's root.
Paths(lh) ==
    LET p[n \in 1..Len(lh)] ==
            IF n = 1 THEN [a \in 1..Len(lh) |-> [m \in {0} |-> <<>>]]
            ELSE LET k == Split(n)
                 IN [a \in 1..Len(lh) - n + 1 |-> [m \in 0..n - 1 |->
                        IF m < k THEN Append(p[k][a][m], Roots(lh)[n - k][a + k])
                        ELSE Append(p[n - k][a + k][m - k], Roots(lh)[k][a])]]
    IN p

auditPath(m, lh) == Paths(lh)[Len(lh)][1][m]

leafHashes(digests) == [i \in DOMAIN digests |-> leafHash(digests[i])]

buildMerkleBatch(digests) ==
    LET lh == leafHashes(digests)
    IN [root |-> mth(lh),
        entries |-> [i \in DOMAIN digests |->
            [leaf |-> digests[i], index |-> i - 1,
             path |-> auditPath(i - 1, lh), tree_size |-> Len(digests)]]]

-----------------------------------------------------------------------------
(* The verifiers, which climb from the leaf: fn is the place of a node in its *)
(* level, and sn that of the level's last node.                               *)

\* Slip: every level is taken for one with a sibling.
AscendNothing(fn, sn) == <<fn, sn>>

\* Leaves a level behind for every trailing zero of fn.
Halved(s) ==
    IF s[1] # 0 /\ s[1] % 2 = 0 THEN <<s[1] \div 2, s[2] \div 2>> ELSE s
Ascents(fn, sn) ==
    LET s[i \in 0..fn] == IF i = 0 THEN <<fn, sn>> ELSE Halved(s[i - 1]) IN s
Ascend(fn, sn) == Ascents(fn, sn)[fn]

\* One hash of the path: none is left to take at the root.
Take(s, hash) ==
    IF s.r = null \/ s.sn = 0 THEN [r |-> null, fn |-> 0, sn |-> 0]
    ELSE IF s.fn % 2 = 1 \/ s.fn = s.sn
         THEN LET up == IF s.fn % 2 = 0 THEN Ascend(s.fn, s.sn) ELSE <<s.fn, s.sn>>
              IN [r |-> nodeHash(hash, s.r), fn |-> up[1] \div 2, sn |-> up[2] \div 2]
         ELSE [r |-> nodeHash(s.r, hash), fn |-> s.fn \div 2, sn |-> s.sn \div 2]

\* The climb after each hash of the path.
Climb(leaf, index, size, path) ==
    LET s[i \in 0..Len(path)] ==
            IF i = 0 THEN [r |-> leaf, fn |-> index, sn |-> size - 1]
            ELSE Take(s[i - 1], path[i])
    IN s

\* Slip: the climb may end below the root.
rootPartly(leaf, index, size, path) ==
    IF index >= size THEN null ELSE Climb(leaf, index, size, path)[Len(path)].r

rootFromInclusion(leaf, index, size, path) ==
    LET end == Climb(leaf, index, size, path)[Len(path)]
    IN IF index >= size \/ end.sn # 0 THEN null ELSE end.r

\* Whether a claim is accepted for a root, and for an artifact if one is given.
verifyMerkleInclusion(mi, anchored, artifact) ==
    /\ artifact # None => mi.leaf = artifact
    /\ rootFromInclusion(leafHash(mi.leaf), mi.index, mi.tree_size, mi.path) = anchored

\* Slip: the last node of a level is hashed although it has no sibling.
LevelLast(s, path) ==
    IF s.sn = 0 \/ s.r = throws THEN s
    ELSE IF s.used = Len(path) THEN [s EXCEPT !.r = throws]
    ELSE [r |-> IF s.fn % 2 = 1 THEN nodeHash(path[s.used + 1], s.r)
                ELSE nodeHash(s.r, path[s.used + 1]),
          fn |-> s.fn \div 2, sn |-> s.sn \div 2, used |-> s.used + 1]

\* Slip: the sibling of a right-hand node is put on its right.
LevelTurned(s, path) ==
    LET hashed == s.fn % 2 = 1 \/ s.fn < s.sn
    IN IF s.sn = 0 \/ s.r = throws THEN s
       ELSE IF ~hashed THEN [s EXCEPT !.fn = s.fn \div 2, !.sn = s.sn \div 2]
       ELSE IF s.used = Len(path) THEN [s EXCEPT !.r = throws]
       ELSE [r |-> nodeHash(s.r, path[s.used + 1]),
             fn |-> s.fn \div 2, sn |-> s.sn \div 2, used |-> s.used + 1]

\* One level of sigsum.mjs's verifyInclusion; an element that the path does not
\* have is hashed, which throws.
Level(s, path) ==
    LET hashed == s.fn % 2 = 1 \/ s.fn < s.sn
    IN IF s.sn = 0 \/ s.r = throws THEN s
       ELSE IF ~hashed THEN [s EXCEPT !.fn = s.fn \div 2, !.sn = s.sn \div 2]
       ELSE IF s.used = Len(path) THEN [s EXCEPT !.r = throws]
       ELSE [r |-> IF s.fn % 2 = 1 THEN nodeHash(path[s.used + 1], s.r)
                   ELSE nodeHash(s.r, path[s.used + 1]),
             fn |-> s.fn \div 2, sn |-> s.sn \div 2, used |-> s.used + 1]

\* Its loop, which ends before it has gone round as often as there are leaves.
SigsumClimb(leaf, index, size, path) ==
    LET s[i \in 0..size] ==
            IF i = 0 THEN [r |-> leaf, fn |-> index, sn |-> size - 1, used |-> 0]
            ELSE Level(s[i - 1], path)
    IN s

\* The root it compares with.
sigsumRoot(leaf, index, size, path) ==
    SigsumClimb(leaf, index, size, path)[size].r

-----------------------------------------------------------------------------
(* A batch is built, and a claim about it verified. *)

VARIABLES
    digests,    \* the hashes of the batch, or none yet
    batch,      \* what buildMerkleBatch returned for them
    claim,      \* the merkle_inclusion under verification
    artifact,   \* the artifact hash it was verified for, if any
    accepted    \* what verifyMerkleInclusion said

vars == <<digests, batch, claim, artifact, accepted>>

\* All batches of few different digests, some of them repeated, and large ones.
Batches ==
    LET few == UNION {[1..n -> {Digest(i) : i \in 1..Digests}] : n \in 2..Small}
    IN few \cup {[i \in 1..n |-> Digest(i)] : n \in 2..Large}

\* The hashes in the tree: all but the root are siblings of others.
Hashes == {batch.root} \cup UNION {Range(e.path) : e \in Range(batch.entries)}

\* The claims about a small batch that are made of its own hashes, with a path
\* that may be too short or too long by one, an index and a size beyond it.
Tampered ==
    LET n == Len(digests)
        paths == UNION {[1..k -> Hashes] : k \in 0..3}
    IN IF n > Small THEN {}
       ELSE [leaf : {Digest(i) : i \in 1..Digests + 1} \cup Hashes,
             index : 0..n, tree_size : 1..n + 1, path : paths]

\* The claims of every index, size and length, with hashes of no tree.
Shapes ==
    IF digests # <<Digest(1), Digest(2)>> THEN {}
    ELSE {[leaf |-> Digest(0), index |-> m, tree_size |-> n,
           path |-> [i \in 1..k |-> Digest(i)]]
             : m \in 0..Large, n \in 1..Large, k \in 0..LongPath}

Init ==
    /\ digests = <<>> /\ batch = None
    /\ claim = None /\ artifact = None /\ accepted = FALSE

Build ==
    /\ digests = <<>>
    /\ digests' \in Batches
    /\ batch' = buildMerkleBatch(digests')
    /\ UNCHANGED <<claim, artifact, accepted>>

Verify ==
    /\ digests # <<>> /\ claim = None
    /\ claim' \in Range(batch.entries) \cup Tampered \cup Shapes
    /\ artifact' \in {None, claim'.leaf, digests[1]}
    /\ accepted' = verifyMerkleInclusion(claim', batch.root, artifact')
    /\ UNCHANGED <<digests, batch>>

Next == Build \/ Verify

Spec == Init /\ [][Next]_vars

-----------------------------------------------------------------------------
(* Properties. *)

\* Every entry of a batch is accepted under the root, for its own digest: the
\* builder, which splits at powers of two, and the verifier, which climbs by the
\* bits of the index, agree on every batch.
EveryEntryVerifies ==
    digests # <<>> =>
        \A i \in DOMAIN digests :
            verifyMerkleInclusion(batch.entries[i], batch.root, digests[i])

\* Whatever is claimed, only a digest of the batch is accepted under its root,
\* never a hash from inside the tree; and with the batch's own size only at the
\* place where it is, by the path that was built for it.
OnlyMembersVerify ==
    accepted =>
        /\ claim.leaf \in Range(digests)
        /\ artifact \in {None, claim.leaf}
        /\ claim.tree_size = Len(digests) =>
              batch.entries[claim.index + 1] = claim

\* RFC 6962's definition of a tree, read from the root: the root of n leaves of
\* which leaf is the one at m, where the hashes of the path after the first
\* "below" and up to j are its siblings, is that of a half and of hash j.
Rebuild(leaf, below, size, path) ==
    LET root[n \in 1..size] ==
            IF n = 1
            THEN [m \in {0} |-> [j \in below..Len(path) |->
                     IF j = below THEN leaf ELSE null]]
            ELSE LET k == Split(n)
                 IN [m \in 0..n - 1 |-> [j \in below..Len(path) |->
                        LET half == IF m < k THEN root[k][m][j - 1]
                                    ELSE root[n - k][m - k][j - 1]
                        IN IF j = below \/ half = null THEN null
                           ELSE IF m < k THEN nodeHash(half, path[j])
                           ELSE nodeHash(path[j], half)]]
    IN root

definedRoot(leaf, index, size, path) ==
    Rebuild(leaf, 0, size, path)[size][index][Len(path)]

\* The arithmetic on index and size that climbs from the leaf computes what
\* the definition computes from the root, and refuses any path of another
\* length and any index outside the tree.
ClimbIsTheDefinition ==
    claim # None =>
        rootFromInclusion(claim.leaf, claim.index, claim.tree_size, claim.path) =
            IF claim.index >= claim.tree_size THEN null
            ELSE definedRoot(claim.leaf, claim.index, claim.tree_size, claim.path)

\* One first part of the path leads to a root, the one that sigsum.mjs compares.
SameRoot(leaf, index, size, path) ==
    LET Root(k) == rootFromInclusion(leaf, index, size, SubSeq(path, 1, k))
        taken == {k \in 0..Len(path) : Root(k) # null}
        sigsum == sigsumRoot(leaf, index, size, path)
    IN IF taken = {} THEN sigsum = throws
       ELSE \E k \in taken : taken = {k} /\ sigsum = Root(k)

\* The two verifiers of the repository agree on every proof that merkle.mjs,
\* and RFC 9162, take: sigsum.mjs compares the same root.
VerifiersAgree ==
    claim # None =>
        LET root == rootFromInclusion(claim.leaf, claim.index,
                                      claim.tree_size, claim.path)
        IN root # null =>
               sigsumRoot(claim.leaf, claim.index, claim.tree_size, claim.path) = root

\* The loop of sigsum.mjs looks at so many of an index's last bits.
Round(size) == IF size = 1 THEN 1 ELSE 2 * Split(size)

\* An index past the tree is taken for that of the last leaf if it has its bits.
Place(index, size) == IF index % Round(size) = size - 1 THEN size - 1 ELSE index

\* What sigsum.mjs takes beyond them, which RFC 9162 refuses though the comment
\* on its verifier claims that algorithm (sigsum.mjs 114-115): it compares the
\* root of the first part of the path that leads to one, with hashes left over,
\* and runs out of path only where none does; and an index past the tree that
\* ends in the bits of the last leaf's is as good as that leaf's own.
SigsumTakesMore ==
    claim # None =>
        LET place == Place(claim.index, claim.tree_size)
        IN place < claim.tree_size =>
               /\ SameRoot(claim.leaf, place, claim.tree_size, claim.path)
               /\ sigsumRoot(claim.leaf, claim.index, claim.tree_size, claim.path) =
                      sigsumRoot(claim.leaf, place, claim.tree_size, claim.path)
=============================================================================
