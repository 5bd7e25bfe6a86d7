------------------------------ MODULE AuditTrail ------------------------------
(***************************************************************************)
(* MerkleAuditTrail of audit_trail.py.  The tree is a sequence of levels,  *)
(* the leaves first; an odd level is padded with its last node.  append    *)
(* does not build it again: it takes the padding off, appends the leaf and *)
(* renews the path above it.  A hash is the record of what it is made of,  *)
(* so that equal hashes are hashes of equal things.                        *)
(*                                                                         *)
(* An entry's event stands for its type, node and event_hash, which the    *)
(* leaf covers; data is event_data, which it covers only by that hash.     *)
(* Interfere changes the list of entries behind the trail's back, as the   *)
(* tests and the demo do.                                                  *)
(***************************************************************************)
EXTENDS Integers, FiniteSets, Sequences, SequencesExt

CONSTANTS
    Events,        \* events appended
    MaxEntries,    \* bound: entries
    Interferences  \* bound: changes made behind the trail's back

ASSUME AuditAssumption == MaxEntries \in Nat /\ Interferences \in Nat

VARIABLES
    trail,         \* _entries
    tree,          \* _tree
    appended,      \* history: the entries as append made them
    interfered,    \* changes made so far
    miscounted     \* history: an append counted the leaves by a list of another length

auditVars == <<trail, tree, appended, interfered, miscounted>>

AuditEntries == [sequence : Nat, event : Events, data : Events]

\* leaf_hash
Leaf(e) == [sequence |-> e.sequence, event |-> e.event]

Leaves(list) == [i \in DOMAIN list |-> Leaf(list[i])]

AuditInit ==
    trail = <<>> /\ tree = <<>> /\ appended = <<>> /\ interfered = 0 /\ miscounted = FALSE

-----------------------------------------------------------------------------
(* The Merkle tree from its leaves.                                        *)

Parent(left, right) == [left |-> left, right |-> right]

Padded(level) == IF Len(level) % 2 = 1 THEN Append(level, Last(level)) ELSE level

Above(level) ==
    [k \in 1..(Len(Padded(level)) \div 2) |->
        Parent(Padded(level)[2 * k - 1], Padded(level)[2 * k])]

\* The level k of the tree, from level 0 of the leaves; every level but the last is padded.
Levels(leaves) ==
    LET level[k \in 0..Len(leaves)] == IF k = 0 THEN leaves ELSE Above(level[k - 1])
    IN  level

Height(leaves) ==
    CHOOSE k \in 0..Len(leaves) :
        Len(Levels(leaves)[k]) = 1 /\ \A j \in 0..(k - 1) : Len(Levels(leaves)[j]) > 1

BuildMerkleTree(leaves) ==
    IF leaves = <<>> THEN <<>>
    ELSE [k \in 1..(Height(leaves) + 1) |->
            IF k <= Height(leaves) THEN Padded(Levels(leaves)[k - 1])
            ELSE Levels(leaves)[k - 1]]

\* A level and a place in it give the sibling and its side.
Sibling(level, i) ==
    IF i % 2 = 0 THEN [side |-> "R", hash |-> Padded(level)[i + 2]]
                 ELSE [side |-> "L", hash |-> Padded(level)[i]]

\* The places, on n levels, above the leaf at index i, which counts from 0: idx // 2.
Halvings(i, n) ==
    LET place[k \in 1..n] == IF k = 1 THEN i ELSE place[k - 1] \div 2
    IN  place

\* A place beyond the leaves has an empty proof, which leads from the leaf to itself.
MerkleProof(t, i) ==
    [k \in 1..(IF i < Len(t[1]) THEN Len(t) - 1 ELSE 0) |-> Sibling(t[k], Halvings(i, Len(t))[k])]

Joined(hash, s) == IF s.side = "R" THEN Parent(hash, s.hash) ELSE Parent(s.hash, hash)

\* What the proof leads to from the leaf, step by step.
Climb(leaf, proof) ==
    LET hash[k \in 0..Len(proof)] == IF k = 0 THEN leaf ELSE Joined(hash[k - 1], proof[k])
    IN  hash

VerifyMerkleProof(leaf, proof, root) == Climb(leaf, proof)[Len(proof)] = root

-----------------------------------------------------------------------------
(* The update in place.                                                    *)

\* How many nodes of each level are no padding, of a tree with n leaves and h levels.
Counts(n, h) ==
    LET count[k \in 1..h] == IF k = 1 THEN n ELSE (count[k - 1] + 1) \div 2
    IN  count

Unpadded(t, n) ==
    LET count == Counts(n, Len(t))
    IN  [k \in DOMAIN t |->
            IF count[k] % 2 = 1 /\ Len(t[k]) > count[k] THEN Front(t[k]) ELSE t[k]]

LastParent(level) == Parent(level[Len(level) - 1], Last(level))

\* Level k, once level k - 1 is as it will be: the parent of that level's last pair is put
\* into its place, or appended if the pair is new.
Renewed(level, below) ==
    LET place == Len(below) \div 2
    IN  IF place <= Len(level) THEN ReplaceAt(level, place, LastParent(below))
        ELSE Append(level, LastParent(below))

\* The levels of t up to its top, with the leaf appended and the path above it renewed.
Renewals(t, n, leaf) ==
    LET old == Unpadded(t, n)
        level[k \in DOMAIN t] ==
            IF k = 1 THEN Append(old[1], leaf) ELSE Renewed(old[k], Padded(level[k - 1]))
    IN  level

\* _rebuild_tree, after an entry with this leaf became the (n + 1)-th of the list.  Where the
\* padding is follows from n, and not from the leaves there are.  A top level that now has
\* two nodes gets a root above it.
WithLeaf(t, n, leaf) ==
    LET level == Renewals(t, n, leaf)
        top   == level[Len(t)]
    IN  IF t = <<>> THEN << <<leaf>> >>
        ELSE [k \in 1..(IF Len(top) = 1 THEN Len(t) ELSE Len(t) + 1) |->
                IF k > Len(t) THEN <<LastParent(Padded(top))>>
                ELSE IF k = Len(t) /\ Len(top) = 1 THEN top ELSE Padded(level[k])]

-----------------------------------------------------------------------------
(* The operations.                                                         *)

\* append takes number and count from the list, whatever became of it.
AppendEvent(event) ==
    /\ Len(appended) < MaxEntries
    /\ LET e == [sequence |-> Len(trail), event |-> event, data |-> event]
       IN  /\ trail' = Append(trail, e) /\ appended' = Append(appended, e)
           /\ tree' = WithLeaf(tree, Len(trail), Leaf(e))
    /\ miscounted' = (miscounted \/ Len(trail) # Len(appended))
    /\ UNCHANGED interfered

RootHash == IF tree = <<>> THEN <<>> ELSE <<Last(tree)[1]>>

VerifyInclusion(e) ==
    /\ e.sequence + 1 \in DOMAIN trail
    /\ Leaf(trail[e.sequence + 1]) = Leaf(e)
    /\ VerifyMerkleProof(Leaf(e), MerkleProof(tree, e.sequence), RootHash[1])

Rebuilt == BuildMerkleTree(Leaves(trail))

\* Mutant: the walk takes the numbers as they are.
IntegrityByNumbers == \A i \in DOMAIN trail : trail[i].sequence = i - 1

\* The numbers are contiguous (and so without repetition), and the tree built anew from
\* the entries has the root.  An empty trail passes whatever the tree.
VerifyIntegrity ==
    trail = <<>> \/
    /\ \A i \in DOMAIN trail : trail[i].sequence = i - 1
    /\ <<Last(Rebuilt)[1]>> = RootHash

Interfere ==
    /\ interfered < Interferences /\ interfered' = interfered + 1
    /\ \/ \E i \in DOMAIN trail, event \in Events :
             trail' = [trail EXCEPT ![i].event = event]
       \/ \E i \in DOMAIN trail : trail' = RemoveAt(trail, i)
       \/ \E i, j \in DOMAIN trail :
             trail' = [trail EXCEPT ![i] = trail[j], ![j] = trail[i]]
       \/ \E i \in DOMAIN trail : trail' = Append(trail, trail[i])
    /\ UNCHANGED <<tree, appended, miscounted>>

AuditNext == (\E event \in Events : AppendEvent(event)) \/ Interfere

AuditSpec == AuditInit /\ [][AuditNext]_auditVars
-----------------------------------------------------------------------------
(* What the audit trail must guarantee.                                    *)

AuditTypeOK ==
    /\ trail \in Seq(AuditEntries) /\ appended \in Seq(AuditEntries)
    /\ DOMAIN tree = 1..Len(tree) /\ interfered \in 0..Interferences /\ miscounted \in BOOLEAN

\* The tree append keeps in place is the one a full rebuild would give, padding and all, at
\* every length, and with it the proof of every entry leads to the root.  And "Any future
\* tampering (edit, delete, reorder) changes the root" (audit_trail.py:151): once the covered
\* part of an entry, their order or their number differs from what was appended, the
\* integrity check fails - unless nothing is left of the trail.  This holds until an append
\* counts the leaves by a list that was made shorter or longer: of two events the second is
\* deleted, the next append takes its leaf out of the tree for padding (249), and the check
\* passes.  Even then nothing passes it, or is proved included, that append has not made.
TreeTellsTheTrail ==
    /\ interfered = 0 => tree = Rebuilt /\ \A i \in DOMAIN trail : VerifyInclusion(trail[i])
    /\ ~ miscounted /\ trail # <<>> => (VerifyIntegrity <=> trail = appended)
    /\ \A i \in DOMAIN trail :
          VerifyIntegrity \/ VerifyInclusion(trail[i]) => Leaf(trail[i]) \in Range(Leaves(appended))
=============================================================================
