--------------------------- MODULE ConsensusProofs ---------------------------
(***************************************************************************)
(* Theorems about the consensus engine, for any number of nodes and any    *)
(* threshold config.validate admits.                                       *)
(***************************************************************************)
EXTENDS Consensus, FiniteSetTheorems, TLAPS

N == Cardinality(Nodes)

LEMMA NodesCounted == N \in Nat \ {0}
<1>1. N \in Nat /\ (N = 0 <=> Nodes = {})
  BY FS_CardinalityType, FS_EmptySet, ConsensusAssumption DEF N
<1> QED  BY <1>1, ConsensusAssumption

-----------------------------------------------------------------------------
(* Arithmetic of the threshold.                                            *)

\* Rounding up: c reaches the ceiling of a / d exactly if c * d reaches a.
LEMMA Ceiling ==
  ASSUME NEW a \in Nat, NEW d \in Nat \ {0}, NEW c \in Nat
  PROVE  c >= (a + d - 1) \div d <=> c * d >= a
<1> DEFINE q == (a + d - 1) \div d
<1>1. q \in Int /\ q * d <= a + d - 1 /\ a + d - 1 < q * d + d
  OBVIOUS
<1>2. CASE c >= q
  <2>1. c * d >= q * d  BY <1>1, <1>2
  <2> QED  BY <1>1, <1>2, <2>1
<1>3. CASE c < q
  <2>1. c <= q - 1  BY <1>1, <1>3
  <2>2. c * d <= (q - 1) * d  BY <1>1, <2>1
  <2>3. (q - 1) * d = q * d - d  BY <1>1
  <2> QED  BY <1>1, <1>3, <2>2, <2>3
<1> QED  BY <1>1, <1>2, <1>3

\* quorum_size, reported with every proof, is the number of supporters that makes a hash
\* final (145 and 226 of consensus_simulation.py say the same, one rounding up, one dividing).
THEOREM QuorumIsThreshold ==
  \A c \in Nat : c >= QuorumSize <=> MeetsThreshold(c, Cardinality(Nodes))
<1> SUFFICES ASSUME NEW c \in Nat
             PROVE  c >= QuorumSize <=> MeetsThreshold(c, Cardinality(Nodes))
  OBVIOUS
<1>1. N * ThresholdNum \in Nat /\ ThresholdDen \in Nat \ {0} /\ ThresholdNum \in Nat
  BY NodesCounted, ConsensusAssumption
<1>2. c >= (N * ThresholdNum + ThresholdDen - 1) \div ThresholdDen
        <=> c * ThresholdDen >= N * ThresholdNum
  BY <1>1, Ceiling
<1>3. N * ThresholdNum = ThresholdNum * N  BY <1>1, NodesCounted
<1> QED  BY <1>2, <1>3 DEF QuorumSize, MeetsThreshold, N

\* Two counts that both meet the threshold add up to more than there are nodes.
LEMMA TwoQuorums ==
  ASSUME NEW c \in Nat, NEW e \in Nat, MeetsThreshold(c, N), MeetsThreshold(e, N)
  PROVE  c + e > N
<1>1. N \in Nat \ {0} /\ ThresholdNum \in Nat /\ ThresholdDen \in Nat \ {0}
      /\ 2 * ThresholdNum > ThresholdDen
  BY NodesCounted, ConsensusAssumption
<1>2. c * ThresholdDen + e * ThresholdDen >= 2 * ThresholdNum * N
  BY <1>1 DEF MeetsThreshold
<1>3. 2 * ThresholdNum * N > ThresholdDen * N
  BY <1>1
<1>4. (c + e) * ThresholdDen = c * ThresholdDen + e * ThresholdDen
  BY <1>1
<1>5. (c + e) * ThresholdDen > N * ThresholdDen
  BY <1>1, <1>2, <1>3, <1>4
<1> QED  BY <1>1, <1>5

-----------------------------------------------------------------------------
(* Supporters.                                                             *)

LEMMA SupportersFinite ==
  ASSUME NEW att, DOMAIN att \subseteq Nodes, NEW h
  PROVE  /\ Supporters(att, h) \subseteq Nodes
         /\ IsFiniteSet(Supporters(att, h)) /\ Support(att, h) \in Nat
<1>1. Supporters(att, h) \subseteq Nodes
  BY DEF Supporters, Counted, Verified
<1>2. IsFiniteSet(Supporters(att, h))
  BY <1>1, FS_Subset, ConsensusAssumption
<1> QED  BY <1>1, <1>2, FS_CardinalityType DEF Support

\* Whatever the nodes attest, at most one hash can become final.
THEOREM UniqueAgreement ==
  ASSUME NEW att, DOMAIN att \subseteq Nodes, NEW g, NEW h,
         MeetsThreshold(Support(att, g), N), MeetsThreshold(Support(att, h), N)
  PROVE  g = h
<1> SUFFICES ASSUME g # h PROVE FALSE  OBVIOUS
<1> DEFINE G == Supporters(att, g)
           H == Supporters(att, h)
<1>1. /\ G \subseteq Nodes /\ IsFiniteSet(G) /\ Support(att, g) \in Nat
      /\ H \subseteq Nodes /\ IsFiniteSet(H) /\ Support(att, h) \in Nat
  BY SupportersFinite
<1>2. G \cap H = {}
  BY DEF Supporters
<1>3. Cardinality(G \cup H) = Support(att, g) + Support(att, h)
  <2>1. Cardinality(G \cup H) = Cardinality(G) + Cardinality(H) - Cardinality(G \cap H)
    BY <1>1, FS_Union
  <2>2. Cardinality(G \cap H) = 0
    BY <1>2, FS_EmptySet
  <2>3. Cardinality(G) = Support(att, g) /\ Cardinality(H) = Support(att, h)
    BY DEF Support
  <2> QED  BY <1>1, <2>1, <2>2, <2>3
<1>4. Cardinality(G \cup H) <= N
  BY <1>1, FS_Subset, ConsensusAssumption DEF N
<1>5. Support(att, g) + Support(att, h) > N
  BY <1>1, TwoQuorums
<1> QED  BY <1>1, <1>3, <1>4, <1>5, NodesCounted

-----------------------------------------------------------------------------
(* The call.                                                               *)

LEMMA ProcessType ==
  ASSUME NEW k \in Kinds
  PROVE  Process(k) \in Attestation /\ Corrupt(Process(k)) \in Attestation
  BY DEF Kinds, Process, Corrupt, Attestation, Hashes, Statuses

\* The loop has reached the nodes before its place, and asked those that are not missing;
\* a call under way has its arguments.
LoopOK ==
  /\ ConsensusTypeOK
  /\ place > 0 => kind \in Kinds
  /\ DOMAIN attestations \subseteq Nodes
  /\ place > 0 => DOMAIN attestations = {NodeOrder[i] : i \in 1..place - 1} \ {missing}

LEMMA OrderRange == /\ Len(NodeOrder) \in Nat /\ DOMAIN NodeOrder = 1..Len(NodeOrder)
                    /\ \A i \in DOMAIN NodeOrder : NodeOrder[i] \in Nodes
  BY ConsensusAssumption

LEMMA LoopInit == ConsensusInit => LoopOK
  BY OrderRange, ConsensusAssumption DEF ConsensusInit, LoopOK, ConsensusTypeOK

LEMMA LoopNext == LoopOK /\ [ConsensusNext]_consensusVars => LoopOK'
<1> SUFFICES ASSUME LoopOK, [ConsensusNext]_consensusVars PROVE LoopOK'
  OBVIOUS
<1> USE OrderRange DEF LoopOK, ConsensusTypeOK
<1>1. ASSUME NEW k \in Kinds, NEW f \in Nodes \cup {None}, NEW m \in Nodes \cup {None}, Call(k, f, m)
      PROVE  LoopOK'
  BY <1>1, ConsensusAssumption DEF Call
<1>2. CASE Vote
  <2>1. place \in 1..Len(NodeOrder) /\ place' = place + 1 /\ Node \in Nodes /\ kind \in Kinds
    BY <1>2 DEF Vote, Node
  <2>2. UNCHANGED <<kind, faulty, missing, proof, rounds>>
    BY <1>2 DEF Vote
  <2>3. 1..place' - 1 = (1..place - 1) \cup {place}
    BY <2>1
  <2>4. {NodeOrder[i] : i \in 1..place' - 1} = {NodeOrder[i] : i \in 1..place - 1} \cup {Node}
    BY <2>1, <2>3 DEF Node
  <2>5. place > 0 /\ place' > 0 /\ place' \in 0..Len(NodeOrder) + 1
    BY <2>1
  <2>6. CASE Node = missing
    <3>1. attestations' = attestations  BY <1>2, <2>6 DEF Vote
    <3>2. DOMAIN attestations' = {NodeOrder[i] : i \in 1..place' - 1} \ {missing'}
      BY <2>2, <2>4, <2>5, <2>6, <3>1
    <3> QED  BY <2>1, <2>2, <2>5, <3>1, <3>2
  <2>7. CASE Node # missing
    <3> DEFINE a == IF Node = faulty THEN Corrupt(Process(kind)) ELSE Process(kind)
    <3>1. attestations' = Extend(Node, a)  BY <1>2, <2>7 DEF Vote
    <3>2. a \in Attestation  BY <2>1, ProcessType
    <3> HIDE DEF a
    <3>3. /\ DOMAIN attestations' = DOMAIN attestations \cup {Node}
          /\ \A n \in DOMAIN attestations' :
                attestations'[n] = IF n = Node THEN a ELSE attestations[n]
      BY <3>1 DEF Extend
    <3>4. \A n \in DOMAIN attestations' :
             /\ attestations'[n] \in Attestation
             /\ attestations'[n] = IF n = faulty THEN Corrupt(Process(kind)) ELSE Process(kind)
      BY <3>2, <3>3 DEF a
    <3>5. \A n \in DOMAIN attestations' :
             /\ attestations'[n] \in Attestation
             /\ attestations'[n] = IF n = faulty' THEN Corrupt(Process(kind')) ELSE Process(kind')
      BY <2>2, <3>4 DEF Process, Corrupt
    <3>6. DOMAIN attestations' \subseteq Nodes \ {missing'}
      BY <2>1, <2>2, <2>7, <3>3
    <3>7. DOMAIN attestations' = {NodeOrder[i] : i \in 1..place' - 1} \ {missing'}
      <4>1. DOMAIN attestations = {NodeOrder[i] : i \in 1..place - 1} \ {missing}
        BY <2>5
      <4> QED  BY <4>1, <2>2, <2>4, <2>7, <3>3
    <3>8. ConsensusTypeOK'
      BY <2>1, <2>2, <2>5, <3>5, <3>6
    <3> QED  BY <2>1, <2>2, <3>6, <3>7, <3>8
  <2> QED  BY <2>6, <2>7
<1>3. CASE Conclude
  BY <1>3 DEF Conclude
<1>4. CASE UNCHANGED consensusVars
  BY <1>4 DEF consensusVars
<1> QED  BY <1>1, <1>2, <1>3, <1>4 DEF ConsensusNext

LEMMA LoopInvariant == ConsensusSpec => []LoopOK
  BY LoopInit, LoopNext, PTL DEF ConsensusSpec

\* Attestations are those of the nodes' own runs, in every call.
THEOREM ConsensusTypeCorrect == ConsensusSpec => []ConsensusTypeOK
<1>1. LoopOK => ConsensusTypeOK  BY DEF LoopOK
<1> QED  BY <1>1, LoopInvariant, PTL

-----------------------------------------------------------------------------
(* What the count decides.                                                 *)

\* A lone supporter is no quorum among two nodes or more.
LEMMA OneIsTooFew ==
  ASSUME N > 1, NEW c \in Nat, c <= 1
  PROVE  ~MeetsThreshold(c, N)
<1>1. N \in Nat /\ ThresholdNum \in Nat /\ ThresholdDen \in Nat \ {0}
      /\ 2 * ThresholdNum > ThresholdDen
  BY NodesCounted, ConsensusAssumption
<1>2. c * ThresholdDen <= ThresholdDen
  <2>1. c = 0 \/ c = 1  OBVIOUS
  <2> QED  BY <1>1, <2>1
<1>3. ThresholdNum * N >= ThresholdNum * 2
  BY <1>1
<1> QED  BY <1>1, <1>2, <1>3 DEF MeetsThreshold

\* The attestations of a loop that may have ended: those of a call's kind and faults.
Attested(att, k, f) ==
  /\ DOMAIN att \subseteq Nodes
  /\ \A n \in DOMAIN att : att[n] = IF n = f THEN Corrupt(Process(k)) ELSE Process(k)

LEMMA ProcessFields ==
  ASSUME NEW k \in Kinds
  PROVE  /\ Process(k).signed /\ Corrupt(Process(k)).signed
         /\ Process(k).hash = (IF k = "tampered" THEN NoHash ELSE Honest)
         /\ Corrupt(Process(k)).hash = Faulty
         /\ Corrupt(Process(k)).status = Process(k).status
         /\ Process(k).status = "PROVENANCE_FAILURE" <=> k = "tampered"
<1>1. CASE k = "sound"     BY <1>1 DEF Process, Corrupt
<1>2. CASE k = "halting"   BY <1>2 DEF Process, Corrupt
<1>3. CASE k = "tampered"  BY <1>3 DEF Process, Corrupt
<1> QED  BY <1>1, <1>2, <1>3 DEF Kinds

\* Which attestations count: all of them, or none if the provenance failed.
LEMMA CountedAre ==
  ASSUME NEW k \in Kinds, NEW f, NEW att, Attested(att, k, f)
  PROVE  /\ Verified(att) = DOMAIN att
         /\ Counted(att) = IF k = "tampered" THEN {} ELSE DOMAIN att
         /\ Supporters(att, Faulty) \subseteq {f}
         /\ k # "tampered" => Supporters(att, Honest) = DOMAIN att \ {f}
<1>1. \A n \in DOMAIN att :
         /\ att[n].signed
         /\ att[n].hash = (IF n = f THEN Faulty ELSE IF k = "tampered" THEN NoHash ELSE Honest)
         /\ att[n].status = "PROVENANCE_FAILURE" <=> k = "tampered"
  BY ProcessFields DEF Attested
<1>2. NoHash # Honest /\ NoHash # Faulty /\ Honest # Faulty
  BY DEF NoHash, Honest, Faulty
<1>3. Verified(att) = DOMAIN att
  BY <1>1 DEF Verified
<1>4. Counted(att) = IF k = "tampered" THEN {} ELSE DOMAIN att
  BY <1>1, <1>2, <1>3 DEF Counted
<1> QED  BY <1>1, <1>2, <1>3, <1>4 DEF Supporters

LEMMA LoopAttests == LoopOK /\ place > 0 => Attested(attestations, kind, faulty) /\ kind \in Kinds
  BY DEF LoopOK, ConsensusTypeOK, Attested

\* One node's hash never becomes final, and without provenance none does.
LEMMA ReachedIsHonest ==
  ASSUME NEW k \in Kinds, NEW f, NEW att, Attested(att, k, f), Reached(att), N > 1
  PROVE  Majority(att) # Faulty /\ k # "tampered"
<1>1. k # "tampered"
  BY CountedAre DEF Reached, Majority
<1>2. ASSUME Majority(att) = Faulty PROVE FALSE
  <2>1. MeetsThreshold(Support(att, Faulty), N)
    BY <1>2 DEF Reached, N
  <2>2. Cardinality(Supporters(att, Faulty)) <= Cardinality({f}) /\ Cardinality({f}) = 1
    BY CountedAre, FS_Subset, FS_Singleton
  <2>3. Support(att, Faulty) \in Nat
    BY SupportersFinite DEF Attested
  <2> QED  BY <2>1, <2>2, <2>3, OneIsTooFew DEF Support
<1> QED  BY <1>1, <1>2

\* The invariant of the calls: a proof is there only between calls.
CallOK == LoopOK /\ (place > 0 => proof = NoProof)

LEMMA CallInvariant == ConsensusSpec => []CallOK
<1>1. ConsensusInit => (place > 0 => proof = NoProof)
  BY DEF ConsensusInit
<1>2. LoopOK /\ (place > 0 => proof = NoProof) /\ [ConsensusNext]_consensusVars
        => (place > 0 => proof = NoProof)'
  BY OrderRange DEF ConsensusNext, Call, Vote, Conclude, consensusVars, LoopOK, ConsensusTypeOK
<1> QED  BY <1>1, <1>2, LoopInvariant, PTL DEF ConsensusSpec, CallOK

\* No contract gets a consensus on a faulty node's hash, and none whose provenance failed.
THEOREM NeverOnFaultyHolds == ConsensusSpec => []NeverOnFaulty
<1>1. ConsensusInit => NeverOnFaulty
  BY DEF ConsensusInit, NeverOnFaulty, NoProof
<1>2. ASSUME CallOK, NeverOnFaulty, [ConsensusNext]_consensusVars
      PROVE  NeverOnFaulty'
  <2>1. ASSUME NEW k \in Kinds, NEW f \in Nodes \cup {None}, NEW m \in Nodes \cup {None},
               Call(k, f, m)
        PROVE  NeverOnFaulty'
    BY <2>1 DEF Call, NeverOnFaulty, NoProof
  <2>2. CASE Vote
    BY <1>2, <2>2 DEF Vote, NeverOnFaulty
  <2>3. CASE Conclude
    <3>1. place > 0 /\ kind' = kind /\ proof' = Verdict(attestations, {missing} \cap Nodes)
      BY <2>3, OrderRange DEF Conclude
    <3>2. Attested(attestations, kind, faulty) /\ kind \in Kinds
      BY <1>2, <3>1, LoopAttests DEF CallOK
    <3> SUFFICES ASSUME N > 1, proof'.reached
                 PROVE  proof'.final # Faulty /\ kind # "tampered"
      BY <3>1 DEF NeverOnFaulty, N
    <3>3. Reached(attestations)
      BY <3>1 DEF Verdict
    <3>4. Majority(attestations) # Faulty /\ kind # "tampered"
      BY <3>2, <3>3, ReachedIsHonest
    <3>5. proof'.final \in {NoHash, Majority(attestations)}
      BY <3>1, <3>3 DEF Verdict
    <3> QED  BY <3>4, <3>5 DEF NoHash, Faulty
  <2>4. CASE UNCHANGED consensusVars
    BY <1>2, <2>4 DEF consensusVars, NeverOnFaulty
  <2> QED  BY <1>2, <2>1, <2>2, <2>3, <2>4 DEF ConsensusNext
<1> QED  BY <1>1, <1>2, CallInvariant, PTL DEF ConsensusSpec

-----------------------------------------------------------------------------
(* The verdict of a finished loop.                                         *)

LEMMA CallFinished ==
  LoopOK /\ place = Len(NodeOrder) + 1 => DOMAIN attestations = Nodes \ {missing}
<1> SUFFICES ASSUME LoopOK, place = Len(NodeOrder) + 1
             PROVE  DOMAIN attestations = Nodes \ {missing}
  OBVIOUS
<1>1. place > 0 /\ 1..place - 1 = DOMAIN NodeOrder
  BY OrderRange
<1> QED  BY <1>1, ConsensusAssumption DEF LoopOK

LEMMA FinalOfReached ==
  ASSUME NEW att, Reached(att), NEW absent
  PROVE  /\ Verdict(att, absent).final = Majority(att)
         /\ Majority(att) # None /\ Counted(att) # {}
<1>1. Majority(att) # None /\ Counted(att) # {}
  BY DEF Reached, Majority
<1>2. DOMAIN att # {}
  BY <1>1 DEF Counted, Verified
<1> QED  BY <1>1, <1>2 DEF Verdict

LEMMA QuorumPositive == QuorumSize \in Nat /\ QuorumSize > 0
<1>1. QuorumSize \in Int
  BY NodesCounted, ConsensusAssumption DEF QuorumSize, N
<1>2. ThresholdNum * N > 0 /\ 0 * ThresholdDen = 0
  BY NodesCounted, ConsensusAssumption
<1>3. ~MeetsThreshold(0, Cardinality(Nodes))
  BY <1>2, NodesCounted, ConsensusAssumption DEF MeetsThreshold, N
<1> QED  BY <1>1, <1>3, QuorumIsThreshold

\* "Reached" is "as many supporters as quorum_size".
LEMMA ReachedByQuorum ==
  ASSUME NEW k \in Kinds, NEW f, NEW att, Attested(att, k, f)
  PROVE  Reached(att) <=> Support(att, Majority(att)) >= QuorumSize
<1>1. Support(att, Majority(att)) \in Nat
  BY SupportersFinite DEF Attested
<1>2. Support(att, Majority(att)) >= QuorumSize
        <=> MeetsThreshold(Support(att, Majority(att)), Cardinality(Nodes))
  BY <1>1, QuorumIsThreshold
<1>3. ASSUME Majority(att) = None
      PROVE  ~(Support(att, Majority(att)) >= QuorumSize)
  <2>1. \A n \in DOMAIN att : att[n].hash # None
    <3>1. None \notin {Honest, Faulty, NoHash}
      BY DEF None, Honest, Faulty, NoHash
    <3>2. \A n \in DOMAIN att : att[n].hash \in {Honest, Faulty, NoHash}
      BY ProcessFields DEF Attested
    <3> QED  BY <3>1, <3>2
  <2>2. Supporters(att, None) = {}
    BY <2>1 DEF Supporters, Counted, Verified
  <2>3. Support(att, Majority(att)) = 0
    BY <1>3, <2>2, FS_EmptySet DEF Support
  <2> QED  BY <2>3, QuorumPositive
<1> QED  BY <1>2, <1>3 DEF Reached

\* Nodes that execute alike carry their hash, if they are a quorum.
LEMMA HonestMajority ==
  ASSUME NEW k \in Kinds, k # "tampered", NEW f, NEW m, NEW att, Attested(att, k, f),
         DOMAIN att = Nodes \ {m}, Cardinality(Nodes \ {f, m}) >= QuorumSize
  PROVE  Majority(att) = Honest /\ Reached(att)
<1>1. /\ Supporters(att, Honest) = Nodes \ {f, m}
      /\ Support(att, Honest) \in Nat /\ Support(att, Faulty) \in Nat
  BY CountedAre, SupportersFinite
<1>2. Support(att, Honest) >= QuorumSize /\ MeetsThreshold(Support(att, Honest), N)
  BY <1>1, QuorumIsThreshold DEF Support, N
<1>3. Supporters(att, Honest) # {}
  BY <1>1, <1>2, QuorumPositive, FS_EmptySet DEF Support
<1>4. Counted(att) # {}
  BY <1>3 DEF Supporters
<1>5. Honest # Faulty /\ Hashes = {Honest, Faulty} /\ Honest # None
  BY DEF Honest, Faulty, Hashes, None
<1>6. Support(att, Faulty) < Support(att, Honest)
  <2> SUFFICES ASSUME Support(att, Faulty) >= Support(att, Honest) PROVE FALSE
    BY <1>1
  <2>1. Support(att, Faulty) * ThresholdDen >= Support(att, Honest) * ThresholdDen
    BY <1>1, ConsensusAssumption
  <2>2. /\ Support(att, Faulty) * ThresholdDen \in Nat
        /\ Support(att, Honest) * ThresholdDen \in Nat /\ ThresholdNum * N \in Nat
    BY <1>1, ConsensusAssumption, NodesCounted
  <2>3. MeetsThreshold(Support(att, Faulty), N)
    BY <1>2, <2>1, <2>2 DEF MeetsThreshold
  <2> QED  BY <1>2, <1>5, <2>3, UniqueAgreement DEF Attested
<1>7. IsMajority(att, Honest) /\ ~IsMajority(att, Faulty)
  BY <1>1, <1>3, <1>5, <1>6 DEF IsMajority
<1>8. Majority(att) = Honest
  BY <1>4, <1>5, <1>7 DEF Majority
<1> QED  BY <1>2, <1>5, <1>8 DEF Reached, N

\* Everyone not behind the final hash is named among the disagreements, and nobody else.
LEMMA Dissenters ==
  ASSUME NEW k \in Kinds, NEW f, NEW m, NEW att, Attested(att, k, f),
         DOMAIN att = Nodes \ {m}, Reached(att)
  PROVE  DOMAIN Verdict(att, {m} \cap Nodes).disagreements
           = Nodes \ Supporters(att, Verdict(att, {m} \cap Nodes).final)
<1>1. Verified(att) = DOMAIN att /\ Counted(att) = DOMAIN att
  BY FinalOfReached, CountedAre
<1>2. Supporters(att, Majority(att)) = {n \in DOMAIN att : att[n].hash = Majority(att)}
  BY <1>1 DEF Supporters
<1>3. DOMAIN Disagreements(att, {m} \cap Nodes, Majority(att))
        = ({m} \cap Nodes) \cup (DOMAIN att \ Verified(att))
            \cup {n \in Verified(att) : att[n].hash # Majority(att)}
  BY DEF Disagreements
<1>4. @ = Nodes \ Supporters(att, Majority(att))
  BY <1>1, <1>2
<1>5. Verdict(att, {m} \cap Nodes).final = Majority(att)
  BY FinalOfReached
<1> QED  BY <1>3, <1>4, <1>5 DEF Verdict

\* The two judgements of a finished call, together.
Judged == QuorumDecides /\ DissentersNamed

LEMMA JudgedHolds == ConsensusSpec => []Judged
<1>1. ConsensusInit => Judged
  BY DEF ConsensusInit, Judged, QuorumDecides, DissentersNamed, Concluded
<1>2. ASSUME CallOK, Judged, [ConsensusNext]_consensusVars
      PROVE  Judged'
  <2>1. ASSUME NEW k \in Kinds, NEW f \in Nodes \cup {None}, NEW m \in Nodes \cup {None},
               Call(k, f, m)
        PROVE  Judged'
    BY <2>1 DEF Call, Judged, QuorumDecides, DissentersNamed, Concluded
  <2>2. CASE Vote
    <3>1. place' > 0
      BY <2>2, OrderRange DEF Vote
    <3> QED  BY <3>1 DEF Judged, QuorumDecides, DissentersNamed, Concluded
  <2>3. CASE Conclude
    <3>1. /\ place > 0 /\ place = Len(NodeOrder) + 1
          /\ UNCHANGED <<kind, faulty, missing, attestations>>
          /\ proof' = Verdict(attestations, {missing} \cap Nodes)
      BY <2>3, OrderRange DEF Conclude
    <3>2. /\ Attested(attestations, kind, faulty) /\ kind \in Kinds
          /\ DOMAIN attestations = Nodes \ {missing}
      BY <1>2, <3>1, LoopAttests, CallFinished DEF CallOK
    <3>3. /\ proof'.reached = Reached(attestations) /\ proof'.quorum = QuorumSize
          /\ proof'.support = Support(attestations, Majority(attestations))
      BY <3>1 DEF Verdict
    <3>4. proof'.reached <=> proof'.support >= proof'.quorum
      BY <3>2, <3>3, ReachedByQuorum
    <3>5. kind # "tampered" /\ Cardinality(Nodes \ Broken) >= QuorumSize
            => proof'.reached /\ proof'.final = Honest
      <4> SUFFICES ASSUME kind # "tampered", Cardinality(Nodes \ Broken) >= QuorumSize
                   PROVE  proof'.reached /\ proof'.final = Honest
        OBVIOUS
      <4>1. Nodes \ Broken = Nodes \ {faulty, missing}
        BY DEF Broken
      <4>2. Majority(attestations) = Honest /\ Reached(attestations)
        BY <3>2, <4>1, HonestMajority
      <4> QED  BY <3>1, <3>3, <4>2, FinalOfReached
    <3>6. QuorumDecides'
      BY <3>1, <3>4, <3>5 DEF QuorumDecides, Broken
    <3>7. proof'.reached =>
            DOMAIN proof'.disagreements = Nodes \ Supporters(attestations, proof'.final)
      BY <3>1, <3>2, <3>3, Dissenters
    <3>8. DissentersNamed'
      BY <3>1, <3>7 DEF DissentersNamed
    <3> QED  BY <3>6, <3>8 DEF Judged
  <2>4. CASE UNCHANGED consensusVars
    BY <1>2, <2>4 DEF consensusVars, Judged, QuorumDecides, DissentersNamed, Concluded, Broken
  <2> QED  BY <1>2, <2>1, <2>2, <2>3, <2>4 DEF ConsensusNext
<1> QED  BY <1>1, <1>2, CallInvariant, PTL DEF ConsensusSpec

\* Consensus is reached exactly with quorum_size supporters, and always when as many nodes
\* are neither faulty nor missing and the provenance holds.
THEOREM QuorumDecidesHolds == ConsensusSpec => []QuorumDecides
<1>1. Judged => QuorumDecides  BY DEF Judged
<1> QED  BY <1>1, JudgedHolds, PTL

\* The disagreements of a proof that reached consensus are all the nodes but its supporters.
THEOREM DissentersNamedHolds == ConsensusSpec => []DissentersNamed
<1>1. Judged => DissentersNamed  BY DEF Judged
<1> QED  BY <1>1, JudgedHolds, PTL
=============================================================================
