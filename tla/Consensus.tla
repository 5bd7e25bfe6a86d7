------------------------------ MODULE Consensus ------------------------------
(***************************************************************************)
(* ConsensusEngine.run_consensus (consensus_simulation.py): every node     *)
(* verifies the contract's provenance, executes it on a runtime core of    *)
(* its own and attests the hash of the result; the engine checks the       *)
(* attestations and counts hashes against a threshold.                     *)
(* The threshold is a fraction, ThresholdNum over ThresholdDen, and        *)
(* compared exactly, where the code uses floating-point numbers.  Of these *)
(* the quotient it compares is rounded as the threshold is, and says the   *)
(* same; the product under ceil() may come out above a whole number, and   *)
(* quorum_size one too high: not for a threshold of up to three decimals   *)
(* and fewer than 25 nodes, where the engines of this code have three.     *)
(***************************************************************************)
EXTENDS Integers, FiniteSets, Sequences, FiniteSetsExt

CONSTANTS
    Nodes,                        \* the engine's nodes
    NodeOrder,                    \* the same, in the order of its list
    ThresholdNum, ThresholdDen,   \* config.CONSENSUS_QUORUM_THRESHOLD
    Rounds                        \* bound: calls of run_consensus

\* config.validate: 0.5 < threshold <= 1
ASSUME ConsensusAssumption ==
    /\ IsFiniteSet(Nodes) /\ Nodes # {}
    /\ NodeOrder \in Seq(Nodes)
    /\ {NodeOrder[i] : i \in DOMAIN NodeOrder} = Nodes /\ Len(NodeOrder) = Cardinality(Nodes)
    /\ ThresholdNum \in Nat /\ ThresholdDen \in Nat \ {0}
    /\ 2 * ThresholdNum > ThresholdDen /\ ThresholdNum <= ThresholdDen
    /\ Rounds \in Nat

None     == "none"
NoHash   == "empty"           \* the agreement hash of a failed provenance check
Honest   == "honest"          \* the runtime hash of an execution
Faulty   == "faulty"          \* the hash an injected fault puts in its place
Hashes   == {Honest, Faulty}
Statuses == {"OK", "EXECUTION_HALT", "PROVENANCE_FAILURE"}

Attestation == [hash : Hashes \cup {NoHash}, status : Statuses, signed : BOOLEAN]

\* A contract as the nodes meet it: sound, halted by the runtime, or not verified.
Kinds == {"sound", "halting", "tampered"}

VARIABLES
    kind, faulty, missing,   \* the arguments of the call: contract, simulate_faulty, simulate_missing
    place,                   \* the place in NodeOrder the loop has reached
    attestations,            \* of the nodes that took part so far
    proof,                   \* what the call returns
    rounds                   \* calls so far (bounded by Rounds)

consensusVars == <<kind, faulty, missing, place, attestations, proof, rounds>>

NoProof == [reached |-> FALSE, final |-> None, support |-> 0, quorum |-> 0,
            participating |-> {}, disagreements |-> [n \in {} |-> None]]

ConsensusInit ==
    /\ kind = None /\ faulty = None /\ missing = None
    /\ place = 0 /\ attestations = [n \in {} |-> None] /\ proof = NoProof /\ rounds = 0

-----------------------------------------------------------------------------
(* Counting.                                                               *)

\* ceil(len(nodes) * threshold)
QuorumSize == (Cardinality(Nodes) * ThresholdNum + ThresholdDen - 1) \div ThresholdDen

\* Mutant: the contract is executed without its provenance being looked at.
ProcessUnchecked(k) ==
    [hash |-> Honest, status |-> IF k = "halting" THEN "EXECUTION_HALT" ELSE "OK", signed |-> TRUE]

\* A node's attestation of its run; an empty hash is signed like any other.
Process(k) ==
    CASE k = "sound"    -> [hash |-> Honest, status |-> "OK", signed |-> TRUE]
      [] k = "halting"  -> [hash |-> Honest, status |-> "EXECUTION_HALT", signed |-> TRUE]
      [] k = "tampered" -> [hash |-> NoHash, status |-> "PROVENANCE_FAILURE", signed |-> TRUE]

\* An injected fault signs another hash and keeps the status.
Corrupt(att) == [att EXCEPT !.hash = Faulty]

Verified(att) == {n \in DOMAIN att : att[n].signed}

Counted(att) == {n \in Verified(att) : att[n].hash # NoHash /\ att[n].status # "PROVENANCE_FAILURE"}

Supporters(att, h) == {n \in Counted(att) : att[n].hash = h}
Support(att, h)    == Cardinality(Supporters(att, h))

\* Mutant: a simple majority is enough.
SimpleMajority(count, all) == 2 * count > all

\* agreement_percentage >= threshold, the percentage being one of all nodes
MeetsThreshold(count, all) == count * ThresholdDen >= ThresholdNum * all

\* max(hash_counts, key=...) takes the hash met first among the most frequent ones.
FirstPlace(att, h) == Min({i \in DOMAIN NodeOrder : NodeOrder[i] \in Supporters(att, h)})

IsMajority(att, h) ==
    /\ Supporters(att, h) # {}
    /\ \A g \in Hashes \ {h} :
          \/ Support(att, g) < Support(att, h)
          \/ Support(att, g) = Support(att, h) /\ FirstPlace(att, h) < FirstPlace(att, g)

Reason(a) == IF a.status # "OK" THEN a.status ELSE "DIVERGENT_HASH"

\* Mutant: only a status other than OK makes a dissenter.
DisagreementsByStatus(att, absent, major) ==
    LET off == {n \in Verified(att) : att[n].status # "OK"}
    IN [n \in absent \cup off |-> IF n \in absent THEN "MISSING_PARTICIPANT" ELSE att[n].status]

\* Who is reported as disagreeing: the missing, the unverified, and those off the majority
\* (everyone, by status, when no hash was counted).
Disagreements(att, absent, major) ==
    LET invalid == DOMAIN att \ Verified(att)
        off     == {n \in Verified(att) : att[n].hash # major}
    IN [n \in absent \cup invalid \cup off |->
           IF n \in absent THEN "MISSING_PARTICIPANT"
           ELSE IF n \in invalid THEN "ATTESTATION_SIGNATURE_INVALID"
           ELSE IF major = None THEN att[n].status ELSE Reason(att[n])]

Majority(att) == IF Counted(att) = {} THEN None ELSE CHOOSE h \in Hashes : IsMajority(att, h)

Reached(att) == /\ Majority(att) # None
                /\ MeetsThreshold(Support(att, Majority(att)), Cardinality(Nodes))

Verdict(att, absent) ==
    [reached |-> Reached(att),
     final   |-> IF DOMAIN att = {} THEN NoHash ELSE IF Reached(att) THEN Majority(att) ELSE "NO_CONSENSUS",
     support |-> Support(att, Majority(att)), quorum |-> QuorumSize, participating |-> DOMAIN att,
     disagreements |-> Disagreements(att, absent, Majority(att))]

-----------------------------------------------------------------------------
(* One call: the loop over the nodes, then the count.                      *)

Call(k, f, m) ==
    /\ place = 0 /\ rounds < Rounds
    /\ kind' = k /\ faulty' = f /\ missing' = m
    /\ place' = 1 /\ attestations' = [n \in {} |-> None]
    /\ proof' = NoProof /\ rounds' = rounds + 1

Node == NodeOrder[place]

Extend(n, a) == [x \in DOMAIN attestations \cup {n} |-> IF x = n THEN a ELSE attestations[x]]

\* Mutant: the node marked missing is asked all the same.
NobodyMissing ==
    /\ place \in DOMAIN NodeOrder /\ place' = place + 1
    /\ attestations' = Extend(Node, IF Node = faulty THEN Corrupt(Process(kind)) ELSE Process(kind))
    /\ UNCHANGED <<kind, faulty, missing, proof, rounds>>

Vote ==
    /\ place \in DOMAIN NodeOrder /\ place' = place + 1
    /\ attestations' =
          IF Node = missing THEN attestations
          ELSE Extend(Node, IF Node = faulty THEN Corrupt(Process(kind)) ELSE Process(kind))
    /\ UNCHANGED <<kind, faulty, missing, proof, rounds>>

Conclude ==
    /\ place = Len(NodeOrder) + 1 /\ place' = 0
    /\ proof' = Verdict(attestations, {missing} \cap Nodes)
    /\ UNCHANGED <<kind, faulty, missing, attestations, rounds>>

ConsensusNext ==
    \/ \E k \in Kinds, f, m \in Nodes \cup {None} : Call(k, f, m)
    \/ Vote \/ Conclude

ConsensusSpec == ConsensusInit /\ [][ConsensusNext]_consensusVars /\ WF_consensusVars(Vote \/ Conclude)

-----------------------------------------------------------------------------
(* Properties.                                                             *)

Concluded == place = 0 /\ rounds > 0
Broken    == {faulty, missing} \cap Nodes

\* Every attestation is that of its node's run, or of the fault injected into it.
ConsensusTypeOK ==
    /\ kind \in Kinds \cup {None} /\ {faulty, missing} \subseteq Nodes \cup {None}
    /\ place \in 0..Len(NodeOrder) + 1 /\ rounds \in 0..Rounds
    /\ DOMAIN attestations \subseteq Nodes \ {missing}
    /\ \A n \in DOMAIN attestations :
          /\ attestations[n] \in Attestation
          /\ attestations[n] = IF n = faulty THEN Corrupt(Process(kind)) ELSE Process(kind)

\* An engine of two nodes or more never agrees on the hash of a faulty node, nor on anything
\* for a contract whose provenance failed, whichever nodes are faulty or missing.
NeverOnFaulty ==
    Cardinality(Nodes) > 1 /\ proof.reached => proof.final # Faulty /\ kind # "tampered"

\* A verified contract gets its consensus as long as the nodes that are neither faulty nor
\* missing make up quorum_size; "reached" and "quorum met" are the same thing.
QuorumDecides ==
    Concluded => /\ proof.reached <=> proof.support >= proof.quorum
                 /\ kind # "tampered" /\ Cardinality(Nodes \ Broken) >= QuorumSize
                       => proof.reached /\ proof.final = Honest

\* Once consensus is reached, the disagreements name exactly the nodes that do not stand
\* behind the final hash: each of them, the missing one included, and no supporter.
DissentersNamed ==
    Concluded /\ proof.reached =>
        DOMAIN proof.disagreements = Nodes \ Supporters(attestations, proof.final)
=============================================================================
