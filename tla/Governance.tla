------------------------------ MODULE Governance ------------------------------
(***************************************************************************)
(* A contract's way through one node of the simulated network:             *)
(* GovernanceLayer.enforce (governance.py), RuntimeCore.execute            *)
(* (runtime_core.py), the validation both call (execution_contract.py) and *)
(* the node's ledger, a hash chain, with the run over all nodes            *)
(* (distributed_simulation.py).  Governance validates against its own      *)
(* settings, the core against those of config, whatever the layer's are.   *)
(*                                                                         *)
(* A confidence is a number of tenths, a version a number or Malformed;    *)
(* intact says that the payload is a non-empty dict with the hash the      *)
(* contract states and that trace id and timestamp are there.  Digests are *)
(* the values they are made of: a chain hash is the sequence of the        *)
(* entries since GENESIS.                                                  *)
(***************************************************************************)
EXTENDS Integers, Sequences, SequencesExt

CONSTANTS
    SimulatedNodes,        \* the nodes in the order of propagation
    Policies,              \* settings of a layer: strict, allowed types, minimum version
    Submitted,             \* contracts a run may be given
    BatchLength,           \* contracts of a run
    ConfigTypes,           \* config.ALLOWED_PRODUCER_TYPES
    ConfigMinimum,         \* config.MINIMUM_CONTRACT_VERSION
    Corruption, Confident, \* config.CORRUPTION_THRESHOLD, config.CONFIDENCE_THRESHOLD
    MaxViolations,         \* _MAX_VIOLATIONS
    Clears                 \* bound: calls of clear_violations

Malformed == -1

ASSUME GovernanceAssumption ==
    /\ \A p \in Policies : p.strict \in BOOLEAN /\ p.minimum \in Nat
    /\ \A c \in Submitted : c.intact \in BOOLEAN /\ c.confidence \in Int /\ c.version \in Int
    /\ ConfigMinimum \in Nat /\ Corruption \in 0..10 /\ Confident \in Corruption..10
    /\ SimulatedNodes \in Seq(Range(SimulatedNodes)) \ {<<>>} /\ IsInjective(SimulatedNodes)
    /\ BatchLength \in Nat \ {0} /\ MaxViolations \in Nat \ {0} /\ Clears \in Nat

VARIABLES
    policy,       \* the settings of each node's layer
    batch,        \* the contracts of the run
    processed,    \* calls of process so far
    ledgers,      \* each node's ledger
    violations,   \* each layer's _violations
    outcomes,     \* history: what enforce returned to each node
    found,        \* history: the violations each layer found since it was last cleared
    clears

governanceVars == <<policy, batch, processed, ledgers, violations, outcomes, found, clears>>

NodeIds == Range(SimulatedNodes)

-----------------------------------------------------------------------------
(* Validation and execution.                                               *)

Valid(c, types, minimum) ==
    /\ c.type \in types /\ c.intact /\ c.confidence \in 0..10
    /\ c.version # Malformed /\ c.version >= minimum

\* The runtime hash is a digest of the payload's hash, the confidence and the ack.
Result(c, ack) == [ack |-> ack, hash |-> <<c.payload, c.confidence, ack>>]

\* Mutant: the core relies on the validation of the layer above it.
ExecuteUnvalidated(c) ==
    Result(c, IF c.confidence < Corruption THEN "HALT:LOW_CONFIDENCE"
              ELSE IF c.confidence < Confident THEN "ACK:DEGRADED" ELSE "ACK:OK")

Execute(c) ==
    Result(c, IF ~ Valid(c, ConfigTypes, ConfigMinimum) THEN "HALT:INVALID_CONTRACT"
              ELSE IF c.confidence < Corruption THEN "HALT:LOW_CONFIDENCE"
              ELSE IF c.confidence < Confident THEN "ACK:DEGRADED" ELSE "ACK:OK")

-----------------------------------------------------------------------------
(* Governance.                                                             *)

If(condition, offence) == IF condition THEN <<offence>> ELSE <<>>

\* The policies in their order; a malformed version offends the second and the third.
Offences(p, c) ==
    If(c.type \notin p.types, "UNAUTHORIZED_PRODUCER")
    \o If(c.version = Malformed, "INVALID_CONTRACT")
    \o If(c.version # Malformed /\ c.version < p.minimum, "CONTRACT_DOWNGRADE")
    \o If(~ Valid(c, p.types, p.minimum), "INVALID_CONTRACT")

HaltAck == [UNAUTHORIZED_PRODUCER |-> "HALT:UNAUTHORIZED_PRODUCER",
            CONTRACT_DOWNGRADE |-> "HALT:CONTRACT_DOWNGRADE", INVALID_CONTRACT |-> "HALT:INVALID_CONTRACT"]

\* The halts of _halt never reach the core, and have no runtime hash.
Halt(offence) == [ack |-> HaltAck[offence], hash |-> <<"GOVERNANCE_HALT">>]

\* A strict layer halts at the first offence; a permissive one notes them all and goes on.
\* Low confidence is the core's decision and is noted after it.
Enforce(p, c) ==
    IF p.strict /\ Offences(p, c) # <<>>
    THEN [result |-> Halt(Offences(p, c)[1]), found |-> <<Offences(p, c)[1]>>]
    ELSE [result |-> Execute(c),
          found  |-> Offences(p, c) \o If(Execute(c).ack = "HALT:LOW_CONFIDENCE", "LOW_CONFIDENCE")]

\* deque(maxlen=...)
Newest(s) == IF Len(s) > MaxViolations THEN SubSeq(s, Len(s) - MaxViolations + 1, Len(s)) ELSE s

-----------------------------------------------------------------------------
(* The network.                                                            *)

GovernanceInit ==
    /\ policy \in [NodeIds -> Policies] /\ batch \in [1..BatchLength -> Submitted]
    /\ processed = 0 /\ clears = 0
    /\ ledgers = [n \in NodeIds |-> <<>>] /\ outcomes = [n \in NodeIds |-> <<>>]
    /\ violations = [n \in NodeIds |-> <<>>] /\ found = [n \in NodeIds |-> <<>>]

\* Mutant: an entry is a digest of its own contents alone.
EntryUnchained(ledger, c, r) ==
    << [trace |-> c.trace, payload |-> c.payload, hash |-> r.hash, ack |-> r.ack] >>

\* The hash of the entry that follows a ledger.
EntryHash(ledger, c, r) ==
    Append(IF ledger = <<>> THEN <<>> ELSE Last(ledger),
           [trace |-> c.trace, payload |-> c.payload, hash |-> r.hash, ack |-> r.ack])

\* The nodes one after another, for each contract.
NodeAt(i)     == SimulatedNodes[(i % Len(SimulatedNodes)) + 1]
ContractAt(i) == batch[(i \div Len(SimulatedNodes)) + 1]
Finished      == processed = BatchLength * Len(SimulatedNodes)

ProcessContract ==
    /\ ~ Finished /\ processed' = processed + 1
    /\ LET n == NodeAt(processed)
           c == ContractAt(processed)
           e == Enforce(policy[n], c)
           noted == [i \in DOMAIN e.found |-> [trace |-> c.trace, type |-> e.found[i]]]
       IN  /\ outcomes' = [outcomes EXCEPT ![n] = Append(@, e)]
           /\ ledgers' = [ledgers EXCEPT ![n] = Append(@, EntryHash(@, c, e.result))]
           /\ violations' = [violations EXCEPT ![n] = Newest(@ \o noted)]
           /\ found' = [found EXCEPT ![n] = @ \o noted]
    /\ UNCHANGED <<policy, batch, clears>>

ClearViolations(n) ==
    /\ violations[n] # <<>> /\ clears < Clears /\ clears' = clears + 1
    /\ violations' = [violations EXCEPT ![n] = <<>>] /\ found' = [found EXCEPT ![n] = <<>>]
    /\ UNCHANGED <<policy, batch, processed, ledgers, outcomes>>

GovernanceNext == ProcessContract \/ \E n \in NodeIds : ClearViolations(n)

GovernanceSpec == GovernanceInit /\ [][GovernanceNext]_governanceVars

\* What run() reports.
FinalHash(n)    == IF ledgers[n] = <<>> THEN <<>> ELSE Last(ledgers[n])
HashAgreement   == /\ \A m, n \in NodeIds : FinalHash(m) = FinalHash(n)
                   /\ \A n \in NodeIds : FinalHash(n) # <<>>
LedgerAgreement == \A m, n \in NodeIds : ledgers[m] = ledgers[n]
Passed          == HashAgreement /\ LedgerAgreement

-----------------------------------------------------------------------------
(* What the nodes must guarantee.                                          *)

GovernanceTypeOK ==
    /\ policy \in [NodeIds -> Policies] /\ batch \in [1..BatchLength -> Submitted]
    /\ processed \in 0..(BatchLength * Len(SimulatedNodes)) /\ clears \in 0..Clears
    /\ \A n \in NodeIds : Len(ledgers[n]) = Len(outcomes[n]) /\ Len(violations[n]) <= MaxViolations

Halted(e) == e.result.ack \notin {"ACK:OK", "ACK:DEGRADED"}

\* The layer admits nothing that config does not.
NoWider(p) == p.types \subseteq ConfigTypes /\ p.minimum >= ConfigMinimum

\* However a layer is set, no node acknowledges a contract that config forbids, and a strict
\* one none that its own settings forbid.  Unless they are wider than config's, a strict
\* layer notes a violation for every contract that is halted, and for no other, and its log
\* ends with the newest it noted; a permissive one notes at least those of the halted.
HaltsAreNoted ==
    \A n \in NodeIds :
        /\ \A i \in DOMAIN outcomes[n] :
              LET e == outcomes[n][i] IN
              /\ ~ Halted(e) =>
                    /\ Valid(batch[i], ConfigTypes, ConfigMinimum)
                    /\ policy[n].strict => Valid(batch[i], policy[n].types, policy[n].minimum)
              /\ NoWider(policy[n]) =>
                    /\ Halted(e) => e.found # <<>>
                    /\ policy[n].strict /\ e.found # <<>> => Halted(e)
        /\ IsSuffix(violations[n], found[n])
        /\ Len(violations[n]) = MaxViolations \/ violations[n] = found[n]

\* The last hashes of the ledgers, which are all hash_agreement compares, agree exactly when
\* every node came to the same result on every contract of the run, whatever the settings of
\* their layers; then the ledgers agree as a whole, so that passed says no more.
AgreementIsOnEveryResult ==
    Finished =>
        /\ HashAgreement <=> \A m, n \in NodeIds : \A i \in 1..BatchLength :
                                outcomes[m][i].result = outcomes[n][i].result
        /\ Passed <=> HashAgreement
=============================================================================
