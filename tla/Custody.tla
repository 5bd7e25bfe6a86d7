-------------------------------- MODULE Custody --------------------------------
(***************************************************************************)
(* The signed records of one contract: provenance.py signs it, trust_chain *)
(* signs its handoffs, replay_bundle gathers them under the gateway's      *)
(* signature, in the order of process_participant of                       *)
(* ecosystem_participation.py.  A signature is a record of the key and of  *)
(* what was signed (node_identity.py), so that it verifies for nothing     *)
(* else.  A NodeSigner makes a new key when it is made, and register       *)
(* overwrites: Rekey is a node that starts again.  AlterRecord changes a   *)
(* stored field or takes a signature out of the contract; the objects are  *)
(* mutable, or are made anew from their dicts.                             *)
(***************************************************************************)
EXTENDS Integers, FiniteSets, Sequences, SequencesExt

CONSTANTS
    Payloads,       \* payloads, each standing for its hash
    Route,          \* the nodes a contract passes: producer, gateway, execution node
    Rekeys,         \* bound: nodes that start again
    Changes         \* bound: stored fields that are changed

Nobody == ""         \* the producer_id of a contract that was not signed

ASSUME CustodyAssumption ==
    /\ Route \in Seq(STRING) /\ Len(Route) >= 2 /\ IsInjective(Route)
    /\ Nobody \notin {Route[i] : i \in 1..Len(Route)}
    /\ Rekeys \in Nat /\ Changes \in Nat

VARIABLES
    keys,        \* the key of each node's NodeSigner
    nodes,       \* NodeRegistry: node -> registered key, 0 when it is not registered
    contract,    \* the contract with its two signatures
    original,    \* history: the contract as sign_contract made it
    links,       \* the TrustChain
    bundle,      \* the ReplayBundle
    assembled,   \* history: the bundle as it was signed
    report,      \* its verification_status
    handed,      \* history: every handoff that was signed
    stage,       \* where process_participant is
    changes      \* fields changed so far

custodyVars == <<keys, nodes, contract, original, links, bundle, assembled, report,
                 handed, stage, changes>>

RouteNodes == Range(Route)
Producer   == Route[1]
Gateway    == Route[2]

Signature(key, content) == [key |-> key, of |-> content]
NoSignature             == Signature(0, <<>>)
Verifies(sig, key, content) == key # 0 /\ sig = Signature(key, content)

\* id is the producer_id; note stands for every field but it, the payload, its hash and the
\* signatures.
NewContract(p) == [payload |-> p, note |-> "first", id |-> Nobody, producer |-> NoSignature,
                   contract |-> NoSignature]
NoBundle == [payload |-> "none", producer |-> NoSignature, consensus |-> FALSE,
             links |-> <<>>, signature |-> NoSignature]

CustodyInit ==
    /\ keys = [n \in RouteNodes |-> 1] /\ nodes = [n \in RouteNodes |-> 0]
    /\ \E p \in Payloads : contract = NewContract(p) /\ original = contract
    /\ links = <<>> /\ handed = {} /\ bundle = NoBundle
    /\ assembled = NoBundle /\ report = "UNVERIFIED"
    /\ stage = "register" /\ changes = 0

-----------------------------------------------------------------------------
(* The contract.                                                           *)

\* Every field but the timestamp and the second signature itself.
ContractState(c) == <<c.payload, c.note, c.id, c.producer>>

\* sign_contract: the payload hash first, and then everything with that signature in it.
SignContract(c, key) ==
    LET signed == [c EXCEPT !.id = Producer, !.producer = Signature(key, <<c.payload>>)]
    IN  [signed EXCEPT !.contract = Signature(key, ContractState(signed))]

\* A contract that lacks one of the three is not told from one that was never signed.
Provenance(c, key) ==
    IF c.producer = NoSignature \/ c.contract = NoSignature \/ c.id = Nobody THEN "UNVERIFIED"
    ELSE IF /\ Verifies(c.producer, key, <<c.payload>>)
            /\ Verifies(c.contract, key, ContractState(c)) THEN "VERIFIED"
    ELSE "TAMPERED"

-----------------------------------------------------------------------------
(* The chain of custody.                                                   *)

Handoff(from, to, p) ==
    [from |-> from, to |-> to, payload |-> p,
     signature |-> Signature(keys[from], <<from, to, p>>)]

\* Mutant: the walk looks at the signatures and not at the nodes in between.
ChainLinksVerify ==
    \A i \in DOMAIN links :
        Verifies(links[i].signature, nodes[links[i].from],
                 <<links[i].from, links[i].to, links[i].payload>>)

Contiguous(chain) == \A i \in 2..Len(chain) : chain[i - 1].to = chain[i].from

\* verify_chain.  An unregistered sender is an error; so is a signature by another key than
\* the one registered now.
CustodyVerifies ==
    /\ \A i \in DOMAIN links :
          Verifies(links[i].signature, nodes[links[i].from],
                   <<links[i].from, links[i].to, links[i].payload>>)
    /\ Contiguous(links)

-----------------------------------------------------------------------------
(* The bundle.                                                             *)

\* Mutant: the trust chain is a later field, and is not among those the gateway signs.
SignableWithoutChain(b) == <<b.payload, b.producer, b.consensus>>

\* _signable_state: all but the signature itself and the outcome of the verification.
SignableState(b) == <<b.payload, b.producer, b.consensus, b.links>>

\* verify, in its order; an absent audit root or chain is SKIPPED, which passes.
VerifyBundle(b, gatewayKey, producerKey) ==
    /\ Verifies(b.signature, gatewayKey, SignableState(b))
    /\ Verifies(b.producer, producerKey, <<b.payload>>)
    /\ b.consensus
    /\ Contiguous(b.links)

-----------------------------------------------------------------------------
(* process_participant.                                                    *)

RegisterNode(n) ==
    /\ nodes[n] # keys[n] /\ nodes' = [nodes EXCEPT ![n] = keys[n]]
    /\ UNCHANGED <<keys, contract, original, links, bundle, assembled, report, handed, stage, changes>>

Rekey(n) ==
    /\ keys[n] <= Rekeys /\ stage # "register"
    /\ keys' = [keys EXCEPT ![n] = @ + 1]
    /\ UNCHANGED <<nodes, contract, original, links, bundle, assembled, report, handed, stage, changes>>

Sign ==
    /\ stage = "register" /\ nodes[Producer] # 0 /\ stage' = "handoff"
    /\ contract' = SignContract(contract, keys[Producer]) /\ original' = contract'
    /\ UNCHANGED <<keys, nodes, links, bundle, assembled, report, handed, changes>>

\* add_handoff: producer to gateway, gateway to execution node.
AddHandoff ==
    /\ stage = "handoff" /\ Cardinality(handed) < Len(Route) - 1
    /\ LET i    == Cardinality(handed) + 1
           link == Handoff(Route[i], Route[i + 1], contract.payload)
       IN  links' = Append(links, link) /\ handed' = handed \cup {link}
    /\ UNCHANGED <<keys, nodes, contract, original, bundle, assembled, report, stage, changes>>

\* The consensus may fail, and the chain too: the bundle is made and signed all the same.
MakeBundle ==
    /\ stage = "handoff" /\ Cardinality(handed) = Len(Route) - 1 /\ stage' = "bundle"
    /\ \E consensus \in BOOLEAN :
          LET b == [payload |-> contract.payload, producer |-> contract.producer,
                    consensus |-> consensus, links |-> links, signature |-> NoSignature]
          IN  bundle' = [b EXCEPT !.signature = Signature(keys[Gateway], SignableState(b))]
    /\ assembled' = bundle'
    /\ UNCHANGED <<keys, nodes, contract, original, links, report, handed, changes>>

\* verify() keeps its outcome in the bundle, where it stays when the bundle changes.
Verify ==
    /\ stage = "bundle"
    /\ report' = IF VerifyBundle(bundle, nodes[Gateway], nodes[Producer])
                 THEN "PASS" ELSE "FAIL"
    /\ UNCHANGED <<keys, nodes, contract, original, links, bundle, assembled, handed, stage, changes>>

AlterRecord ==
    /\ stage # "register" /\ changes < Changes /\ changes' = changes + 1
    /\ \/ \E p \in Payloads : contract' = [contract EXCEPT !.payload = p]
          /\ UNCHANGED <<links, bundle>>
       \/ /\ \/ contract' = [contract EXCEPT !.note = "second"]
             \/ contract' = [contract EXCEPT !.id = Nobody]
             \/ contract' = [contract EXCEPT !.producer = NoSignature]
             \/ contract' = [contract EXCEPT !.contract = NoSignature]
          /\ UNCHANGED <<links, bundle>>
       \/ \E i \in DOMAIN links :
             \/ links' = RemoveAt(links, i)
             \/ \E n \in RouteNodes : links' = [links EXCEPT ![i].to = n]
          /\ UNCHANGED <<contract, bundle>>
       \/ /\ stage = "bundle" /\ UNCHANGED <<contract, links>>
          /\ \/ \E p \in Payloads : bundle' = [bundle EXCEPT !.payload = p]
             \/ bundle' = [bundle EXCEPT !.consensus = TRUE]
             \/ \E i \in DOMAIN bundle.links :
                   bundle' = [bundle EXCEPT !.links = RemoveAt(bundle.links, i)]
    /\ UNCHANGED <<keys, nodes, original, assembled, report, handed, stage>>

CustodyNext ==
    \/ \E n \in RouteNodes : RegisterNode(n) \/ Rekey(n)
    \/ Sign \/ AddHandoff \/ MakeBundle \/ Verify \/ AlterRecord

CustodySpec == CustodyInit /\ [][CustodyNext]_custodyVars
-----------------------------------------------------------------------------
(* What the records must guarantee.                                        *)

CustodyTypeOK ==
    /\ keys \in [RouteNodes -> 1..(Rekeys + 1)] /\ nodes \in [RouteNodes -> 0..(Rekeys + 1)]
    /\ contract.payload \in Payloads /\ Len(links) <= Len(Route)
    /\ report \in {"UNVERIFIED", "PASS", "FAIL"} /\ changes \in 0..Changes
    /\ stage \in {"register", "handoff", "bundle"}

\* A chain that verifies is made of handoffs that their senders signed, with the keys they
\* are registered with now, and leads from node to node: the holders between its two ends
\* are the ones there were.  What was cut off at either end does not show.
CustodyWasHandedOn ==
    CustodyVerifies =>
        /\ Range(links) \subseteq handed
        /\ \A link \in Range(links) : link.signature.key = nodes[link.from]
        /\ \E i \in 1..Len(Route) : links # <<>> =>
              \A j \in DOMAIN links : links[j].from = Route[i + j - 1]

\* What verifies is what was signed.  A bundle verifies only as the gateway signed it: with
\* the payload its producer signed, a consensus that was reached and the chain as it was,
\* whatever was altered since; and a PASS that is kept in the bundle while its fields
\* change, or after a node has started again, was earned by the bundle as it was signed.
\* A contract is VERIFIED exactly as long as it is as it was signed, under the key it was
\* signed with: changed or stripped of a signature or of its producer, it is not.
VerifiedIsAsSigned ==
    /\ VerifyBundle(bundle, nodes[Gateway], nodes[Producer]) =>
          bundle = assembled /\ bundle.producer.of = <<bundle.payload>> /\ bundle.consensus
    /\ report = "PASS" => /\ assembled.producer.of = <<assembled.payload>>
                          /\ assembled.consensus /\ Contiguous(assembled.links)
    /\ Provenance(contract, nodes[Producer]) = "VERIFIED" <=>
          /\ stage # "register" /\ contract = original
          /\ nodes[Producer] = original.producer.key
=============================================================================
