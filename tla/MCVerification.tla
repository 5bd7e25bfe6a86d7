---------------------------- MODULE MCVerification ----------------------------
(* The parts that decide about one contract: they are explored one at a time,   *)
(* subject says which one a behaviour is about.                                 *)
(*   trust       contracts of two producers that share a key, one that changes  *)
(*               its key and one signed with another key than it comes with     *)
(*   consensus   five nodes: a faulty and a missing one leave three, which is a *)
(*               majority but not 66 per cent; one of them alone leaves four,   *)
(*               which is enough                                                *)
(*   nodes       three nodes whose layers may be set differently, two contracts *)
(*   harness     four requests, among them one that is sent again, one without  *)
(*               the fields of a contract, one of each halt, a producer that    *)
(*               changes its key, and revocations in between                    *)
EXTENDS Harness

VARIABLE subject

C(p, ty, k, s) == [producer |-> p, type |-> ty, key |-> k, signer |-> s]
MCContracts == { C("p1", "Q", "k1", "k1"), C("p1", "Q", "k2", "k2"), C("p1", "Q", "k2", "k1"),
                 C("p2", "Q", "k1", "k1") }

MCOrder == <<"n1", "n2", "n3", "n4", "n5">>

MCSimulated == <<"s1", "s2", "s3">>

G(trace, type, intact, confidence, version) ==
    [trace |-> trace, type |-> type, payload |-> "d", intact |-> intact,
     confidence |-> confidence, version |-> version]

MCPolicies == { [strict |-> TRUE, types |-> {"Q", "C"}, minimum |-> 2],
                [strict |-> FALSE, types |-> {"Q", "C"}, minimum |-> 2],
                [strict |-> TRUE, types |-> {"Q"}, minimum |-> 3],
                [strict |-> FALSE, types |-> {"Q", "X"}, minimum |-> 1] }

MCSubmitted == { G("x", "Q", TRUE, 9, 2), G("y", "C", TRUE, 5, 3), G("y", "X", TRUE, 9, 3),
                 G("x", "X", FALSE, 3, 1), G("y", "Q", TRUE, 3, 2), G("x", "Q", TRUE, 11, 1),
                 G("y", "Q", TRUE, 9, Malformed) }

R(trace, fresh, parses, p, key, signer, body) ==
    [trace |-> trace, fresh |-> fresh, parses |-> parses, producer |-> p, key |-> key,
     signer |-> signer, body |-> body]

MCRequests == { R("x", TRUE, TRUE, "p1", "k1", "k1", G("x", "Q", TRUE, 9, 2)),
                R("x", TRUE, TRUE, "p1", "k2", "k2", G("x", "Q", TRUE, 5, 2)),
                R("y", TRUE, TRUE, "p1", "k2", "k1", G("y", "Q", TRUE, 9, 2)),
                R("y", TRUE, TRUE, "p1", "k2", "k2", G("y", "Q", TRUE, 9, 2)),
                R("y", TRUE, FALSE, "p1", "k1", "k1", G("y", "Q", TRUE, 9, 2)),
                R("z", TRUE, TRUE, "p2", "k2", "k2", G("z", "Q", TRUE, 3, 2)),
                R("z", TRUE, TRUE, "p1", "k1", "k1", G("z", "C", TRUE, 9, 2)),
                R("z", FALSE, FALSE, "p2", "k1", "k1", G("z", "Q", TRUE, 9, 2)) }

verificationVars == <<subject, trustVars, consensusVars, governanceVars, harnessVars>>

VerificationInit ==
    /\ subject \in {"trust", "consensus", "nodes", "harness"}
    /\ TrustInit /\ ConsensusInit /\ GovernanceInit /\ HarnessInit
    /\ subject # "nodes" =>
          /\ \A n \in NodeIds : policy[n] = [strict |-> TRUE, types |-> {"Q", "C"}, minimum |-> 2]
          /\ \A i \in DOMAIN batch : batch[i] = G("x", "Q", TRUE, 9, 2)

VerificationNext ==
    /\ UNCHANGED subject
    /\ \/ subject = "trust" /\ TrustNext /\ UNCHANGED <<consensusVars, governanceVars, harnessVars>>
       \/ subject = "consensus" /\ ConsensusNext /\ UNCHANGED <<trustVars, governanceVars, harnessVars>>
       \/ subject = "nodes" /\ GovernanceNext /\ UNCHANGED <<trustVars, consensusVars, harnessVars>>
       \/ subject = "harness" /\ HarnessNext /\ UNCHANGED <<consensusVars, governanceVars>>

VerificationSpec == VerificationInit /\ [][VerificationNext]_verificationVars

\* Types of the four parts.  The harness's producers have types that the threads of the trust
\* registry do not use.
VerificationTypeOK ==
    /\ subject = "trust" => TrustTypeOK
    /\ ConsensusTypeOK /\ GovernanceTypeOK /\ HarnessTypeOK
=============================================================================
