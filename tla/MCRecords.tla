------------------------------- MODULE MCRecords -------------------------------
(* The parts that keep, in memory, what happened to the contracts.  They do not *)
(* share state, so each is explored on its own: subject says which of them a    *)
(* behaviour is about, and the others stay as they began.                       *)
(*   enforcer      room for two of three artifacts, so that the limit evicts    *)
(*                 one that has not expired; two threads race for the lock      *)
(*   traces        room for two of three entries, two recorders and a reader    *)
(*   transport     two connections of one receiver, which may be restarted; a   *)
(*                 breaker that opens at the second failure                     *)
(*   capabilities  two services, one of which comes back at another endpoint    *)
(*   audit         six entries, a tree of four levels, and one interference,    *)
(*                 with appends behind it; the tree alone is compared for up to *)
(*                 eighteen leaves                                              *)
(*   ledger        three records, one alteration                                *)
(*   custody       the four nodes of the demo in trust_chain.py                 *)
EXTENDS ReplayEnforcer, TraceStore, SocketTransport, CapabilityRegistry, AuditTrail,
        EvidenceLedger, Custody

VARIABLE subject

Cap(id, name, endpoint, valid) == [id |-> id, name |-> name, endpoint |-> endpoint, valid |-> valid]

MCCapabilities == {Cap("i1", "TRUST", "e1", TRUE), Cap("i1", "TRUST", "e2", TRUE),
                   Cap("i2", "REPLAY", "e3", TRUE), Cap("i2", "REPLAY", "e4", FALSE)}

MCRoute == <<"producer", "gateway", "execution", "consensus">>

\* The tree of n leaves, grown leaf by leaf.
Grown[n \in 0..18] ==
    IF n = 0 THEN <<>> ELSE WithLeaf(Grown[n - 1], n - 1, [sequence |-> n - 1, event |-> "e"])

ASSUME TreeGrowsAsBuilt ==
    \A n \in 0..18 :
        Grown[n] = BuildMerkleTree([i \in 1..n |-> [sequence |-> i - 1, event |-> "e"]])

enforcerRest == <<traceVars, socketVars, capabilityVars, auditVars, ledgerVars, custodyVars>>
recordsVars  == <<subject, enforcerVars, enforcerRest>>

RecordsInit ==
    /\ subject \in {"enforcer", "traces", "transport", "capabilities", "audit", "ledger", "custody"}
    /\ EnforcerInit /\ TraceInit /\ SocketInit /\ CapabilityInit /\ AuditInit /\ LedgerInit
    /\ CustodyInit
    /\ subject # "transport" => type = "tcp"
    /\ subject # "custody" => contract.payload = "p"

RecordsNext ==
    /\ UNCHANGED subject
    /\ \/ /\ subject = "enforcer" /\ EnforcerNext /\ UNCHANGED enforcerRest
       \/ /\ UNCHANGED enforcerVars
          /\ \/ /\ subject = "traces" /\ TraceNext
                /\ UNCHANGED <<socketVars, capabilityVars, auditVars, ledgerVars, custodyVars>>
             \/ /\ subject = "transport" /\ SocketNext
                /\ UNCHANGED <<traceVars, capabilityVars, auditVars, ledgerVars, custodyVars>>
             \/ /\ subject = "capabilities" /\ CapabilityNext
                /\ UNCHANGED <<traceVars, socketVars, auditVars, ledgerVars, custodyVars>>
             \/ /\ subject = "audit" /\ AuditNext
                /\ UNCHANGED <<traceVars, socketVars, capabilityVars, ledgerVars, custodyVars>>
             \/ /\ subject = "ledger" /\ LedgerNext
                /\ UNCHANGED <<traceVars, socketVars, capabilityVars, auditVars, custodyVars>>
             \/ /\ subject = "custody" /\ CustodyNext
                /\ UNCHANGED <<traceVars, socketVars, capabilityVars, auditVars, ledgerVars>>

RecordsSpec == RecordsInit /\ [][RecordsNext]_recordsVars

\* Types of the seven parts.
RecordsTypeOK ==
    /\ EnforcerTypeOK /\ TraceTypeOK /\ SocketTypeOK /\ CapabilityTypeOK
    /\ AuditTypeOK /\ LedgerTypeOK /\ CustodyTypeOK
=============================================================================
