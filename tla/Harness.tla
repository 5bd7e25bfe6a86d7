------------------------------- MODULE Harness -------------------------------
(***************************************************************************)
(* TANTRAIntegrationHarness (integration_harness.py) behind POST /verify   *)
(* of web_server.py: replay check, parsing, registration of a producer met *)
(* for the first time, trust, execution, consensus.  The endpoint is a     *)
(* coroutine without an await, so that one request is handled after the    *)
(* other and each is one step.  The trust registry is that of              *)
(* ProducerTrust, the vote that of Consensus among honest nodes, the core  *)
(* that of Governance without a layer above it.  The registry of trace ids *)
(* and the trust registry are new files of every process.                  *)
(***************************************************************************)
EXTENDS ProducerTrust, Consensus, Governance

CONSTANTS
    Requests,      \* what is posted: a trace id, its age, whether the payload has the fields of
                   \* a contract and no other, producer, key sent along, key that signed, contract
    MaxFlows       \* bound: requests handled

ASSUME HarnessAssumption ==
    /\ MaxFlows \in Nat
    /\ \A q \in Requests : /\ q.fresh \in BOOLEAN /\ q.parses \in BOOLEAN
                           /\ q.producer \in Producers /\ {q.key, q.signer} \subseteq Keys

VARIABLES
    seen,      \* trace ids the replay authority has accepted
    flows,     \* history: requests and responses, in order
    counted    \* processed_count and error_count

harnessVars == <<seen, flows, counted>>

HarnessInit == seen = {} /\ flows = <<>> /\ counted = [processed |-> 0, errors |-> 0]

\* verify_replay.  Over the TTL a message is STALE whether it is known or not.
ReplayStatus(q) ==
    IF ~ q.fresh THEN "STALE" ELSE IF q.trace \in seen THEN "DUPLICATE" ELSE "VALID"

\* verify of ProducerVerificationLayer, on a registry that holds the producer with a key and types.
Trusted(q, entry) ==
    ~ IsRevoked(entry.key) /\ entry.key = q.signer /\ q.body.type \in entry.types

Entered(q) == [key |-> q.key, types |-> {q.body.type}]

\* Mutant: the key sent along is entered for every request.
RegisteredAnew(q) == IF IsRevoked(q.key) THEN NoEntry ELSE Entered(q)

\* The producer's entry; NoEntry stands for register's ValueError.
RegisteredOrMet(q) ==
    IF IsRegistered(q.producer) THEN registry[q.producer]
    ELSE IF IsRevoked(q.key) THEN NoEntry ELSE Entered(q)

\* run_consensus checks the provenance under the key sent along, and not the one registered.
Agreed(q) == Reached([n \in Nodes |-> Process(IF q.key = q.signer THEN "sound" ELSE "tampered")])

\* The response: its flow_status, and how far the flow came.  saved: the file of the trace
\* ids could be written; if not, the exception is the answer, with the id in memory.
Flow(q, entry, saved) ==
    LET reply(status, stage) == [status |-> status, stage |-> stage, agreed |-> FALSE]
    IN  IF ReplayStatus(q) # "VALID" THEN reply("HALTED", "replay")
        ELSE IF ~ saved THEN reply("ERROR", "replay")
        ELSE IF ~ q.parses THEN reply("HALTED", "contract")
        ELSE IF entry = NoEntry THEN reply("ERROR", "registration")
        ELSE IF ~ Trusted(q, entry) THEN reply("HALTED", "trust")
        ELSE IF Execute(q.body).ack \notin {"ACK:OK", "ACK:DEGRADED"} THEN reply("HALTED", "execution")
        ELSE [status |-> "COMPLETED", stage |-> "consensus", agreed |-> Agreed(q)]

\* process_incoming_contract.  What the consensus said is reported and not looked at.
ProcessIncoming(q) ==
    /\ Len(flows) < MaxFlows
    /\ \E saved \in BOOLEAN :
       LET entry == RegisteredOrMet(q)
           flow  == Flow(q, entry, saved)
       IN  /\ seen' = IF ReplayStatus(q) = "VALID" THEN seen \cup {q.trace} ELSE seen
           /\ registry' = IF flow.stage \in {"trust", "execution", "consensus"}
                          THEN [registry EXCEPT ![q.producer] = entry] ELSE registry
           /\ flows' = Append(flows, [request |-> q, replay |-> ReplayStatus(q), revoked |-> revoked,
                                      status |-> flow.status, agreed |-> flow.agreed])
           /\ counted' = [processed |-> counted.processed + 1,
                          errors |-> counted.errors + (IF flow.status = "COMPLETED" THEN 0 ELSE 1)]
    /\ file' = [file EXCEPT !.registry = registry']
    /\ UNCHANGED <<revoked, callVars, lost, admin, faults>>

\* revoke_key on the harness's trust registry.
RevokeAtHarness(k) == Revoke(k) /\ ~ lost' /\ UNCHANGED harnessVars

HarnessNext ==
    \/ \E q \in Requests : ProcessIncoming(q)
    \/ \E k \in Keys : RevokeAtHarness(k)

HarnessSpec == TrustInit /\ HarnessInit /\ [][HarnessNext]_<<trustVars, harnessVars>>

-----------------------------------------------------------------------------
(* What the harness must guarantee.                                        *)

HarnessTypeOK ==
    /\ counted \in [processed : 0..MaxFlows, errors : 0..MaxFlows]
    /\ \A i \in DOMAIN flows : /\ flows[i].request \in Requests /\ flows[i].revoked \subseteq Keys
                               /\ flows[i].status \in {"HALTED", "ERROR", "COMPLETED"}

Completed == {i \in DOMAIN flows : flows[i].status = "COMPLETED"}

\* A flow completes at most once for a trace id, and only as the first fresh request with it:
\* a request that was refused after the replay check, or whose id could not be written to
\* the file, leaves the id used.  It completes with a signature of the producer's key, which
\* is the one it came with at first: two flows of a producer complete with different keys
\* only if the first key was revoked in between, and none completes with a revoked one.
\* Whether the nodes agreed is said in the response, and they did exactly if the request came
\* with the key that signed it.  The counters of /health add up.
CompletedIsEarned ==
    /\ \A i \in Completed :
          LET q == flows[i].request IN
          /\ flows[i].replay = "VALID"
          /\ \A j \in 1..(i - 1) : ~ (flows[j].request.trace = q.trace /\ flows[j].request.fresh)
          /\ q.signer \notin flows[i].revoked
          /\ flows[i].agreed <=> q.key = q.signer
          /\ \A j \in Completed : j < i /\ flows[j].request.producer = q.producer =>
                \/ flows[j].request.signer = q.signer
                \/ flows[j].request.signer \in flows[i].revoked
    /\ counted = [processed |-> Len(flows), errors |-> Len(flows) - Cardinality(Completed)]
=============================================================================
