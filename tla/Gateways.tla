------------------------------ MODULE Gateways ------------------------------
(***************************************************************************)
(* The two gateways in front of one CanonicalReplayAuthority:              *)
(* CommunicationGateway.send with its Receiver (gateway.py) and            *)
(* QuantumGateway.transmit with industrial_endpoint (hybrid_gateway.py).   *)
(* Each passes a token bucket of its own, turns a confidence into a        *)
(* status, asks the authority, and answers a status string; neither lets   *)
(* an exception out.                                                       *)
(* send asks before it looks at the status, transmit after.  Receiver      *)
(* compares the registry's size with its capacity in one locked read and   *)
(* acts on the answer in later calls.                                      *)
(***************************************************************************)
EXTENDS ReplayAuthority, Producers

CONSTANTS
    Requests,             \* requests: entry point, message id, confidence, kind of content
    Capacity,             \* Receiver's capacity (more than |Msgs|: none)
    Burst,                \* RATE_LIMIT_PER_MINUTE: the size of a token bucket
    MaxRefills,           \* bound: tokens that time adds to the buckets
    MaxResets             \* bound: calls of Receiver.reset

Entries == {"send", "transmit"}

ASSUME GatewayAssumption ==
    /\ \A r \in Requests :
          /\ r.entry \in Entries /\ r.content \in {"decoded", "corrupted", "invalid"}
          /\ r.content = "invalid" => r.entry = "transmit"
          /\ r.content # "invalid" => r.msg \in Msgs /\ r.confidence \in 0..Full
    /\ Capacity \in Nat \ {0} /\ Burst \in Nat \ {0}
    /\ MaxRefills \in Nat /\ MaxResets \in Nat
    /\ IsFiniteSet(Threads) /\ 0 \in Ages

VARIABLES
    gw,          \* where each thread is in its gateway call
    req,         \* the request it carries
    answer,      \* the transport status it is about to return
    tokens,      \* whole tokens in each gateway's bucket
    refills,     \* tokens added so far (bounded by MaxRefills)
    resets,      \* Receiver.reset calls so far (bounded by MaxResets)
    acks,        \* history: ACK answers given for each message
    wipes        \* history: times the registry's memory was cleared

gatewayOwnVars == <<gw, req, answer, tokens, refills, resets, acks, wipes>>
gatewayVars    == <<authorityVars, gatewayOwnVars>>

NoRequest == GatewayRequest("none", None, 0, "none")

Acks  == {"ACK:OK", "ACK:DEGRADED"}
Halts == {"HALT:RATE_LIMIT_EXCEEDED", "HALT:TRANSLATION_REJECTED", "HALT:TRANSLATION_FAILURE",
          "HALT:INVALID_INPUT", "HALT:REPLAY_DETECTED", "HALT:GATEWAY_ERROR", "HALT:UNEXPECTED"}

GatewaysInit ==
    /\ AuthorityInit
    /\ gw = [t \in Threads |-> "idle"]
    /\ req = [t \in Threads |-> NoRequest]
    /\ answer = [t \in Threads |-> "none"]
    /\ tokens = [e \in Entries |-> Burst] /\ refills = 0 /\ resets = 0
    /\ acks = [m \in Msgs |-> 0] /\ wipes = 0

-----------------------------------------------------------------------------
(* Statuses.                                                               *)

\* transmit catches the TranslationError that translate() raises for a contract it rejects;
\* send is handed a request made of the same rejection.
TranslationFails(r) ==
    /\ r.entry = "transmit"
    /\ r.content = "corrupted" \/ ResolveTranslationStatus(r.confidence) = "REJECTED"

ErrorStatus(entry) == IF entry = "send" THEN "HALT:GATEWAY_ERROR" ELSE "HALT:UNEXPECTED"

-----------------------------------------------------------------------------
(* Steps of a gateway call.                                                *)

Step(t, label) == gw' = [gw EXCEPT ![t] = label]

Respond(t, status) ==
    /\ Step(t, "responded")
    /\ answer' = [answer EXCEPT ![t] = status]
    /\ acks' = IF status \in Acks THEN [acks EXCEPT ![req[t].msg] = @ + 1] ELSE acks

\* allow() runs under its bucket's lock.  Time matters only by the tokens it adds.
Refill(e) ==
    /\ refills < MaxRefills /\ tokens[e] < Burst
    /\ tokens' = [tokens EXCEPT ![e] = @ + 1] /\ refills' = refills + 1
    /\ UNCHANGED <<authorityVars, gw, req, answer, resets, acks, wipes>>

RefuseByRate(t, e) ==
    /\ gw[t] = "idle" /\ tokens[e] = 0
    /\ Respond(t, "HALT:RATE_LIMIT_EXCEEDED")
    /\ UNCHANGED <<authorityVars, req, tokens, refills, resets, wipes>>

\* Mutant: an empty bucket still admits.
AdmitFromEmptyBucket(t, r) ==
    /\ gw[t] = "idle" /\ tokens[r.entry] >= 0
    /\ tokens' = [tokens EXCEPT ![r.entry] = @ - 1]
    /\ req' = [req EXCEPT ![t] = r]
    /\ Step(t, "submitting")
    /\ UNCHANGED <<authorityVars, answer, refills, resets, acks, wipes>>

Admit(t, r) ==
    /\ gw[t] = "idle" /\ tokens[r.entry] > 0
    /\ tokens' = [tokens EXCEPT ![r.entry] = @ - 1]
    /\ req' = [req EXCEPT ![t] = r]
    /\ IF r.content = "invalid" THEN Respond(t, "HALT:INVALID_INPUT")
       ELSE IF TranslationFails(r) THEN Respond(t, "HALT:TRANSLATION_FAILURE")
       ELSE /\ Step(t, IF r.entry = "send" THEN "receiving" ELSE "submitting")
            /\ UNCHANGED <<answer, acks>>
    /\ UNCHANGED <<authorityVars, refills, resets, wipes>>

\* entry_count >= capacity, one locked read of the registry
CheckCapacity(t) ==
    /\ gw[t] = "receiving" /\ lock = None
    /\ Step(t, IF EntryCount >= Capacity THEN "evicting" ELSE "submitting")
    /\ UNCHANGED <<authorityVars, req, answer, tokens, refills, resets, acks, wipes>>

\* self._authority._registry.reset(): the registry only, not the authority's dicts
Evict(t) ==
    /\ gw[t] = "evicting"
    /\ Reset(t)
    /\ Step(t, "wiping")
    /\ UNCHANGED <<authorityOwnVars, req, answer, tokens, refills, resets, acks, wipes>>

\* Mutant: an exception of the eviction is not caught.
EvictedUncaught(t) ==
    /\ gw[t] = "wiping" /\ Return(t)
    /\ decision[t].status # "RAISED"
    /\ Step(t, "submitting") /\ UNCHANGED <<answer, acks>>
    /\ UNCHANGED <<authorityOwnVars, req, tokens, refills, resets, wipes>>

Evicted(t) ==
    /\ gw[t] = "wiping" /\ Return(t)
    /\ IF decision[t].status = "RAISED"
       THEN Respond(t, ErrorStatus(req[t].entry))
       ELSE Step(t, "submitting") /\ UNCHANGED <<answer, acks>>
    /\ UNCHANGED <<authorityOwnVars, req, tokens, refills, resets, wipes>>

\* Neither gateway passes issued_at, so the age of its message is always 0.
SubmitRequest(t) ==
    /\ gw[t] = "submitting"
    /\ Submit(t, req[t].msg, 0)
    /\ Step(t, "awaiting")
    /\ UNCHANGED <<authorityOwnVars, req, answer, tokens, refills, resets, acks, wipes>>

\* Mutant: the verdict is not looked at.
DeliverWithoutVerdict(t) ==
    /\ gw[t] = "awaiting"
    /\ \/ /\ StoreLineage(t)
          /\ Respond(t, ResolveTransportStatus(ResolveTranslationStatus(req[t].confidence)))
       \/ /\ PropagateException(t)
          /\ Respond(t, ErrorStatus(req[t].entry))
    /\ UNCHANGED <<req, tokens, refills, resets, wipes>>

Deliver(t) ==
    /\ gw[t] = "awaiting"
    /\ \/ /\ StoreLineage(t)
          /\ Respond(t, IF decision[t].status # "VALID" THEN "HALT:REPLAY_DETECTED"
                        ELSE ResolveTransportStatus(
                                 ResolveTranslationStatus(req[t].confidence)))
       \/ /\ PropagateException(t)
          /\ Respond(t, ErrorStatus(req[t].entry))
    /\ UNCHANGED <<req, tokens, refills, resets, wipes>>

ReturnResponse(t) ==
    /\ gw[t] = "responded"
    /\ Step(t, "idle")
    /\ req' = [req EXCEPT ![t] = NoRequest]
    /\ answer' = [answer EXCEPT ![t] = "none"]
    /\ UNCHANGED <<authorityVars, tokens, refills, resets, acks, wipes>>

\* Receiver.reset(): the whole authority.  Its callers, tests, call it with nothing in flight.
ResetReceiver(t) ==
    /\ \A s \in Threads : gw[s] = "idle"
    /\ resets < MaxResets
    /\ Reset(t)
    /\ Step(t, "resetting")
    /\ resets' = resets + 1
    /\ UNCHANGED <<authorityOwnVars, req, answer, tokens, refills, acks, wipes>>

ReceiverReset(t) ==
    /\ gw[t] = "resetting"
    /\ ClearVerdicts(t) \/ PropagateException(t)
    /\ Step(t, "idle")
    /\ UNCHANGED <<req, answer, tokens, refills, resets, acks, wipes>>

\* The steps of the authority and the registry below this call.
Below(t) ==
    /\ gw[t] \in {"wiping", "awaiting", "resetting"}
    /\ \/ InRegistry(t)
       \/ gw[t] = "awaiting" /\ StoreVerdict(t)
       \/ gw[t] = "resetting" /\ ClearLineage(t)
    /\ wipes' = IF pc[t] = "locked" /\ op[t] = "reset" THEN wipes + 1 ELSE wipes
    /\ UNCHANGED <<gw, req, answer, tokens, refills, resets, acks>>

ContinueCall(t) ==
    \/ CheckCapacity(t) \/ Evict(t) \/ Evicted(t) \/ SubmitRequest(t)
    \/ Below(t) \/ Deliver(t) \/ ReceiverReset(t) \/ ReturnResponse(t)

GatewaysNext ==
    \/ \E t \in Threads :
          \/ \E e \in Entries : RefuseByRate(t, e)
          \/ \E r \in Requests : Admit(t, r)
          \/ ResetReceiver(t)
          \/ ContinueCall(t)
    \/ \E e \in Entries : Refill(e)

GatewaysSpec == GatewaysInit /\ [][GatewaysNext]_gatewayVars

\* A thread inside a call keeps running.  The buckets bound the calls, so no thread can
\* be kept from the lock for ever by others that come back to it.
GatewaysFairSpec == GatewaysSpec /\ \A t \in Threads : WF_gatewayVars(ContinueCall(t))

-----------------------------------------------------------------------------
(* What the gateways must guarantee.                                       *)

\* Every variable holds a value of its type.
GatewaysTypeOK ==
    /\ AuthorityTypeOK
    /\ gw \in [Threads -> {"idle", "receiving", "evicting", "wiping", "submitting", "awaiting",
                           "resetting", "responded"}]
    /\ req \in [Threads -> Requests \cup {NoRequest}]
    /\ answer \in [Threads -> {"none"} \cup Acks \cup Halts]
    /\ tokens \in [Entries -> 0..Burst] /\ refills \in 0..MaxRefills /\ resets \in 0..MaxResets
    /\ acks \in [Msgs -> Nat] /\ wipes \in Nat

\* "A lock ensures only one passes at a time" (review_packet/05_production_readiness.md:17):
\* between two clearings of the registry at most one request gets an ACK for a message,
\* whichever gateways and threads carry it, and whatever writes fail; and an ACK stands on a
\* durable registry entry, unless the registry has been cleared.
AckedOncePerMemory ==
    /\ \A m \in Msgs : acks[m] <= 1 + wipes
    /\ \A t \in Threads :
          answer[t] \in Acks /\ wipes = 0 => Load(file).entries[req[t].msg] # 0

\* "A response is always returned (no unhandled exception)" (docs/failure_doctrine.md:105).
EveryRequestAnswered == \A t \in Threads : gw[t] # "idle" ~> gw[t] = "idle"

\* "REJECTED -- confidence < 0.40, or bit mismatch" (README.md:41), and of the producer that
\* carries on (gateway.py:71) "Bit mismatch / rejection -- propagate as low-confidence
\* request": a reading that failed its verification is not acknowledged.
CorruptedNotAcknowledged ==
    \A t \in Threads : answer[t] \in Acks => req[t].content # "corrupted"

\* gateway.py:192: "Enforce capacity cap by evicting oldest entry when limit reached": an
\* eviction leaves every message but the oldest known.
EvictsOnlyOldest ==
    [][wipes' > wipes => \A m \in Msgs : entries[m] > 1 => entries'[m] # 0]_gatewayVars
=============================================================================
