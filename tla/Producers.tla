----------------------------- MODULE Producers ------------------------------
(***************************************************************************)
(* What stands in front of the gateways: the superdense channel            *)
(* (quantum_producer.py), its translation (translation_layer.py), the      *)
(* adapters (adapters.py), the three producers (gateway.py) and the        *)
(* posture of degraded_runtime.py.  None keeps state: these are functions  *)
(* of a transmission, or of a classical result.                            *)
(* A transmission is a record: message, noise, mode, seed, and the counts  *)
(* the seeded simulator gave for the four bit strings, in twentieths of    *)
(* the shots.  A bit string is a pair <<left, right>>.  A uuid5 of some parts  *)
(* is the tuple of the parts.  Confidences and noise are in 20ths.        *)
(***************************************************************************)
EXTENDS Integers, Sequences

CONSTANTS
    Strip,                \* message -> the message without surrounding blanks
    Bits,                 \* message -> sha256(message) mod 4, a pair of bits
    Sendable,             \* stripped messages that are not empty and not too long
    Modes,                \* SUPPORTED_MODES
    OkThreshold,          \* config.CONFIDENCE_THRESHOLD
    DegradedThreshold     \* config.CORRUPTION_THRESHOLD

Full == 20

Bit        == {0, 1}
BitStrings == Bit \X Bit

ASSUME ProducersAssumption ==
    /\ Bits \in [DOMAIN Bits -> BitStrings]
    /\ \A m \in DOMAIN Strip : Strip[m] \in Sendable => {m, Strip[m]} \subseteq DOMAIN Bits
    /\ DegradedThreshold \in Nat /\ OkThreshold \in Nat
    /\ DegradedThreshold < OkThreshold

-----------------------------------------------------------------------------
(* The quantum channel.                                                    *)

\* _SUPERDENSE_ENCODING: the gates applied to qubit 0.
SuperdenseEncoding(bits) ==
    (IF bits[2] = 1 THEN {"x"} ELSE {}) \cup (IF bits[1] = 1 THEN {"z"} ELSE {})

\* What a circuit without noise measures: after the second cx and h, qubit 1 tells whether
\* x was applied and qubit 0 whether z was; get_counts() writes qubit 1 on the left.
BuildSuperdenseCircuit(bits) ==
    LET Applied(gate) == IF gate \in SuperdenseEncoding(bits) THEN 1 ELSE 0
    IN  <<Applied("x"), Applied("z")>>

\* TransmissionRequest refuses anything else with a ValueError.
ValidTransmission(tx) ==
    Strip[tx.message] \in Sendable /\ tx.noise \in 0..Full /\ tx.mode \in Modes

\* _build_noise_model gives no model for noise 0: every shot then reads the same.
Clean(bits) == [b \in BitStrings |-> IF b = BuildSuperdenseCircuit(bits) THEN Full ELSE 0]

\* run_quantum_producer encodes the stripped message.
RunQuantumProducer(tx) ==
    [encoded_bits |-> Bits[Strip[tx.message]], counts |-> tx.counts, seed |-> tx.seed,
     noise |-> tx.noise]

\* A transmission whose counts the simulator can give.
Possible(tx) ==
    tx.noise = 0 /\ ValidTransmission(tx) => tx.counts = Clean(Bits[Strip[tx.message]])

-----------------------------------------------------------------------------
(* The translation, which verifies the bits of the message as the caller   *)
(* gave it, blanks included.                                               *)

DominantBitstring(counts) ==
    CHOOSE b \in DOMAIN counts : \A c \in DOMAIN counts : counts[c] <= counts[b]

VerifyBits(received, message) == received = Bits[message]

ResolveTranslationStatus(confidence) ==
    IF confidence >= OkThreshold THEN "OK"
    ELSE IF confidence >= DegradedThreshold THEN "DEGRADED"
    ELSE "REJECTED"

ResolveTransportStatus(translationStatus) ==
    CASE translationStatus = "OK"       -> "ACK:OK"
      [] translationStatus = "DEGRADED" -> "ACK:DEGRADED"
      [] OTHER                          -> "HALT:TRANSLATION_REJECTED"

\* A contract of status REJECTED is raised as a TranslationError, never handed on.
Translate(d, message) ==
    LET bits       == DominantBitstring(d.counts)
        confidence == d.counts[bits]
        match      == VerifyBits(bits, message)
    IN  [trace_id   |-> <<message, d.seed, bits>>,
         confidence |-> confidence,
         decoded    |-> IF match THEN message ELSE "CORRUPTED",
         status     |-> IF match THEN ResolveTranslationStatus(confidence) ELSE "REJECTED"]

-----------------------------------------------------------------------------
(* The adapters: one kind of contract out of three kinds of result.        *)

Contract(producer, payload, confidence, trace) ==
    [producer |-> producer, payload |-> payload, confidence |-> confidence, trace |-> trace]

\* Only for a translation that was not rejected.
AdaptQuantum(d, message) ==
    LET c == Translate(d, message) IN
    Contract("QUANTUM", [decoded |-> c.decoded, status |-> c.status], c.confidence,
             <<"quantum", message, d.seed, d.encoded_bits, d.noise>>)

\* ClassicalAdapter raises ValueError on a confidence outside [0, 1].
ValidResult(confidence) == confidence \in 0..Full

\* The trace names the result and its confidence, and leaves the metadata out.
AdaptClassical(result, confidence, metadata) ==
    Contract("CLASSICAL", [result |-> result, metadata |-> metadata], confidence,
             <<"classical", result, confidence>>)

\* The contract of the higher confidence leads, the quantum one at a tie.
AdaptHybrid(q, c) ==
    LET primary   == IF q.confidence >= c.confidence THEN q ELSE c
        secondary == IF q.confidence >= c.confidence THEN c ELSE q
    IN  Contract("HYBRID", [primary |-> primary.payload, secondary |-> secondary.payload],
                 primary.confidence, <<"hybrid", primary.trace, secondary.trace>>)

-----------------------------------------------------------------------------
(* The producers: CommunicationRequests for the gateway.                   *)

CommunicationRequest(id, contract) ==
    [message_id |-> id, payload |-> contract.payload, confidence |-> contract.confidence,
     trace |-> contract.trace]

\* A TranslationError becomes a request with a CORRUPTED payload that keeps the confidence
\* of the dominant bit string.
ProduceQuantum(tx) ==
    LET d  == RunQuantumProducer(tx)
        id == <<"quantum", tx.message, tx.seed, tx.noise>>
        c  == Translate(d, tx.message)
    IN  CommunicationRequest(id,
            IF c.status # "REJECTED" THEN AdaptQuantum(d, tx.message)
            ELSE Contract("QUANTUM", [decoded |-> "CORRUPTED", status |-> "REJECTED"],
                          c.confidence, id))

ProduceClassical(result, confidence, metadata) ==
    CommunicationRequest(<<"classical", result, confidence>>,
                         AdaptClassical(result, confidence, metadata))

ProduceHybrid(q, c) ==
    CommunicationRequest(<<"hybrid", q.message_id, c.message_id>>,
        AdaptHybrid(Contract("QUANTUM", q.payload, q.confidence, q.trace),
                    Contract("CLASSICAL", c.payload, c.confidence, c.trace)))

\* The payload a receiver would act on stands for a reading that failed its verification.
Corrupted(payload) ==
    \/ "decoded" \in DOMAIN payload /\ payload.decoded = "CORRUPTED"
    \/ /\ "primary" \in DOMAIN payload /\ "decoded" \in DOMAIN payload.primary
       /\ payload.primary.decoded = "CORRUPTED"

-----------------------------------------------------------------------------
(* What the producers hand to the gateways of module Gateways.             *)

GatewayRequest(entry, id, confidence, content) ==
    [entry |-> entry, msg |-> id, confidence |-> confidence, content |-> content]

\* CommunicationGateway.send takes a request whatever its payload says.
SendRequest(r) ==
    GatewayRequest("send", r.message_id, r.confidence,
                   IF Corrupted(r.payload) THEN "corrupted" ELSE "decoded")

\* QuantumGateway.transmit runs the channel and the translation itself.
TransmitRequest(tx) ==
    IF ~ ValidTransmission(tx)
    THEN GatewayRequest("transmit", <<"none">>, 0, "invalid")
    ELSE LET c == Translate(RunQuantumProducer(tx), tx.message) IN
         GatewayRequest("transmit", c.trace_id, c.confidence,
                        IF c.decoded = "CORRUPTED" THEN "corrupted" ELSE "decoded")

-----------------------------------------------------------------------------
(* The posture of degraded_runtime.evaluate, which advises an operator.    *)

Evaluate(status, noise, replayDetected, rateLimited) ==
    IF replayDetected \/ rateLimited THEN "HALT"
    ELSE IF status = "REJECTED" THEN "REJECT"
    ELSE IF 2 * noise > Full /\ status # "OK" THEN "HOLD"
    ELSE status

EmitAction(posture) == posture \in {"OK", "DEGRADED"}
=============================================================================
