----------------------------- MODULE MCGateways -----------------------------
\* Requests as the producers make them, of messages whose bits are those of their sha256.
EXTENDS Gateways

MCAges == {0}

MCStrip == [m \in {"PING", "PING ", "SHUTDOWN", " "} |->
               IF m = "PING " THEN "PING" ELSE IF m = " " THEN "" ELSE m]

MCBits == [m \in {"PING", "PING ", "SHUTDOWN"} |->
              CASE m = "PING" -> <<0, 0>> [] m = "PING " -> <<1, 1>> [] OTHER -> <<0, 1>>]

Transmission(m, noise, counts) ==
    [message |-> m, noise |-> noise, mode |-> "entangled", seed |-> 7, counts |-> counts]

CleanTransmission(m) ==
    Transmission(m, 0, IF Strip[m] \in Sendable THEN Clean(Bits[Strip[m]]) ELSE Clean(<<0, 0>>))

\* So much noise that the right bit string still leads, with 7 shots in 20.
NoisyPing ==
    Transmission("PING", 16, [b \in BitStrings |-> IF b = <<0, 0>> THEN 7
                                                   ELSE IF b = <<1, 1>> THEN 5 ELSE 4])

ASSUME MCPossible ==
    \A tx \in {NoisyPing} \cup {CleanTransmission(m) : m \in DOMAIN MCStrip} : Possible(tx)

\* Two message identifiers: the trace id of PING, whatever its noise, and the SHUTDOWN that
\* the channel always reads mirrored.
PingTrace     == TransmitRequest(CleanTransmission("PING")).msg
ShutdownSent  == ProduceQuantum(CleanTransmission("SHUTDOWN"))
MCMsgs        == {PingTrace, ShutdownSent.message_id}

\* A caller that wraps the trace of a transmission in a request of its own.
Wrapped(confidence) == GatewayRequest("send", PingTrace, confidence, "decoded")

MCRequests ==
    { TransmitRequest(tx) : tx \in {CleanTransmission("PING"), NoisyPing, CleanTransmission(" ")} }
        \cup { Wrapped(6), Wrapped(20), SendRequest(ShutdownSent) }

\* A message, one with a trailing blank and one read mirrored, through every producer.
Readings == { ProduceQuantum(CleanTransmission(m)) : m \in {"PING", "PING ", "SHUTDOWN"} }

Estimate == ProduceClassical("estimate", 10, {})

MCProduced ==
    { SendRequest(r) : r \in Readings \cup {Estimate}
                                \cup { ProduceHybrid(q, Estimate) : q \in Readings } }

MCProducedMsgs == { r.msg : r \in MCProduced }
=============================================================================
