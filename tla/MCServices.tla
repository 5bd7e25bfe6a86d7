----------------------------- MODULE MCServices -----------------------------
(* Contracts for the distributed runtime: a good one, its retry under the  *)
(* same trace id, a second good one, and one each that replay, trust and   *)
(* the runtime refuse.                                                     *)
EXTENDS Services

MCContracts == {"good", "retry", "other", "stale", "untrusted", "weak"}
MCId == [c \in MCContracts |-> IF c = "retry" THEN "good" ELSE c]
MCIds == MCContracts \ {"retry"}
MCScripts == { <<"good">>, <<"good", "retry">>, <<"good", "other">>, <<"stale", "good">>, <<"untrusted", "weak">> }
PortTransports == {"tcp", "http"}
UDSOnly == {"uds"}
=============================================================================
