--------------------------- MODULE MCOrchestrator ---------------------------
(* One contract, as run_producer_service sends it: good, stale, refused by *)
(* the trust service or by the runtime; and a crash injected anywhere.     *)
EXTENDS Orchestrator

MCContracts == {"good", "stale"}
MCId == [c \in MCContracts |-> c]
MCScripts == { <<"good">>, <<"stale">> }
MCCrashStages == Processes \cup {None}
=============================================================================
