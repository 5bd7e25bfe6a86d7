----------------------------- MODULE MCPipeline -----------------------------
(* What the producer process sends, one good contract, and what the        *)
(* execution process handles besides: two good ones, one sent twice,       *)
(* refused or weak.                                                        *)
EXTENDS Pipeline

MCContracts == {"good", "other", "refused", "weak"}
MCScripts == { <<"good">>, <<"good", "other">>, <<"good", "good">>, <<"refused", "weak">> }
MCCrashStages == Stage \cup {None}
ProducerScript == { <<"good">> }
NoCrash == {None}
=============================================================================
