---------------------------- MODULE Orchestrator ----------------------------
(***************************************************************************)
(* run_distributed_pipeline of service_orchestrator.py around the services *)
(* it starts: launch, the monitoring loop, termination, the summary.       *)
(*                                                                         *)
(* The loop looks at a process in two steps, p.is_alive() and the HTTP     *)
(* health query, between which the process may come to its end.  It ends   *)
(* with the first outcome logged after the producer is through, with a     *)
(* crash, or after 30 seconds.  The processes are then told to stop in the *)
(* order of their start, each with two seconds before it is killed.        *)
(* The capability registry process is taken as up throughout.              *)
(***************************************************************************)
EXTENDS Services, FiniteSets

CONSTANT CrashStages    \* values of crash_stage: processes to fail at their start, or None

ASSUME OrchestratorAssumption == CrashStages \subseteq Processes \cup {None}

\* The order of the dict of processes.
Order == <<"replay", "trust", "consensus", "execution", "producer">>

VARIABLES
    stage,        \* where run_distributed_pipeline is
    crashStage,   \* its argument
    probed,       \* the process it was last told is alive
    pipelineOk, crashes,
    next,         \* the place in Order of the process to be terminated next
    summary       \* what it returns

orchestratorOwnVars == <<stage, crashStage, probed, pipelineOk, crashes, next, summary>>
orchestratorVars    == <<servicesVars, orchestratorOwnVars>>

NoSummary == [ok |-> FALSE, result |-> None]

OrchestratorInit ==
    /\ ServicesInit
    /\ crashStage \in CrashStages
    /\ stage = "launch" /\ probed = None /\ pipelineOk = TRUE /\ crashes = {}
    /\ next = 1 /\ summary = NoSummary

-----------------------------------------------------------------------------
(* Launch.  A process named by crash_stage exits with code 1 at once.      *)

ProcessNext == Running /\ stage # "launch" /\ UNCHANGED orchestratorOwnVars

Launch ==
    /\ stage = "launch" /\ stage' = "monitor"
    /\ life' = [p \in Processes |-> IF p = crashStage THEN "crashed" ELSE life[p]]
    /\ UNCHANGED <<setupVars, capabilities, shutdown, inbox, replyBound, authVars, execVars, log,
                   faults, crashStage, probed, pipelineOk, crashes, next, summary>>

-----------------------------------------------------------------------------
(* The monitoring loop.                                                    *)

StopMonitoring(ok) == stage' = "terminate" /\ pipelineOk' = (pipelineOk /\ ok)
KeepMonitored      == UNCHANGED <<servicesVars, crashStage, next, summary>>

OutcomeSeen ==
    /\ stage = "monitor" /\ probed = None /\ pipelineOk
    /\ life["producer"] = "stopped" /\ log # << >>
    /\ StopMonitoring(TRUE)
    /\ KeepMonitored /\ UNCHANGED <<probed, crashes>>

\* Mutant: running out of time is not held against the run.
TimeIsUpUnnoticed ==
    /\ stage = "monitor" /\ probed = None /\ pipelineOk
    /\ StopMonitoring(TRUE)
    /\ KeepMonitored /\ UNCHANGED <<probed, crashes>>

\* Thirty seconds, whatever has happened in them.
TimeIsUp ==
    /\ stage = "monitor" /\ probed = None /\ pipelineOk
    /\ StopMonitoring(FALSE)
    /\ KeepMonitored /\ UNCHANGED <<probed, crashes>>

Blame(p) == crashes' = crashes \cup {p} /\ pipelineOk' = FALSE

SeeExitCode(p) ==
    /\ stage = "monitor" /\ probed = None
    /\ life[p] = "crashed" /\ p \notin crashes
    /\ Blame(p)
    /\ KeepMonitored /\ UNCHANGED <<stage, probed>>

SeeAlive(p) ==
    /\ stage = "monitor" /\ probed = None
    /\ Alive(p) /\ p # "producer" /\ p \notin crashes
    /\ probed' = p
    /\ KeepMonitored /\ UNCHANGED <<stage, pipelineOk, crashes>>

\* The health server runs from the registration to the end of the process.
Healthy(p) == life[p] \in {"registered", "listening"}

QueryHealth ==
    /\ probed # None /\ probed' = None
    /\ IF Healthy(probed)
       THEN UNCHANGED <<shutdown, crashes, pipelineOk>>
       ELSE Blame(probed) /\ shutdown' = shutdown \cup {probed}
    /\ UNCHANGED <<setupVars, life, capabilities, inbox, replyBound, authVars, execVars, log, faults,
                   stage, crashStage, next, summary>>

BreakOff ==
    /\ stage = "monitor" /\ probed = None /\ ~ pipelineOk
    /\ stage' = "terminate"
    /\ KeepMonitored /\ UNCHANGED <<probed, pipelineOk, crashes>>

Monitor == \/ OutcomeSeen \/ TimeIsUp \/ BreakOff \/ QueryHealth
           \/ \E p \in Processes : SeeExitCode(p) \/ SeeAlive(p)

-----------------------------------------------------------------------------
(* Termination: SIGTERM, two seconds of join, kill -9.                     *)

KeepTerminated == UNCHANGED <<crashStage, probed, pipelineOk, crashes>>

\* Mutant: a process is joined without being told to stop.
TerminateSilently ==
    /\ stage = "terminate" /\ next <= Len(Order)
    /\ IF Alive(Order[next]) THEN stage' = "join" /\ UNCHANGED next
                             ELSE next' = next + 1 /\ UNCHANGED stage
    /\ UNCHANGED <<servicesVars, summary>> /\ KeepTerminated

Terminate ==
    /\ stage = "terminate" /\ next <= Len(Order)
    /\ IF Alive(Order[next])
       THEN /\ stage' = "join" /\ shutdown' = shutdown \cup {Order[next]} /\ UNCHANGED next
       ELSE /\ next' = next + 1 /\ UNCHANGED <<stage, shutdown>>
    /\ UNCHANGED <<setupVars, life, capabilities, inbox, replyBound, authVars, execVars, log, faults,
                   summary>> /\ KeepTerminated

Joined ==
    /\ stage = "join" /\ ~ Alive(Order[next])
    /\ stage' = "terminate" /\ next' = next + 1
    /\ UNCHANGED <<servicesVars, summary>> /\ KeepTerminated

\* More than two seconds may pass in a boot or a lookup, in retries against a process that has
\* ended and in a wait for its answer; an idle loop looks at the event every second.
MayOutlast(p) ==
    \/ ~ Accepting(p)
    \/ p = "execution" /\ pc = "wait" /\ ~ AnswerOnItsWay
    \/ p = "execution" /\ pc = "ask" /\ ~ Alive(peer)
    \/ p = "execution" /\ pc \in {"halt", "forward"} /\ ~ Alive("consensus")
    \/ p = "execution" /\ Ready(p, "DONE") /\ ~ Alive("consensus")

\* Mutant: the place of the killed process is counted twice.
KillSkippingOne ==
    /\ stage = "join" /\ Alive(Order[next]) /\ MayOutlast(Order[next])
    /\ Exit(Order[next], "killed")
    /\ stage' = "terminate" /\ next' = next + 2
    /\ UNCHANGED <<setupVars, capabilities, shutdown, accepted, submitted, execVars, log, faults,
                   summary>> /\ KeepTerminated

Kill ==
    /\ stage = "join" /\ Alive(Order[next]) /\ MayOutlast(Order[next])
    /\ Exit(Order[next], "killed")
    /\ stage' = "terminate" /\ next' = next + 1
    /\ UNCHANGED <<setupVars, capabilities, shutdown, accepted, submitted, execVars, log, faults,
                   summary>> /\ KeepTerminated

Summarise ==
    /\ stage = "terminate" /\ next > Len(Order)
    /\ stage' = "done"
    /\ summary' = [ok |-> pipelineOk /\ crashes = {},
                   result |-> IF log = << >> THEN None ELSE log[Len(log)].of]
    /\ UNCHANGED <<servicesVars, next>> /\ KeepTerminated

Orchestrate == Launch \/ Monitor \/ Terminate \/ Joined \/ Kill \/ Summarise

OrchestratorNext == ProcessNext \/ Orchestrate

\* The loop reads the clock in each round, so it cannot go round for ever.
OrchestratorSpec ==
    /\ OrchestratorInit /\ [][OrchestratorNext]_orchestratorVars
    /\ WF_orchestratorVars(ProcessNext) /\ WF_orchestratorVars(Orchestrate)
    /\ SF_orchestratorVars(OutcomeSeen \/ TimeIsUp \/ BreakOff)

-----------------------------------------------------------------------------
(* Properties.                                                             *)

\* The orchestrator's own state has its form, a process is blamed only in a run that is not
\* ok, and the one to be terminated next is in the list or one past it.
OrchestratorTypeOK ==
    /\ ServicesTypeOK
    /\ stage \in {"launch", "monitor", "terminate", "join", "done"}
    /\ crashStage \in Processes \cup {None} /\ probed \in Services \cup {None}
    /\ pipelineOk \in BOOLEAN /\ crashes \subseteq Processes
    /\ crashes # {} => ~ pipelineOk
    /\ next \in 1..Len(Order) + 1 /\ (stage = "join" => next <= Len(Order))
    /\ summary \in [ok : BOOLEAN, result : Contracts \cup {None}]

\* A run reported as ok ("pipeline_ok") had no failed process, though the outcome ends the loop
\* before the exit codes are looked at; its result is the outcome of what the producer sent,
\* and no executed contract is missing from the outcomes.
OkIsEarned ==
    summary.ok =>
        /\ \A p \in Processes : life[p] # "crashed"
        /\ \E i \in DOMAIN script : summary.result = script[i] /\ Answered(script[i])
        /\ \A i \in DOMAIN ledger : Answered(ledger[i].of)

\* The pipeline always returns, and leaves no process of its own behind.
RunEnds == <>[](stage = "done" /\ \A p \in Processes : ~ Alive(p))
=============================================================================
