------------------------------ MODULE Pipeline ------------------------------
(***************************************************************************)
(* The three-process pipeline: run_pipeline (process_runner.py) around the *)
(* producer, execution and consensus processes, which are joined by the    *)
(* sockets of network_ipc.py.                                              *)
(*                                                                         *)
(* A stage sends on one connection, made at its first message.  The        *)
(* receiver reads the end of that connection, whatever ended it, as DONE.  *)
(* The runner polls the heartbeats of the processes it has found alive,    *)
(* terminates one that does not answer, and after 30 seconds all of them;  *)
(* then it reads one message from consensus and sums up the exit codes.    *)
(***************************************************************************)
EXTENDS Naturals, Sequences

CONSTANTS
    Contracts,       \* contracts, told apart by their trace ids
    Refused,         \* those whose form or producer the execution process refuses
    Weak,            \* those on which the runtime core halts
    Scripts,         \* what a producer may send: sequences of contracts
    CrashStages,     \* values of crash_stage: stages, or None
    MaxFaults        \* bound: writes of the replay registry that raise

None == "none"

ASSUME PipelineAssumption ==
    /\ None \notin Contracts
    /\ Refused \subseteq Contracts /\ Weak \subseteq Contracts
    /\ Scripts \subseteq Seq(Contracts)
    /\ CrashStages \subseteq {"producer", "execution", "consensus", None}
    /\ MaxFaults \in Nat

Stages == <<"producer", "execution", "consensus">>
Stage  == {"producer", "execution", "consensus"}

\* Who listens on the port a stage sends to.
Downstream == [producer |-> "execution", execution |-> "consensus", consensus |-> "runner"]

VARIABLES
    script, crashStage,   \* what the producer will send; run_pipeline's argument
    life,                 \* each stage: started, serving, closing; or how it exited
    outbox,               \* what each stage has still to put
    connected,            \* stages whose connection has been made
    inbox,                \* what has reached each listener
    accepted,             \* trace ids known to execution's replay authority
    executed,             \* history: contracts executed, in order
    phase,                \* where run_pipeline is
    watch,                \* the processes still to be polled in this round
    crashes, result,      \* what it reports
    timedOut,             \* it has reported that its 30 seconds are over
    faults                \* faults so far (bounded by MaxFaults)

stageVars    == <<life, outbox, connected, inbox, accepted, executed, faults>>
runnerVars   == <<phase, watch, crashes, result, timedOut>>
pipelineVars == <<script, crashStage, stageVars, runnerVars>>

Message == [type : {"CONTRACT", "EXECUTION_RESULT", "CONSENSUS_PROOF", "DONE"},
            of : Contracts \cup {None}, ok : BOOLEAN]

Msg(type, c, ok) == [type |-> type, of |-> c, ok |-> ok]
Done             == Msg("DONE", None, FALSE)
NoResult         == Msg("DONE", None, TRUE)        \* consensus_result = None

ExitCodes == {"zero", "one", "sigterm"}

PipelineInit ==
    /\ script \in Scripts /\ crashStage \in CrashStages
    /\ life = [s \in Stage |-> "started"]
    /\ outbox = [s \in Stage |-> << >>] /\ connected = {}
    /\ inbox = [l \in {"execution", "consensus", "runner"} |-> << >>]
    /\ accepted = {} /\ executed = << >> /\ faults = 0
    /\ phase = "poll" /\ watch = << >> /\ crashes = {} /\ result = NoResult /\ timedOut = FALSE

IsAlive(s) == life[s] \notin ExitCodes

-----------------------------------------------------------------------------
(* network_ipc.py.                                                         *)

\* The listener is bound as soon as its process serves; the runner's is there from the start.
Listening(l) == IF l = "runner" THEN phase # "done" ELSE life[l] = "serving"

\* Mutant: what has come last is taken first.
ArriveInFront(l, m) == IF Listening(l) THEN [inbox EXCEPT ![l] = <<m>> \o @] ELSE inbox

\* Something arrives at a listener, or is lost with it.
Arrive(l, m) == IF Listening(l) THEN [inbox EXCEPT ![l] = Append(@, m)] ELSE inbox

\* A process ends: its sockets close, and its receiver's stream comes to an end.
Exit(s, code) ==
    /\ life' = [life EXCEPT ![s] = code]
    /\ outbox' = [outbox EXCEPT ![s] = << >>]
    /\ inbox' = LET reached == IF s \in connected THEN Arrive(Downstream[s], Done) ELSE inbox
                IN [l \in DOMAIN inbox |-> IF l = s THEN << >> ELSE reached[l]]

KeepExit == UNCHANGED <<connected, accepted, executed>>

\* Mutant: a connection that cannot be made is as good as a message lost.
ConnectOrDrop(s) ==
    /\ life[s] = "serving" /\ outbox[s] # << >> /\ s \notin connected /\ ~ Listening(Downstream[s])
    /\ life' = [life EXCEPT ![s] = IF Head(outbox[s]) = Done THEN "closing" ELSE @]
    /\ outbox' = [outbox EXCEPT ![s] = Tail(@)]
    /\ UNCHANGED <<script, crashStage, connected, inbox, accepted, executed, faults, runnerVars>>

\* A hundred refused connections in ten seconds: the exception ends the process.
ConnectFails(s) ==
    /\ life[s] = "serving" /\ outbox[s] # << >> /\ s \notin connected /\ ~ Listening(Downstream[s])
    /\ Exit(s, "one")
    /\ KeepExit /\ UNCHANGED <<script, crashStage, faults, runnerVars>>

\* An error of a send on a connection is ignored.  After DONE the stage closes its sockets.
Put(s) ==
    /\ life[s] = "serving" /\ outbox[s] # << >>
    /\ s \in connected \/ Listening(Downstream[s])
    /\ connected' = connected \cup {s}
    /\ inbox' = Arrive(Downstream[s], Head(outbox[s]))
    /\ outbox' = [outbox EXCEPT ![s] = Tail(@)]
    /\ life' = [life EXCEPT ![s] = IF Head(outbox[s]) = Done THEN "closing" ELSE @]
    /\ UNCHANGED <<script, crashStage, accepted, executed, faults, runnerVars>>

-----------------------------------------------------------------------------
(* The stages.                                                             *)

SimulateCrash(s) ==
    /\ life[s] = "started" /\ crashStage = s
    /\ Exit(s, "one")
    /\ KeepExit /\ UNCHANGED <<script, crashStage, faults, runnerVars>>

\* Imports, then the heartbeat server, then the listener.
Boot(s) ==
    /\ life[s] = "started" /\ crashStage # s
    /\ life' = [life EXCEPT ![s] = "serving"]
    /\ outbox' = [outbox EXCEPT ![s] =
          IF s = "producer"
          THEN Append([i \in DOMAIN script |-> Msg("CONTRACT", script[i], TRUE)], Done)
          ELSE << >>]
    /\ UNCHANGED <<script, crashStage, connected, inbox, accepted, executed, faults, runnerVars>>

Finish(s) ==
    /\ life[s] = "closing"
    /\ Exit(s, "zero")
    /\ KeepExit /\ UNCHANGED <<script, crashStage, faults, runnerVars>>

\* A stage takes the next message off its stream when it has put what it had to.
Receives(s, type) ==
    /\ life[s] = "serving" /\ outbox[s] = << >>
    /\ inbox[s] # << >> /\ Head(inbox[s]).type = type

Handle(s, answer) ==
    /\ inbox' = [inbox EXCEPT ![s] = Tail(@)]
    /\ outbox' = [outbox EXCEPT ![s] = <<answer>>]
    /\ UNCHANGED <<script, crashStage, life, connected, runnerVars>>

PassDoneOn(s) ==
    /\ Receives(s, "DONE")
    /\ Handle(s, Done) /\ UNCHANGED <<accepted, executed, faults>>

\* Mutant: the replay verdict is not looked at.
PassesForm(c) == c \notin Refused

\* Replay first, then form and producer: a refused contract has been entered all the same.
PassesChecks(c) == c \notin accepted /\ c \notin Refused

ExecuteContract ==
    /\ Receives("execution", "CONTRACT")
    /\ LET c == Head(inbox["execution"]).of IN
       /\ accepted' = accepted \cup {c}
       /\ executed' = IF PassesChecks(c) THEN Append(executed, c) ELSE executed
       /\ Handle("execution", Msg("EXECUTION_RESULT", c, PassesChecks(c) /\ c \notin Weak))
    /\ UNCHANGED faults

\* The write of the replay registry raises, and nothing catches it.
SubmitRaises ==
    /\ Receives("execution", "CONTRACT")
    /\ faults < MaxFaults /\ faults' = faults + 1
    /\ Exit("execution", "one")
    /\ KeepExit /\ UNCHANGED <<script, crashStage, runnerVars>>

\* A halted result becomes a proof without agreement; on any other contract the three nodes
\* agree (module Consensus).
ProveConsensus ==
    /\ Receives("consensus", "EXECUTION_RESULT")
    /\ LET m == Head(inbox["consensus"]) IN Handle("consensus", Msg("CONSENSUS_PROOF", m.of, m.ok))
    /\ UNCHANGED <<accepted, executed, faults>>

StageStep(s) == SimulateCrash(s) \/ Boot(s) \/ Put(s) \/ ConnectFails(s) \/ Finish(s)

StageWork(s) ==
    \/ StageStep(s)
    \/ s # "producer" /\ PassDoneOn(s)
    \/ s = "execution" /\ (ExecuteContract \/ SubmitRaises)
    \/ s = "consensus" /\ ProveConsensus

-----------------------------------------------------------------------------
(* The runner.                                                             *)

KeepStages == UNCHANGED <<script, crashStage, stageVars>>

\* A stage's part in alive_procs.
IfAlive(s) == IF IsAlive(s) THEN <<s>> ELSE << >>

StartRound ==
    /\ phase = "poll" /\ watch = << >> /\ \E s \in Stage : IsAlive(s)
    /\ watch' = IfAlive("producer") \o IfAlive("execution") \o IfAlive("consensus")
    /\ KeepStages /\ UNCHANGED <<phase, crashes, result, timedOut>>

\* A heartbeat is answered from the start of the server thread to the end of the process.
CheckHeartbeat(s) == life[s] \in {"serving", "closing"}

\* SIGTERM ends a process at once; on one that has ended it does nothing.
TerminateProcess(s) ==
    IF IsAlive(s) THEN Exit(s, "sigterm") ELSE UNCHANGED <<life, outbox, inbox>>

PollHeartbeat ==
    /\ phase = "poll" /\ watch # << >> /\ watch' = Tail(watch)
    /\ IF CheckHeartbeat(Head(watch)) THEN UNCHANGED <<life, outbox, inbox>>
                                      ELSE TerminateProcess(Head(watch))
    /\ KeepExit /\ UNCHANGED <<script, crashStage, faults, phase, crashes, result, timedOut>>

\* All have ended, or the 30 seconds are over, which is looked at once a round.
StopPolling ==
    /\ phase = "poll" /\ watch = << >> /\ \A s \in Stage : ~ IsAlive(s)
    /\ phase' = "terminate" /\ watch' = Stages
    /\ KeepStages /\ UNCHANGED <<crashes, result, timedOut>>

\* Mutant: the runner goes on polling.
TimeoutUnheeded ==
    /\ phase = "poll" /\ watch = << >> /\ timedOut' = TRUE
    /\ KeepStages /\ UNCHANGED <<phase, watch, crashes, result>>

TimeoutExceeded ==
    /\ phase = "poll" /\ watch = << >> /\ \E s \in Stage : IsAlive(s)
    /\ phase' = "terminate" /\ watch' = Stages /\ timedOut' = TRUE
    /\ KeepStages /\ UNCHANGED <<crashes, result>>

\* Terminate and join, one after the other.
TerminateRest ==
    /\ phase = "terminate" /\ watch # << >> /\ watch' = Tail(watch)
    /\ TerminateProcess(Head(watch))
    /\ KeepExit /\ UNCHANGED <<script, crashStage, faults, phase, crashes, result, timedOut>>

Crashed == {s \in Stage : life[s] # "zero"}

\* q_cons_out.get(timeout=5): the first message, or None if nothing has connected.
FirstMessage == IF inbox["runner"] = << >> THEN NoResult ELSE Head(inbox["runner"])

Summarise ==
    /\ phase = "terminate" /\ watch = << >>
    /\ phase' = "done" /\ crashes' = Crashed /\ result' = FirstMessage
    /\ KeepStages /\ UNCHANGED <<watch, timedOut>>

Runner == StartRound \/ PollHeartbeat \/ StopPolling \/ TimeoutExceeded \/ TerminateRest \/ Summarise

PipelineNext == Runner \/ \E s \in Stage : StageWork(s)

\* Every process runs on its own.  The clock is read in each round, so the runner's rounds
\* come to an end.
PipelineSpec ==
    /\ PipelineInit /\ [][PipelineNext]_pipelineVars
    /\ WF_pipelineVars(Runner) /\ SF_pipelineVars(TimeoutExceeded)
    /\ \A s \in Stage : WF_pipelineVars(StageWork(s))

-----------------------------------------------------------------------------
(* Properties.                                                             *)

PipelineOk == phase = "done" /\ crashes = {}

\* What a listener gets, besides DONE.
Handled == [execution |-> "CONTRACT", consensus |-> "EXECUTION_RESULT", runner |-> "CONSENSUS_PROOF"]

\* pipeline_ok looks at exit codes alone, DONE is told apart from a lost connection nowhere and
\* sends fail in silence: still a run reported as ok brought the proof for the first contract,
\* and every contract the producer sent came to its decision.  No listener is sent a message of
\* a type it skips over, which would be lost without a trace.
OkHasProof ==
    /\ PipelineOk =>
          /\ crashStage = None /\ \A s \in Stage : life[s] = "zero"
          /\ script # << >> => result.type = "CONSENSUS_PROOF" /\ result.of = script[1]
          /\ \A i \in DOMAIN script : script[i] \in accepted
    /\ \A l \in DOMAIN Handled : \A i \in DOMAIN inbox[l] : inbox[l][i].type \in {Handled[l], "DONE"}

\* Whatever is terminated and when, agreement is reported only on an executed contract that
\* the runtime did not halt, and no contract is executed twice.
ProofIsBacked ==
    /\ result.type = "CONSENSUS_PROOF" /\ result.ok =>
          /\ result.of \notin Weak
          /\ \E i \in DOMAIN executed : executed[i] = result.of
    /\ \A i, j \in DOMAIN executed : executed[i] = executed[j] => i = j

\* The proofs with agreement that have reached the runner.
ProofsHeard == {i \in DOMAIN inbox["runner"] :
                  inbox["runner"][i].type = "CONSENSUS_PROOF" /\ inbox["runner"][i].ok}

\* What the pipeline does, step by step, is what ContractLifecycle promises.
Lifecycle == INSTANCE ContractLifecycle
    WITH Id        <- [c \in Contracts |-> c],
         Halting   <- Weak,
         admitted  <- accepted,
         announced <- {inbox["runner"][i].of : i \in ProofsHeard}

\* Two processes and two connections lie between an execution and the proof of it that reaches
\* the runner, and each may end at any step: proofs still come in the order of the executions,
\* one for a contract at most, and only for what was executed.
PipelineKeepsLifecycle == Lifecycle!LifecycleSpec

\* The runner always returns, though a stage whose upstream has died before connecting waits
\* without a timeout, and leaves no process behind.
PipelineEnds == <>[](phase = "done" /\ \A s \in Stage : ~ IsAlive(s))

\* tests/test_all.py:1215-1216, "run_pipeline(crash_stage=None)" has "pipeline_ok" True: a run
\* without a crash and within its time has no crashed process.
NormalRunIsOk == phase = "done" /\ crashStage = None /\ ~ timedOut => crashes = {}
=============================================================================
