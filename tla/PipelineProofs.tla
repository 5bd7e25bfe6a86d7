--------------------------- MODULE PipelineProofs ---------------------------
(***************************************************************************)
(* The pipeline reports agreement on executed contracts alone, and a run   *)
(* it reports as ok has brought what it should: for any contracts,         *)
(* scripts, crashes and faults.                                            *)
(*                                                                         *)
(* The first argument: a message that claims a success, a result or a      *)
(* proof, is made only by ExecuteContract, which executes the contract in  *)
(* the same step, and from then on is only moved or lost.  So every        *)
(* message in every outbox and inbox is backed by the executions so far,   *)
(* and so is the one the runner reports.                                   *)
(*                                                                         *)
(* The second, WayInv: as long as no stage has been lost, every contract   *)
(* is accepted, on its way to the execution process or still to be sent    *)
(* (StreamOK), and of all that is under way what is nearest to the runner  *)
(* is about the first contract (FirstOK).  A stage goes through only after *)
(* the end of its stream, and its listener is there until then; so when    *)
(* the exit codes say that all three went through, everything has come.    *)
(*                                                                         *)
(* The third, OrderOK: read from the runner back to the execution process, *)
(* the successes are those of ever later executions, since every stage     *)
(* puts its answer where nothing is left to put and a stream keeps its     *)
(* order.  So the pipeline implements ContractLifecycle, step by step.     *)
(***************************************************************************)
EXTENDS Pipeline, TLAPS

Listeners == {"execution", "consensus", "runner"}

\* The contracts a success may be claimed for.
Backing == {executed[i] : i \in DOMAIN executed} \ Weak

\* The messages that carry what they must and claim no more than has been executed.
BackedMessage ==
    {m \in Message :
        /\ m.type = "CONTRACT" => m.of \in Contracts
        /\ m.type \in {"EXECUTION_RESULT", "CONSENSUS_PROOF"} /\ m.ok => m.of \in Backing}

QueuesOK ==
    /\ connected \subseteq Stage
    /\ outbox \in [Stage -> Seq(BackedMessage)]
    /\ inbox \in [Listeners -> Seq(BackedMessage)]
    /\ result \in BackedMessage

\* The replay authority knows what was executed, so nothing is executed again.
ExecutionsOK ==
    /\ script \in Scripts
    /\ accepted \subseteq Contracts /\ executed \in Seq(Contracts)
    /\ \A i \in DOMAIN executed : executed[i] \in accepted
    /\ \A i, j \in DOMAIN executed : executed[i] = executed[j] => i = j

PipelineInv == QueuesOK /\ ExecutionsOK

-----------------------------------------------------------------------------
(* Messages.                                                               *)

LEMMA DoneBacked == Done \in BackedMessage /\ NoResult \in BackedMessage
  BY DEF BackedMessage, Message, Done, NoResult, Msg

LEMMA DownstreamListens == \A s \in Stage : Downstream[s] \in Listeners
  BY DEF Stage, Downstream, Listeners

\* What arrives is a message like those already there.
LEMMA ArriveKeeps ==
  ASSUME inbox \in [Listeners -> Seq(BackedMessage)], NEW l \in Listeners, NEW m \in BackedMessage
  PROVE  Arrive(l, m) \in [Listeners -> Seq(BackedMessage)]
  BY DEF Arrive

LEMMA ExitKeeps ==
  ASSUME QueuesOK, NEW s, NEW code, Exit(s, code)
  PROVE  /\ outbox' \in [Stage -> Seq(BackedMessage)]
         /\ inbox' \in [Listeners -> Seq(BackedMessage)]
<1> DEFINE reached == IF s \in connected THEN Arrive(Downstream[s], Done) ELSE inbox
<1>1. reached \in [Listeners -> Seq(BackedMessage)]
  BY DoneBacked, DownstreamListens, ArriveKeeps DEF QueuesOK
<1>2. << >> \in Seq(BackedMessage)
  OBVIOUS
<1>3. inbox' = [l \in Listeners |-> IF l = s THEN << >> ELSE reached[l]]
  BY DEF Exit, QueuesOK
<1>4. inbox' \in [Listeners -> Seq(BackedMessage)]
  <2> HIDE DEF reached
  <2> QED  BY <1>1, <1>2, <1>3
<1>5. outbox' \in [Stage -> Seq(BackedMessage)]
  BY <1>2 DEF Exit, QueuesOK
<1> QED  BY <1>4, <1>5

\* As long as nothing is executed, what was backed stays so.
LEMMA BackingStands ==
  ASSUME executed' = executed
  PROVE  Backing' = Backing /\ BackedMessage' = BackedMessage
  BY DEF Backing, BackedMessage

\* A step that executes nothing keeps the invariant if the queues keep theirs.
LEMMA QuietStep ==
  ASSUME PipelineInv, UNCHANGED <<accepted, executed, script>>, connected' \subseteq Stage,
         outbox' \in [Stage -> Seq(BackedMessage)], inbox' \in [Listeners -> Seq(BackedMessage)],
         result' \in BackedMessage
  PROVE  PipelineInv'
<1>1. QueuesOK'
  BY BackingStands DEF QueuesOK
<1>2. ExecutionsOK'
  BY DEF PipelineInv, ExecutionsOK
<1> QED  BY <1>1, <1>2 DEF PipelineInv

LEMMA ExitStep ==
  ASSUME PipelineInv, NEW s, NEW code, Exit(s, code), KeepExit, UNCHANGED <<script, result>>
  PROVE  PipelineInv'
<1>1. QueuesOK
  BY DEF PipelineInv
<1>2. /\ outbox' \in [Stage -> Seq(BackedMessage)]
      /\ inbox' \in [Listeners -> Seq(BackedMessage)]
  BY <1>1, ExitKeeps
<1> QED  BY <1>1, <1>2, QuietStep DEF QueuesOK, KeepExit

-----------------------------------------------------------------------------
(* The stages.                                                             *)

LEMMA PutKeeps == ASSUME PipelineInv, NEW s \in Stage, Put(s) PROVE PipelineInv'
<1>1. QueuesOK
  BY DEF PipelineInv
<1>2. Head(outbox[s]) \in BackedMessage /\ Tail(outbox[s]) \in Seq(BackedMessage)
  BY <1>1 DEF QueuesOK, Put
<1>3. inbox' \in [Listeners -> Seq(BackedMessage)]
  BY <1>1, <1>2, DownstreamListens, ArriveKeeps DEF QueuesOK, Put
<1>4. outbox' \in [Stage -> Seq(BackedMessage)] /\ connected' \subseteq Stage
  BY <1>1, <1>2 DEF QueuesOK, Put
<1> QED  BY <1>1, <1>3, <1>4, QuietStep DEF QueuesOK, Put, runnerVars

LEMMA BootKeeps == ASSUME PipelineInv, NEW s \in Stage, Boot(s) PROVE PipelineInv'
<1> DEFINE contracts == [i \in DOMAIN script |-> Msg("CONTRACT", script[i], TRUE)]
<1>1. QueuesOK /\ script \in Seq(Contracts)
  BY PipelineAssumption DEF PipelineInv, ExecutionsOK
<1>2. \A c \in Contracts : Msg("CONTRACT", c, TRUE) \in BackedMessage
  BY DEF BackedMessage, Message, Msg
<1>3. contracts \in Seq(BackedMessage)
  <2>1. DOMAIN script = 1..Len(script) /\ Len(script) \in Nat
    BY <1>1
  <2>2. \A i \in 1..Len(script) : Msg("CONTRACT", script[i], TRUE) \in BackedMessage
    <3>1. \A i \in 1..Len(script) : script[i] \in Contracts
      BY <1>1
    <3> QED  BY <1>2, <3>1, Zenon
  <2>3. contracts = [i \in 1..Len(script) |-> Msg("CONTRACT", script[i], TRUE)]
    BY <2>1
  <2>4. contracts \in [1..Len(script) -> BackedMessage]
    BY <2>2, <2>3
  <2>5. \A n \in Nat : \A f \in [1..n -> BackedMessage] : f \in Seq(BackedMessage)
    OBVIOUS
  <2> HIDE DEF contracts
  <2> QED  BY <2>1, <2>4, <2>5
<1>4. Append(contracts, Done) \in Seq(BackedMessage) /\ << >> \in Seq(BackedMessage)
  BY <1>3, DoneBacked
<1>5. outbox' \in [Stage -> Seq(BackedMessage)]
  <2> HIDE DEF contracts
  <2>1. outbox' = [outbox EXCEPT ![s] = IF s = "producer" THEN Append(contracts, Done) ELSE << >>]
    BY DEF Boot, contracts
  <2> QED  BY <1>1, <1>4, <2>1 DEF QueuesOK
<1> QED  BY <1>1, <1>5, QuietStep DEF QueuesOK, Boot, runnerVars

\* The queues of a stage that handles a message, whatever it answers.
LEMMA HandleKeeps ==
  ASSUME QueuesOK, NEW s \in {"execution", "consensus"}, NEW answer, inbox[s] # << >>,
         Handle(s, answer), NEW S, BackedMessage \subseteq S, answer \in S
  PROVE  /\ outbox' \in [Stage -> Seq(S)] /\ inbox' \in [Listeners -> Seq(S)]
<1>1. Seq(BackedMessage) \subseteq Seq(S)
  OBVIOUS
<1>2. outbox \in [Stage -> Seq(S)] /\ inbox \in [Listeners -> Seq(S)]
  BY <1>1 DEF QueuesOK
<1>3. <<answer>> \in Seq(S)
  OBVIOUS
<1>4. Tail(inbox[s]) \in Seq(S)
  BY <1>2 DEF Listeners
<1> QED  BY <1>2, <1>3, <1>4 DEF Handle

LEMMA PassDoneKeeps ==
  ASSUME PipelineInv, NEW s \in {"execution", "consensus"}, PassDoneOn(s) PROVE PipelineInv'
<1>1. QueuesOK /\ inbox[s] # << >>
  BY DEF PipelineInv, PassDoneOn, Receives
<1>2. /\ outbox' \in [Stage -> Seq(BackedMessage)]
      /\ inbox' \in [Listeners -> Seq(BackedMessage)]
  BY <1>1, DoneBacked, HandleKeeps DEF PassDoneOn
<1> QED  BY <1>1, <1>2, QuietStep DEF QueuesOK, PassDoneOn, Handle, runnerVars

\* A proof claims what the result it is made of claims.
LEMMA ProveKeeps == ASSUME PipelineInv, ProveConsensus PROVE PipelineInv'
<1> DEFINE m == Head(inbox["consensus"])
<1>1. QueuesOK /\ inbox["consensus"] # << >> /\ m.type = "EXECUTION_RESULT"
  BY DEF PipelineInv, ProveConsensus, Receives
<1>2. m \in BackedMessage
  BY <1>1 DEF QueuesOK, Listeners
<1>3. Msg("CONSENSUS_PROOF", m.of, m.ok) \in BackedMessage
  BY <1>1, <1>2 DEF BackedMessage, Message, Msg
<1>4. /\ outbox' \in [Stage -> Seq(BackedMessage)]
      /\ inbox' \in [Listeners -> Seq(BackedMessage)]
  BY <1>1, <1>3, HandleKeeps DEF ProveConsensus
<1> QED  BY <1>1, <1>4, QuietStep DEF QueuesOK, ProveConsensus, Handle, runnerVars

-----------------------------------------------------------------------------
(* An execution.                                                           *)

\* The contract taken off the stream is one of the contracts.
LEMMA ContractTaken ==
  ASSUME QueuesOK, ExecuteContract
  PROVE  Head(inbox["execution"]).of \in Contracts /\ inbox["execution"] # << >>
<1>1. inbox["execution"] \in Seq(BackedMessage) /\ inbox["execution"] # << >>
  BY DEF QueuesOK, ExecuteContract, Receives, Listeners
<1>2. Head(inbox["execution"]) \in BackedMessage
  BY <1>1
<1>3. Head(inbox["execution"]).type = "CONTRACT"
  BY DEF ExecuteContract, Receives
<1> QED  BY <1>1, <1>2, <1>3 DEF BackedMessage

LEMMA ExecuteKeeps == ASSUME PipelineInv, ExecuteContract PROVE PipelineInv'
<1> DEFINE c == Head(inbox["execution"]).of
           answer == Msg("EXECUTION_RESULT", c, PassesChecks(c) /\ c \notin Weak)
<1>1. QueuesOK /\ ExecutionsOK
  BY DEF PipelineInv
<1>2. c \in Contracts /\ inbox["execution"] # << >>
  BY <1>1, ContractTaken
<1>3. /\ accepted' = accepted \cup {c}
      /\ executed' = IF PassesChecks(c) THEN Append(executed, c) ELSE executed
      /\ Handle("execution", answer)
  BY DEF ExecuteContract
<1> HIDE DEF c
<1>4. PassesChecks(c) => c \notin accepted
  BY DEF PassesChecks
<1>5. ExecutionsOK'
  <2>1. accepted' \subseteq Contracts /\ executed' \in Seq(Contracts) /\ script' = script
    BY <1>1, <1>2, <1>3 DEF ExecutionsOK, Handle
  <2>2. CASE PassesChecks(c)
    <3>1. /\ DOMAIN executed' = 1..Len(executed) + 1 /\ executed'[Len(executed) + 1] = c
          /\ \A i \in 1..Len(executed) : executed'[i] = executed[i] /\ executed[i] \in accepted
          /\ Len(executed) \in Nat
      BY <1>1, <1>2, <1>3, <2>2 DEF ExecutionsOK
    <3>2. \A i, j \in 1..Len(executed) : executed[i] = executed[j] => i = j
      BY <1>1 DEF ExecutionsOK
    <3>3. \A i \in DOMAIN executed' : i \in 1..Len(executed) \/ i = Len(executed) + 1
      BY <3>1
    <3> QED  BY <1>1, <1>3, <1>4, <2>1, <2>2, <3>1, <3>2, <3>3 DEF ExecutionsOK
  <2>3. CASE ~ PassesChecks(c)
    BY <1>1, <1>3, <2>1, <2>3 DEF ExecutionsOK
  <2> QED  BY <2>2, <2>3
<1>6. Backing \subseteq Backing' /\ (PassesChecks(c) /\ c \notin Weak => c \in Backing')
  <2>1. \A i \in DOMAIN executed : i \in DOMAIN executed' /\ executed'[i] = executed[i]
    BY <1>1, <1>2, <1>3 DEF ExecutionsOK
  <2>2. PassesChecks(c) => \E i \in DOMAIN executed' : executed'[i] = c
    BY <1>1, <1>2, <1>3 DEF ExecutionsOK
  <2> QED  BY <2>1, <2>2 DEF Backing
<1>7. BackedMessage \subseteq BackedMessage' /\ answer \in BackedMessage'
  <2>1. BackedMessage \subseteq BackedMessage'
    BY <1>6 DEF BackedMessage
  <2>2. (PassesChecks(c) /\ c \notin Weak) \in BOOLEAN
    BY DEF PassesChecks
  <2>3. answer \in Message
    BY <1>2, <2>2 DEF Message, Msg
  <2> QED  BY <1>6, <2>1, <2>3 DEF BackedMessage, Msg
<1>8. /\ outbox' \in [Stage -> Seq(BackedMessage')]
      /\ inbox' \in [Listeners -> Seq(BackedMessage')]
  <2> HIDE DEF answer
  <2> QED  BY <1>1, <1>2, <1>3, <1>7, HandleKeeps
<1>9. connected' \subseteq Stage /\ result' \in BackedMessage'
  BY <1>1, <1>3, <1>7 DEF QueuesOK, Handle, runnerVars
<1> QED  BY <1>5, <1>8, <1>9 DEF PipelineInv, QueuesOK

-----------------------------------------------------------------------------
(* The runner.                                                             *)

LEMMA TerminateKeeps ==
  ASSUME PipelineInv, NEW s, TerminateProcess(s), KeepExit, UNCHANGED <<script, result>>
  PROVE  PipelineInv'
<1>1. CASE IsAlive(s)
  BY <1>1, ExitStep DEF TerminateProcess
<1>2. CASE ~ IsAlive(s)
  BY <1>2, QuietStep DEF TerminateProcess, PipelineInv, QueuesOK, KeepExit
<1> QED  BY <1>1, <1>2

LEMMA SummariseKeeps == ASSUME PipelineInv, Summarise PROVE PipelineInv'
<1>1. QueuesOK
  BY DEF PipelineInv
<1>2. inbox["runner"] \in Seq(BackedMessage)
  BY <1>1 DEF QueuesOK, Listeners
<1>3. FirstMessage \in BackedMessage
  BY <1>2, DoneBacked DEF FirstMessage
<1> QED  BY <1>1, <1>3, QuietStep DEF QueuesOK, Summarise, KeepStages, stageVars

LEMMA RunnerKeeps == ASSUME PipelineInv, Runner PROVE PipelineInv'
<1>1. CASE StartRound \/ StopPolling \/ TimeoutExceeded
  BY <1>1, QuietStep
     DEF StartRound, StopPolling, TimeoutExceeded, KeepStages, stageVars, PipelineInv, QueuesOK
<1>2. CASE PollHeartbeat
  <2>1. CASE CheckHeartbeat(Head(watch))
    BY <1>2, <2>1, QuietStep DEF PollHeartbeat, KeepExit, PipelineInv, QueuesOK
  <2>2. CASE ~ CheckHeartbeat(Head(watch))
    BY <1>2, <2>2, TerminateKeeps DEF PollHeartbeat
  <2> QED  BY <2>1, <2>2
<1>3. CASE TerminateRest
  BY <1>3, TerminateKeeps DEF TerminateRest
<1>4. CASE Summarise
  BY <1>4, SummariseKeeps
<1> QED  BY <1>1, <1>2, <1>3, <1>4 DEF Runner

-----------------------------------------------------------------------------
(* The theorem.                                                            *)

LEMMA PipelineInvNext == PipelineInv /\ [PipelineNext]_pipelineVars => PipelineInv'
<1> SUFFICES ASSUME PipelineInv, [PipelineNext]_pipelineVars PROVE PipelineInv'
  OBVIOUS
<1>1. CASE Runner
  BY <1>1, RunnerKeeps
<1>2. ASSUME NEW s \in Stage, StageStep(s) PROVE PipelineInv'
  <2>1. CASE SimulateCrash(s) \/ ConnectFails(s) \/ Finish(s)
    BY <2>1, ExitStep DEF SimulateCrash, ConnectFails, Finish, runnerVars
  <2>2. CASE Boot(s)
    BY <2>2, BootKeeps
  <2>3. CASE Put(s)
    BY <2>3, PutKeeps
  <2> QED  BY <1>2, <2>1, <2>2, <2>3 DEF StageStep
<1>3. ASSUME NEW s \in Stage, s # "producer", PassDoneOn(s) PROVE PipelineInv'
  BY <1>3, PassDoneKeeps DEF Stage
<1>4. CASE SubmitRaises
  BY <1>4, ExitStep DEF SubmitRaises, runnerVars
<1>5. CASE UNCHANGED pipelineVars
  BY <1>5, QuietStep DEF pipelineVars, stageVars, runnerVars, PipelineInv, QueuesOK
<1> QED  BY <1>1, <1>2, <1>3, <1>4, <1>5, ExecuteKeeps, ProveKeeps DEF PipelineNext, StageWork

LEMMA PipelineInvInit == PipelineInit => PipelineInv
<1> SUFFICES ASSUME PipelineInit PROVE PipelineInv
  OBVIOUS
<1>1. QueuesOK
  BY DoneBacked DEF PipelineInit, QueuesOK, Listeners
<1>2. ExecutionsOK
  BY DEF PipelineInit, ExecutionsOK
<1> QED  BY <1>1, <1>2 DEF PipelineInv

LEMMA PipelineInvariant == PipelineSpec => []PipelineInv
  BY PipelineInvInit, PipelineInvNext, PTL DEF PipelineSpec

\* However the stages crash, are terminated or lose each other, the runner reports agreement on
\* executed contracts alone, and no contract is executed twice.
THEOREM ProofsAreBacked == PipelineSpec => []ProofIsBacked
<1>1. PipelineInv => ProofIsBacked
  BY DEF PipelineInv, QueuesOK, ExecutionsOK, BackedMessage, Backing, ProofIsBacked
<1> QED  BY <1>1, PipelineInvariant, PTL

-----------------------------------------------------------------------------
(* What a run reported as ok has brought.                                  *)

\* The messages for a listener.
For(l) == {m \in Message : m.type = Handled[l] \/ m = Done}

OutOK == outbox \in [Stage -> Seq(Message)] /\ \A s \in Stage : outbox[s] \in Seq(For(Downstream[s]))
InOK  == inbox \in [Listeners -> Seq(Message)] /\ \A l \in Listeners : inbox[l] \in Seq(For(l))

TypesOK ==
    /\ life \in [Stage -> {"started", "serving", "closing"} \cup ExitCodes] /\ connected \subseteq Stage
    /\ script \in Seq(Contracts) /\ crashStage \in Stage \cup {None}
    /\ OutOK /\ InOK

\* No stage has been lost.  A stage that has ended does not come back.
Fine == \A s \in Stage : life[s] \notin {"one", "sigterm"}

Through(s) == life[s] \in {"closing", "zero"}

\* The stage has heard the end of its stream.
Ended(s) == Through(s) \/ \E i \in DOMAIN outbox[s] : outbox[s][i].type = "DONE"

StartsOK ==
    /\ \A s \in Stage : life[s] = "started" => outbox[s] = << >> /\ s \notin connected
    /\ \A s \in connected \ {"consensus"} : life[Downstream[s]] # "started"
    /\ crashStage # None => life[crashStage] \in {"started", "one", "sigterm"}

\* DONE comes last and no contract is lost before it.
StreamOK ==
    LET put == outbox["producer"]
        got == inbox["execution"]
    IN  /\ life["producer"] = "started" => got = << >>
        /\ Through("producer") => put = << >>
        /\ \A i \in DOMAIN put : put[i].type = "DONE" => i = Len(put)
        /\ \A i, j \in DOMAIN got : got[i].type = "DONE" /\ got[j].type = "CONTRACT" => j < i
        /\ \A i \in DOMAIN got : got[i].type = "DONE" => Through("producer")
        /\ Ended("execution") => Through("producer") /\ \A i \in DOMAIN got : got[i].type = "DONE"
        /\ \A k \in DOMAIN script :
              \/ script[k] \in accepted \/ life["producer"] = "started"
              \/ \E i \in DOMAIN put : put[i].type = "CONTRACT" /\ put[i].of = script[k]
              \/ \E i \in DOMAIN got : got[i].type = "CONTRACT" /\ got[i].of = script[k]

AtRunner    == inbox["runner"] # << >>
AtConsensus == outbox["consensus"] # << >> \/ inbox["consensus"] # << >> \/ AtRunner
AtExecution == outbox["execution"] # << >> \/ inbox["execution"] # << >> \/ AtConsensus

\* The first message of q is about the first contract.
Leads(q, type) == q # << >> /\ Head(q).type = type /\ Head(q).of = script[1]

\* Of all that is under way, what is nearest to the runner is about the first contract.
FirstOK ==
    /\ AtRunner => Leads(inbox["runner"], "CONSENSUS_PROOF")
    /\ ~ AtRunner /\ outbox["consensus"] # << >> => Leads(outbox["consensus"], "CONSENSUS_PROOF")
    /\ ~ AtRunner /\ outbox["consensus"] = << >> /\ inbox["consensus"] # << >> =>
          Leads(inbox["consensus"], "EXECUTION_RESULT")
    /\ ~ AtConsensus /\ outbox["execution"] # << >> => Leads(outbox["execution"], "EXECUTION_RESULT")
    /\ ~ AtConsensus /\ outbox["execution"] = << >> /\ inbox["execution"] # << >> =>
          Leads(inbox["execution"], "CONTRACT")
    /\ ~ AtExecution => \/ life["producer"] = "started"
                        \/ life["producer"] = "serving" /\ Leads(outbox["producer"], "CONTRACT")
    /\ Through("execution") => AtConsensus
    /\ Through("consensus") => AtRunner

EndOK ==
    PipelineOk =>
        /\ \A s \in Stage : life[s] = "zero"
        /\ script # << >> => result.type = "CONSENSUS_PROOF" /\ result.of = script[1]
        /\ \A k \in DOMAIN script : script[k] \in accepted

UnderWay == Fine /\ phase # "done" => StreamOK /\ (script # << >> => FirstOK)

WayInv == TypesOK /\ StartsOK /\ UnderWay /\ EndOK

LEMMA DoneGoesAnywhere == \A l : Done \in For(l)
  BY DEF For, Message, Done, Msg

LEMMA DoneTold == \A l \in Listeners : \A m \in For(l) : m = Done <=> m.type = "DONE"
  BY DEF For, Listeners, Handled, Done, Msg

LEMMA Roads ==
  /\ Stage = {"producer", "execution", "consensus"} /\ Listeners = {"execution", "consensus", "runner"}
  /\ Downstream["producer"] = "execution" /\ Downstream["execution"] = "consensus"
  /\ Downstream["consensus"] = "runner" /\ "producer" \notin Listeners
  BY DEF Stage, Listeners, Downstream

LEMMA OutboxSet ==
  ASSUME OutOK, NEW s \in Stage, NEW q \in Seq(For(Downstream[s])), outbox' = [outbox EXCEPT ![s] = q]
  PROVE  OutOK' /\ outbox'[s] = q /\ \A r \in Stage : r # s => outbox'[r] = outbox[r]
<1>1. q \in Seq(Message)
  BY DEF For
<1> QED  BY <1>1 DEF OutOK

LEMMA InboxSet ==
  ASSUME InOK, NEW l \in Listeners, NEW q \in Seq(For(l)), inbox' = [inbox EXCEPT ![l] = q]
  PROVE  InOK' /\ inbox'[l] = q /\ \A k \in Listeners : k # l => inbox'[k] = inbox[k]
<1>1. q \in Seq(Message)
  BY DEF For
<1> QED  BY <1>1 DEF InOK

\* The head and the tail of a queue, and what a queue is with one message more.
LEMMA Queued ==
  ASSUME NEW S, NEW q \in Seq(S)
  PROVE  /\ Len(q) \in Nat /\ DOMAIN q = 1..Len(q)
         /\ q # << >> => /\ Head(q) = q[1] /\ q[1] \in S /\ Tail(q) \in Seq(S) /\ 1 \in DOMAIN q
                         /\ Len(Tail(q)) = Len(q) - 1
                         /\ \A i \in DOMAIN Tail(q) : i + 1 \in DOMAIN q /\ Tail(q)[i] = q[i + 1] /\ i \in Nat
                         /\ \A i \in DOMAIN q : i # 1 => i - 1 \in DOMAIN Tail(q) /\ Tail(q)[i - 1] = q[i]
         /\ \A m \in S : /\ Append(q, m) \in Seq(S) /\ Append(q, m) # << >>
                         /\ q # << >> => Head(Append(q, m)) = Head(q)
                         /\ q = << >> => Head(Append(q, m)) = m
                         /\ DOMAIN Append(q, m) = 1..Len(q) + 1 /\ Append(q, m)[Len(q) + 1] = m
                         /\ \A i \in DOMAIN q : Append(q, m)[i] = q[i]
<1>1. q # << >> => Len(Tail(q)) = Len(q) - 1 /\ \A i \in 1..Len(q) - 1 : Tail(q)[i] = q[i + 1]
  OBVIOUS
<1>2. Len(q) \in Nat /\ DOMAIN q = 1..Len(q) /\ (q # << >> => Tail(q) \in Seq(S) /\ 1 \in DOMAIN q)
  OBVIOUS
<1>3. \A m \in S : /\ Append(q, m) \in Seq(S) /\ Append(q, m) # << >>
                   /\ q # << >> => Head(Append(q, m)) = Head(q)
                   /\ q = << >> => Head(Append(q, m)) = m
  OBVIOUS
<1>4. \A m \in S : /\ DOMAIN Append(q, m) = 1..Len(q) + 1 /\ Append(q, m)[Len(q) + 1] = m
                   /\ \A i \in DOMAIN q : Append(q, m)[i] = q[i]
  OBVIOUS
<1>5. q # << >> => Head(q) = q[1] /\ q[1] \in S
  OBVIOUS
<1>6. q # << >> => /\ \A i \in DOMAIN Tail(q) : i + 1 \in DOMAIN q /\ Tail(q)[i] = q[i + 1] /\ i \in Nat
                  /\ \A i \in DOMAIN q : i # 1 => i - 1 \in DOMAIN Tail(q) /\ Tail(q)[i - 1] = q[i]
  BY <1>1, <1>2
<1> QED  BY <1>1, <1>2, <1>3, <1>4, <1>5, <1>6

LEMMA Taken == \A S : \A q \in Seq(S) : q # << >> => Head(q) \in S /\ Tail(q) \in Seq(S)
  OBVIOUS

LEMMA ArriveTyped ==
  ASSUME InOK, NEW l \in Listeners, NEW m \in For(l)
  PROVE  /\ Arrive(l, m) \in [Listeners -> Seq(Message)]
         /\ \A k \in Listeners : Arrive(l, m)[k] \in Seq(For(k))
         /\ \A k \in Listeners : k # l => Arrive(l, m)[k] = inbox[k]
         /\ Arrive(l, m)[l] = IF Listening(l) THEN Append(inbox[l], m) ELSE inbox[l]
<1>1. inbox[l] \in Seq(For(l))
  BY DEF InOK
<1>2. Append(inbox[l], m) \in Seq(For(l)) /\ Append(inbox[l], m) \in Seq(Message)
  <2>1. For(l) \subseteq Message
    BY DEF For
  <2> QED  BY <1>1, <2>1
<1> HIDE DEF For
<1> QED  BY <1>2 DEF Arrive, InOK

\* The end of a stage, however it comes.
LEMMA ExitTyped ==
  ASSUME TypesOK, NEW s \in Stage, NEW code \in ExitCodes, Exit(s, code), KeepExit, UNCHANGED <<script, crashStage>>
  PROVE  /\ TypesOK' /\ life'[s] = code /\ \A r \in Stage : r # s => life'[r] = life[r]
         /\ outbox'[s] = << >> /\ \A r \in Stage : r # s => outbox'[r] = outbox[r]
         /\ \A l \in Listeners : /\ l = s => inbox'[l] = << >>
                                 /\ l # s /\ l # Downstream[s] => inbox'[l] = inbox[l]
         /\ Downstream[s] # s
         /\ inbox'[Downstream[s]] = IF s \in connected /\ Listening(Downstream[s])
                                    THEN Append(inbox[Downstream[s]], Done) ELSE inbox[Downstream[s]]
<1> DEFINE reached == IF s \in connected THEN Arrive(Downstream[s], Done) ELSE inbox
<1>1. OutOK /\ InOK /\ Downstream[s] \in Listeners /\ Downstream[s] # s
  BY DownstreamListens DEF TypesOK, Downstream, Stage
<1>2. << >> \in Seq(For(Downstream[s])) /\ \A l : << >> \in Seq(For(l)) /\ << >> \in Seq(Message)
  OBVIOUS
<1>3. OutOK' /\ outbox'[s] = << >> /\ \A r \in Stage : r # s => outbox'[r] = outbox[r]
  BY <1>1, <1>2, OutboxSet DEF Exit
<1>4. /\ reached \in [Listeners -> Seq(Message)] /\ \A k \in Listeners : reached[k] \in Seq(For(k))
      /\ \A k \in Listeners : k # Downstream[s] => reached[k] = inbox[k]
      /\ reached[Downstream[s]] = IF s \in connected /\ Listening(Downstream[s])
                                    THEN Append(inbox[Downstream[s]], Done) ELSE inbox[Downstream[s]]
  <2>1. CASE s \in connected
    BY <1>1, <2>1, DoneGoesAnywhere, ArriveTyped
  <2>2. CASE s \notin connected
    BY <1>1, <2>2 DEF InOK
  <2> QED  BY <2>1, <2>2
<1>5. inbox' = [l \in Listeners |-> IF l = s THEN << >> ELSE reached[l]]
  BY <1>1 DEF Exit, InOK
<1> HIDE DEF reached
<1>6. InOK'
  BY <1>2, <1>4, <1>5 DEF InOK
<1>7. life' \in [Stage -> {"started", "serving", "closing"} \cup ExitCodes]
      /\ life'[s] = code /\ \A r \in Stage : r # s => life'[r] = life[r]
  BY DEF Exit, TypesOK
<1>8. TypesOK'
  BY <1>3, <1>6, <1>7 DEF TypesOK, KeepExit
<1> QED  BY <1>1, <1>3, <1>4, <1>5, <1>7, <1>8

LEMMA ExitStarts ==
  ASSUME TypesOK, StartsOK, NEW s \in Stage, NEW code \in ExitCodes, Exit(s, code), KeepExit,
         UNCHANGED <<script, crashStage>>, code # "zero" \/ crashStage # s
  PROVE  StartsOK'
<1>1. /\ life'[s] = code /\ \A r \in Stage : r # s => life'[r] = life[r]
      /\ \A r \in Stage : r # s => outbox'[r] = outbox[r]
  BY ExitTyped
<1>2. code \in {"zero", "one", "sigterm"}
  BY DEF ExitCodes
<1>3. \A r \in connected' \ {"consensus"} : Downstream[r] \in Stage
  BY DEF TypesOK, KeepExit, Downstream, Stage
<1> QED  BY <1>1, <1>2, <1>3 DEF StartsOK, TypesOK, KeepExit

\* A stage that is lost takes every promise with it.
LEMMA LostKeeps ==
  ASSUME WayInv, NEW s \in Stage, NEW code \in {"one", "sigterm"}, Exit(s, code), KeepExit,
         UNCHANGED <<script, crashStage>>
  PROVE  TypesOK' /\ StartsOK' /\ UnderWay'
<1>1. TypesOK /\ StartsOK /\ code \in ExitCodes /\ code # "zero"
  BY DEF WayInv, ExitCodes
<1>2. TypesOK' /\ life'[s] = code
  BY <1>1, ExitTyped
<1>3. StartsOK'
  BY <1>1, ExitStarts
<1> QED  BY <1>2, <1>3 DEF UnderWay, Fine

\* What a message more does to a queue, as far as its first message goes.
LEMMA OneMore ==
  ASSUME NEW S, NEW q \in Seq(S), NEW m \in S
  PROVE  Append(q, m) # << >> /\ \A type : Leads(q, type) => Leads(Append(q, m), type)
  BY Queued DEF Leads

\* The contracts on their way to execution are where they were.
LEMMA StreamSame ==
  ASSUME StreamOK, UNCHANGED script, accepted \subseteq accepted',
         outbox'["producer"] = outbox["producer"], inbox'["execution"] = inbox["execution"],
         life'["producer"] = life["producer"] \/ (life'["producer"] # "started" /\ life["producer"] # "started"),
         Through("producer") <=> Through("producer")', Ended("execution")' => Ended("execution")
  PROVE  StreamOK'
  BY DEF StreamOK

LEMMA FinishKeepsWay ==
  ASSUME WayInv, NEW s \in Stage, Finish(s) PROVE TypesOK' /\ StartsOK' /\ UnderWay'
<1>1. /\ TypesOK /\ StartsOK /\ UnderWay /\ life[s] = "closing" /\ "zero" \in ExitCodes
      /\ Exit(s, "zero") /\ KeepExit /\ UNCHANGED <<script, crashStage, phase, accepted>>
  BY DEF WayInv, Finish, ExitCodes, KeepExit, runnerVars
<1>2. crashStage # s
  BY <1>1 DEF StartsOK, TypesOK, Stage, None
<1>3. TypesOK' /\ StartsOK'
  BY <1>1, <1>2, ExitTyped, ExitStarts
<1>4. /\ life'[s] = "zero" /\ \A r \in Stage : r # s => life'[r] = life[r]
      /\ outbox'[s] = << >> /\ \A r \in Stage : r # s => outbox'[r] = outbox[r]
      /\ \A l \in Listeners : /\ l = s => inbox'[l] = << >>
                              /\ l # s /\ l # Downstream[s] => inbox'[l] = inbox[l]
      /\ inbox'[Downstream[s]] = Append(inbox[Downstream[s]], Done) \/ inbox'[Downstream[s]] = inbox[Downstream[s]]
  BY <1>1, ExitTyped
<1> SUFFICES ASSUME Fine', phase' # "done" PROVE StreamOK' /\ (script' # << >> => FirstOK')
  BY <1>3 DEF UnderWay
<1>5. Fine /\ phase # "done"
  BY <1>1, <1>4 DEF Fine
<1>6. StreamOK /\ (script # << >> => FirstOK)
  BY <1>1, <1>5 DEF UnderWay
<1>7. \A r \in Stage : (Through(r)' <=> Through(r)) /\ (Ended(r)' => Ended(r))
  BY <1>1, <1>4 DEF Through, Ended
<1>8. /\ inbox["execution"] \in Seq(For("execution")) /\ inbox["consensus"] \in Seq(For("consensus"))
      /\ inbox["runner"] \in Seq(For("runner"))
  BY <1>1, Roads DEF TypesOK, InOK
<1>9. CASE s = "producer"
  <2>1. /\ life["producer"] = "closing" /\ life'["producer"] = "zero" /\ life'["execution"] = life["execution"]
        /\ life'["consensus"] = life["consensus"]
        /\ outbox'["execution"] = outbox["execution"] /\ outbox'["consensus"] = outbox["consensus"]
        /\ inbox'["consensus"] = inbox["consensus"] /\ inbox'["runner"] = inbox["runner"]
        /\ inbox'["execution"] = Append(inbox["execution"], Done) \/ inbox'["execution"] = inbox["execution"]
        /\ outbox'["producer"] = << >> /\ outbox["producer"] = << >> /\ Through("producer") /\ Through("producer")'
        /\ (Through("execution")' <=> Through("execution")) /\ (Through("consensus")' <=> Through("consensus"))
        /\ Ended("execution")' => Ended("execution")
    BY <1>1, <1>4, <1>6, <1>7, <1>9, Roads DEF StreamOK, Through
  <2>2. StreamOK'
    <3>1. CASE inbox'["execution"] = inbox["execution"]
      BY <1>1, <1>6, <2>1, <3>1, StreamSame
    <3>2. CASE inbox'["execution"] = Append(inbox["execution"], Done)
      <4>1. /\ inbox'["execution"][Len(inbox["execution"]) + 1] = Done /\ Done.type = "DONE"
            /\ DOMAIN inbox["execution"] = 1..Len(inbox["execution"]) /\ Len(inbox["execution"]) \in Nat
            /\ DOMAIN inbox'["execution"] = 1..Len(inbox["execution"]) + 1
            /\ \A i \in DOMAIN inbox["execution"] : inbox'["execution"][i] = inbox["execution"][i]
        BY <1>8, <3>2, Queued, DoneGoesAnywhere DEF Done, Msg
      <4> QED  BY <1>1, <1>6, <2>1, <4>1, SMTT(30) DEF StreamOK
    <3> QED  BY <2>1, <3>1, <3>2
  <2>3. ASSUME FirstOK PROVE FirstOK'
    <3>1. AtExecution
      BY <2>1, <2>3 DEF FirstOK
    <3>2. /\ inbox["execution"] # << >> => inbox'["execution"] # << >>
          /\ Leads(inbox["execution"], "CONTRACT") => Leads(inbox'["execution"], "CONTRACT")
      <4>1. script' = script
        BY <1>1
      <4>2. inbox["execution"] = << >> \/ inbox'["execution"] # << >>
        BY <1>8, <2>1, OneMore, DoneGoesAnywhere
      <4>3. Leads(inbox["execution"], "CONTRACT") => Leads(Append(inbox["execution"], Done), "CONTRACT")
        BY <1>8, OneMore, DoneGoesAnywhere
      <4> QED  BY <2>1, <4>1, <4>2, <4>3 DEF Leads
    <3> QED  BY <1>1, <2>1, <2>3, <3>1, <3>2 DEF FirstOK, AtExecution, AtConsensus, AtRunner, Leads
  <2> QED  BY <1>1, <1>6, <2>2, <2>3
<1>10. CASE s = "execution"
  <2>1. /\ life["execution"] = "closing" /\ life'["execution"] = "zero" /\ life'["producer"] = life["producer"]
        /\ life'["consensus"] = life["consensus"]
        /\ outbox'["producer"] = outbox["producer"] /\ outbox'["consensus"] = outbox["consensus"]
        /\ outbox'["execution"] = << >> /\ inbox'["execution"] = << >> /\ inbox'["runner"] = inbox["runner"]
        /\ inbox'["consensus"] = Append(inbox["consensus"], Done) \/ inbox'["consensus"] = inbox["consensus"]
        /\ Through("execution") /\ Ended("execution") /\ script' = script /\ accepted' = accepted
        /\ (Through("producer")' <=> Through("producer")) /\ (Through("consensus")' <=> Through("consensus"))
    BY <1>1, <1>4, <1>7, <1>10, Roads DEF Through, Ended
  <2>2. StreamOK'
    <3>1. Through("producer") /\ \A i \in DOMAIN inbox["execution"] : inbox["execution"][i].type # "CONTRACT"
      BY <1>6, <2>1 DEF StreamOK
    <3> QED  BY <1>6, <2>1, <3>1 DEF StreamOK
  <2>3. ASSUME FirstOK PROVE FirstOK'
    <3>1. AtConsensus
      BY <2>1, <2>3 DEF FirstOK
    <3>2. /\ inbox["consensus"] # << >> => inbox'["consensus"] # << >>
          /\ Leads(inbox["consensus"], "EXECUTION_RESULT") => Leads(inbox'["consensus"], "EXECUTION_RESULT")
      <4>1. inbox["consensus"] = << >> \/ inbox'["consensus"] # << >>
        BY <1>8, <2>1, OneMore, DoneGoesAnywhere
      <4>2. Leads(inbox["consensus"], "EXECUTION_RESULT") => Leads(Append(inbox["consensus"], Done), "EXECUTION_RESULT")
        BY <1>8, OneMore, DoneGoesAnywhere
      <4> QED  BY <2>1, <4>1, <4>2 DEF Leads
    <3> QED  BY <2>1, <2>3, <3>1, <3>2 DEF FirstOK, AtExecution, AtConsensus, AtRunner, Leads
  <2> QED  BY <1>1, <1>6, <2>2, <2>3
<1>11. CASE s = "consensus"
  <2>1. /\ life'["execution"] = life["execution"] /\ life'["producer"] = life["producer"]
        /\ outbox'["producer"] = outbox["producer"] /\ outbox'["execution"] = outbox["execution"]
        /\ outbox'["consensus"] = << >> /\ inbox'["consensus"] = << >> /\ inbox'["execution"] = inbox["execution"]
        /\ inbox'["runner"] = Append(inbox["runner"], Done) \/ inbox'["runner"] = inbox["runner"]
        /\ Through("consensus") /\ script' = script /\ accepted' = accepted
        /\ (Through("producer")' <=> Through("producer")) /\ (Through("execution")' <=> Through("execution"))
        /\ (Ended("execution")' => Ended("execution"))
    BY <1>1, <1>4, <1>7, <1>11, Roads DEF Through
  <2>2. StreamOK'
    BY <1>6, <2>1, StreamSame
  <2>3. ASSUME FirstOK PROVE FirstOK'
    <3>1. AtRunner
      BY <2>1, <2>3 DEF FirstOK
    <3>2. inbox'["runner"] # << >> /\ Leads(inbox'["runner"], "CONSENSUS_PROOF")
      <4>1. Leads(inbox["runner"], "CONSENSUS_PROOF")
        BY <2>3, <3>1 DEF FirstOK
      <4>2. Leads(Append(inbox["runner"], Done), "CONSENSUS_PROOF")
        BY <1>8, <4>1, OneMore, DoneGoesAnywhere
      <4> QED  BY <2>1, <4>1, <4>2 DEF Leads
    <3> QED  BY <2>1, <2>3, <3>1, <3>2 DEF FirstOK, AtExecution, AtConsensus, AtRunner, Leads
  <2> QED  BY <1>1, <1>6, <2>2, <2>3
<1> QED  BY <1>9, <1>10, <1>11, Roads

\* What the producer has to put when it starts: the contracts, then DONE.
Opening == Append([i \in DOMAIN script |-> Msg("CONTRACT", script[i], TRUE)], Done)

LEMMA OpeningIs ==
  ASSUME script \in Seq(Contracts)
  PROVE  /\ Opening \in Seq(For("execution")) /\ Opening # << >>
         /\ \A i \in DOMAIN Opening : Opening[i].type = "DONE" => i = Len(Opening)
         /\ \A k \in DOMAIN script :
               k \in DOMAIN Opening /\ Opening[k].type = "CONTRACT" /\ Opening[k].of = script[k]
         /\ script # << >> => Leads(Opening, "CONTRACT")
<1> DEFINE n == Len(script)
           body == [i \in 1..n |-> Msg("CONTRACT", script[i], TRUE)]
<1>1. n \in Nat /\ DOMAIN script = 1..n /\ (\A i \in 1..n : script[i] \in Contracts) /\ (script # << >> => n >= 1)
  OBVIOUS
<1>2. \A i \in 1..n : Msg("CONTRACT", script[i], TRUE) \in For("execution")
  BY <1>1 DEF For, Handled, Message, Msg
<1>3. body \in Seq(For("execution")) /\ Len(body) = n /\ DOMAIN body = 1..n
  <2>1. \A S : \A j \in Nat : \A f \in [1..j -> S] : f \in Seq(S) /\ Len(f) = j
    OBVIOUS
  <2>2. body \in [1..n -> For("execution")]
    BY <1>2
  <2> HIDE DEF body, n
  <2> QED  BY <1>1, <2>1, <2>2
<1>4. \A i \in 1..n : body[i].type = "CONTRACT" /\ body[i].of = script[i]
  BY DEF Msg
<1>5. Opening = Append(body, Done)
  BY <1>1 DEF Opening
<1> HIDE DEF body, n
<1>6. /\ Opening \in Seq(For("execution")) /\ Opening # << >> /\ DOMAIN Opening = 1..n + 1
      /\ \A i \in 1..n : Opening[i] = body[i]
      /\ body # << >> => Head(Opening) = Head(body)
  BY <1>3, <1>5, Queued, DoneGoesAnywhere
<1>7. Len(Opening) = n + 1
  BY <1>1, <1>6, Queued
<1>8. body # << >> => Head(body) = body[1] /\ 1 \in 1..n
  BY <1>3, Queued
<1>9. script # << >> => body # << >>
  BY <1>1, <1>3
<1> QED  BY <1>1, <1>4, <1>6, <1>7, <1>8, <1>9 DEF Leads

LEMMA BootKeepsWay ==
  ASSUME WayInv, NEW s \in Stage, Boot(s) PROVE TypesOK' /\ StartsOK' /\ UnderWay'
<1>1. /\ TypesOK /\ StartsOK /\ UnderWay /\ life[s] = "started" /\ crashStage # s
      /\ UNCHANGED <<script, crashStage, phase, accepted, connected, inbox>>
      /\ outbox[s] = << >> /\ script \in Seq(Contracts) /\ InOK /\ OutOK
  BY DEF WayInv, Boot, runnerVars, StartsOK, TypesOK
<1>2. life' \in [Stage -> {"started", "serving", "closing"} \cup ExitCodes]
      /\ life'[s] = "serving" /\ \A r \in Stage : r # s => life'[r] = life[r]
  BY DEF WayInv, Boot, TypesOK
<1>3. OutOK' /\ outbox'[s] = (IF s = "producer" THEN Opening ELSE << >>) /\ \A r \in Stage : r # s => outbox'[r] = outbox[r]
  <2> DEFINE q == IF s = "producer" THEN Opening ELSE << >>
  <2>1. outbox' = [outbox EXCEPT ![s] = q]
    BY DEF Boot, Opening
  <2>2. q \in Seq(For(Downstream[s]))
    <3>1. \A l : << >> \in Seq(For(l))
      OBVIOUS
    <3>2. script \in Seq(Contracts) /\ Downstream["producer"] = "execution"
      BY <1>1, Roads
    <3>3. Opening \in Seq(For("execution"))
      BY <3>2, OpeningIs
    <3> QED  BY <3>1, <3>2, <3>3
  <2> HIDE DEF q
  <2>3. OutOK' /\ outbox'[s] = q /\ \A r \in Stage : r # s => outbox'[r] = outbox[r]
    BY <1>1, <2>1, <2>2, OutboxSet
  <2> QED  BY <2>3 DEF q
<1>4. TypesOK'
  <2>1. InOK'
    BY <1>1 DEF InOK
  <2> QED  BY <1>1, <1>2, <1>3, <2>1 DEF TypesOK
<1>5. StartsOK'
  <2>1. \A r \in connected \ {"consensus"} : Downstream[r] \in Stage
    BY <1>1 DEF TypesOK, Downstream, Stage
  <2>2. crashStage # None => crashStage \in Stage
    BY <1>1 DEF TypesOK
  <2> QED  BY <1>1, <1>2, <1>3, <2>1, <2>2 DEF StartsOK
<1> SUFFICES ASSUME Fine', phase' # "done" PROVE StreamOK' /\ (script' # << >> => FirstOK')
  BY <1>4, <1>5 DEF UnderWay
<1>6. StreamOK /\ (script # << >> => FirstOK)
  BY <1>1, <1>2 DEF UnderWay, Fine
<1>7. CASE s = "producer"
  <2>1. /\ life["producer"] = "started" /\ life'["producer"] = "serving" /\ life'["execution"] = life["execution"]
        /\ life'["consensus"] = life["consensus"] /\ outbox'["execution"] = outbox["execution"]
        /\ outbox'["consensus"] = outbox["consensus"] /\ outbox'["producer"] = Opening
        /\ ~ Through("producer") /\ ~ Through("producer")' /\ (Ended("execution")' <=> Ended("execution"))
        /\ (Through("execution")' <=> Through("execution")) /\ (Through("consensus")' <=> Through("consensus"))
    BY <1>1, <1>2, <1>3, <1>7, Roads DEF Through, Ended
  <2>2. StreamOK'
    <3>1. inbox'["execution"] = << >> /\ ~ Ended("execution")'
      BY <1>1, <1>6, <2>1 DEF StreamOK
    <3> QED  BY <1>1, <2>1, <3>1, OpeningIs DEF StreamOK
  <2>3. ASSUME FirstOK, script # << >> PROVE FirstOK'
    <3>1. Leads(Opening, "CONTRACT")
      BY <1>1, <2>3, OpeningIs
    <3> QED  BY <1>1, <2>1, <2>3, <3>1 DEF FirstOK, AtExecution, AtConsensus, AtRunner, Leads
  <2> QED  BY <1>1, <1>6, <2>2, <2>3
<1>8. CASE s # "producer"
  <2>1. /\ outbox'["producer"] = outbox["producer"] /\ outbox'["execution"] = outbox["execution"]
        /\ outbox'["consensus"] = outbox["consensus"] /\ life'["producer"] = life["producer"]
        /\ \A r \in Stage : (Through(r)' <=> Through(r)) /\ (Ended(r)' <=> Ended(r))
    BY <1>1, <1>2, <1>3, <1>8, Roads DEF Through, Ended
  <2>2. StreamOK'
    BY <1>1, <1>6, <2>1, StreamSame, Roads
  <2>3. ASSUME FirstOK PROVE FirstOK'
    BY <1>1, <2>1, <2>3, Roads DEF FirstOK, AtExecution, AtConsensus, AtRunner, Leads
  <2> QED  BY <1>1, <1>6, <2>2, <2>3
<1> QED  BY <1>7, <1>8

\* What a stage puts leaves its outbox and reaches the listener or is lost.
LEMMA PutMoves ==
  ASSUME TypesOK, NEW s \in Stage, Put(s)
  PROVE  /\ TypesOK' /\ outbox'[s] = Tail(outbox[s]) /\ \A r \in Stage : r # s => outbox'[r] = outbox[r]
         /\ life'[s] = (IF Head(outbox[s]) = Done THEN "closing" ELSE "serving")
         /\ \A r \in Stage : r # s => life'[r] = life[r]
         /\ Head(outbox[s]) \in For(Downstream[s]) /\ outbox[s] \in Seq(For(Downstream[s]))
         /\ \A l \in Listeners : l # Downstream[s] => inbox'[l] = inbox[l]
         /\ inbox'[Downstream[s]] = IF Listening(Downstream[s])
                                    THEN Append(inbox[Downstream[s]], Head(outbox[s])) ELSE inbox[Downstream[s]]
<1>1. /\ OutOK /\ InOK /\ Downstream[s] \in Listeners /\ outbox[s] # << >> /\ life[s] = "serving"
      /\ outbox[s] \in Seq(For(Downstream[s])) /\ inbox' = Arrive(Downstream[s], Head(outbox[s]))
      /\ outbox' = [outbox EXCEPT ![s] = Tail(outbox[s])]
      /\ UNCHANGED <<script, crashStage>> /\ connected' = connected \cup {s}
  BY DownstreamListens DEF TypesOK, OutOK, Put
<1>2. Head(outbox[s]) \in For(Downstream[s]) /\ Tail(outbox[s]) \in Seq(For(Downstream[s]))
  BY <1>1, Taken
<1>3. OutOK' /\ outbox'[s] = Tail(outbox[s]) /\ \A r \in Stage : r # s => outbox'[r] = outbox[r]
  <2> DEFINE q == Tail(outbox[s])
  <2>1. q \in Seq(For(Downstream[s])) /\ outbox' = [outbox EXCEPT ![s] = q]
    BY <1>1, <1>2
  <2> HIDE DEF q
  <2>2. OutOK' /\ outbox'[s] = q /\ \A r \in Stage : r # s => outbox'[r] = outbox[r]
    BY <1>1, <2>1, OutboxSet
  <2> QED  BY <2>2 DEF q
<1>4. /\ InOK' /\ \A l \in Listeners : l # Downstream[s] => inbox'[l] = inbox[l]
      /\ inbox'[Downstream[s]] = IF Listening(Downstream[s])
                                 THEN Append(inbox[Downstream[s]], Head(outbox[s])) ELSE inbox[Downstream[s]]
  <2> DEFINE D == Downstream[s]
             new == Arrive(D, Head(outbox[s]))
  <2>1. /\ new \in [Listeners -> Seq(Message)]
        /\ \A k \in Listeners : new[k] \in Seq(For(k))
        /\ \A k \in Listeners : k # D => new[k] = inbox[k]
        /\ new[D] = IF Listening(D) THEN Append(inbox[D], Head(outbox[s])) ELSE inbox[D]
    BY <1>1, <1>2, ArriveTyped
  <2>2. inbox' = new
    BY <1>1
  <2> HIDE DEF new
  <2> QED  BY <2>1, <2>2 DEF InOK
<1>5. /\ life' \in [Stage -> {"started", "serving", "closing"} \cup ExitCodes]
      /\ life'[s] = (IF Head(outbox[s]) = Done THEN "closing" ELSE "serving")
      /\ \A r \in Stage : r # s => life'[r] = life[r]
  BY <1>1 DEF Put, TypesOK
<1>6. TypesOK'
  BY <1>1, <1>3, <1>4, <1>5 DEF TypesOK
<1> QED  BY <1>1, <1>2, <1>3, <1>4, <1>5, <1>6

LEMMA PutStarts == ASSUME TypesOK, StartsOK, NEW s \in Stage, Put(s) PROVE StartsOK'
<1>1. /\ \A r \in Stage : r # s => outbox'[r] = outbox[r] /\ life'[r] = life[r]
      /\ life'[s] # "started"
  BY PutMoves
<1>2. life[s] = "serving" /\ connected' = connected \cup {s} /\ crashStage' = crashStage
      /\ (s \in connected \/ Listening(Downstream[s]))
  BY DEF Put
<1>3. \A r \in Stage \ {"consensus"} : Downstream[r] \in Stage /\ Downstream[r] # r /\ Downstream[r] # "runner"
  BY DEF Downstream, Stage
<1>4. (crashStage # None => crashStage \in Stage /\ crashStage # s) /\ connected \subseteq Stage
  BY <1>2 DEF TypesOK, StartsOK
<1>5. s # "consensus" => life[Downstream[s]] # "started"
  BY <1>2, <1>3 DEF StartsOK, Listening
<1> QED  BY <1>1, <1>2, <1>3, <1>4, <1>5 DEF StartsOK

\* A queue with the head of another one put behind it.
LEMMA Handed ==
  ASSUME NEW S, NEW q \in Seq(S), q # << >>, NEW p \in Seq(S)
  PROVE  LET r == Append(p, Head(q)) IN
         /\ r # << >> /\ \A type : Leads(p, type) => Leads(r, type)
         /\ p = << >> => \A type : Leads(q, type) => Leads(r, type)
<1>1. Head(q) \in S
  BY Queued
<1> QED  BY <1>1, Queued DEF Leads

LEMMA PutKeepsWay ==
  ASSUME WayInv, NEW s \in Stage, Put(s) PROVE TypesOK' /\ StartsOK' /\ UnderWay'
<1>1. /\ TypesOK /\ StartsOK /\ UnderWay /\ UNCHANGED <<script, crashStage, phase, accepted>>
      /\ life[s] = "serving" /\ outbox[s] # << >> /\ (s \in connected \/ Listening(Downstream[s]))
  BY DEF WayInv, Put, runnerVars
<1>2. TypesOK' /\ StartsOK'
  BY <1>1, PutMoves, PutStarts
<1>3. /\ outbox'[s] = Tail(outbox[s]) /\ \A r \in Stage : r # s => outbox'[r] = outbox[r]
      /\ life'[s] = (IF Head(outbox[s]) = Done THEN "closing" ELSE "serving")
      /\ \A r \in Stage : r # s => life'[r] = life[r]
      /\ Head(outbox[s]) \in For(Downstream[s]) /\ outbox[s] \in Seq(For(Downstream[s]))
      /\ \A l \in Listeners : l # Downstream[s] => inbox'[l] = inbox[l]
      /\ inbox'[Downstream[s]] = IF Listening(Downstream[s])
                                 THEN Append(inbox[Downstream[s]], Head(outbox[s])) ELSE inbox[Downstream[s]]
  BY <1>1, PutMoves
<1> SUFFICES ASSUME Fine', phase' # "done" PROVE StreamOK' /\ (script' # << >> => FirstOK')
  BY <1>2 DEF UnderWay
<1>4. Fine /\ phase # "done"
  BY <1>1, <1>3 DEF Fine
<1>5. StreamOK /\ (script # << >> => FirstOK)
  BY <1>1, <1>4 DEF UnderWay
<1>6. /\ inbox["execution"] \in Seq(For("execution")) /\ inbox["consensus"] \in Seq(For("consensus"))
      /\ inbox["runner"] \in Seq(For("runner"))
  BY <1>1, Roads DEF TypesOK, InOK
\* A connected stage finds its listener there, or the listener has done its part.
<1>7. s # "consensus" /\ ~ Listening(Downstream[s]) => Through(Downstream[s])
  <2>1. s # "consensus" => Downstream[s] \in Stage
    BY Roads
  <2> QED  BY <1>1, <1>4, <2>1, Roads DEF StartsOK, Listening, TypesOK, ExitCodes, Fine, Through
<1>8. /\ ~ Through(s) /\ \A r \in Stage : r # s => (Through(r)' <=> Through(r)) /\ (Ended(r)' <=> Ended(r))
      /\ Through(s)' <=> Head(outbox[s]) = Done
  BY <1>1, <1>3 DEF Through, Ended
<1>9. CASE s = "producer"
  <2> DEFINE m == Head(outbox["producer"])
  <2>1. ~ Through("execution") /\ Listening("execution") /\ ~ Ended("execution")
    BY <1>1, <1>5, <1>7, <1>8, <1>9, Roads DEF StreamOK, Ended
  <2>2. /\ life["producer"] = "serving" /\ life'["producer"] \in {"closing", "serving"}
        /\ outbox'["producer"] = Tail(outbox["producer"]) /\ outbox["producer"] # << >>
        /\ outbox["producer"] \in Seq(For("execution")) /\ m \in For("execution")
        /\ outbox'["execution"] = outbox["execution"] /\ outbox'["consensus"] = outbox["consensus"]
        /\ inbox'["execution"] = Append(inbox["execution"], m)
        /\ inbox'["consensus"] = inbox["consensus"] /\ inbox'["runner"] = inbox["runner"]
        /\ ~ Through("producer") /\ (Through("producer")' <=> m = Done)
        /\ ~ Ended("execution")' /\ (Through("execution")' <=> Through("execution"))
        /\ (Through("consensus")' <=> Through("consensus"))
    BY <1>1, <1>3, <1>8, <1>9, <2>1, Roads
  <2>3. m = Done <=> m.type = "DONE"
    BY <2>2, DoneTold, Roads
  <2>4. StreamOK'
    <3> DEFINE put == outbox["producer"]
               got == inbox["execution"]
    <3>1. /\ Len(put) \in Nat /\ DOMAIN put = 1..Len(put) /\ m = put[1] /\ 1 \in DOMAIN put
          /\ DOMAIN Tail(put) = 1..Len(put) - 1 /\ Len(Tail(put)) = Len(put) - 1
          /\ \A i \in DOMAIN Tail(put) : i + 1 \in DOMAIN put /\ Tail(put)[i] = put[i + 1] /\ i \in Nat
          /\ \A i \in DOMAIN put : i # 1 => i - 1 \in DOMAIN Tail(put) /\ Tail(put)[i - 1] = put[i]
          /\ (Len(put) = 1 => Tail(put) = << >>)
      BY <2>2, Queued
    <3>2. /\ Len(got) \in Nat /\ DOMAIN got = 1..Len(got) /\ DOMAIN Append(got, m) = 1..Len(got) + 1
          /\ Append(got, m)[Len(got) + 1] = m /\ \A i \in DOMAIN got : Append(got, m)[i] = got[i]
      BY <1>6, <2>2, Queued
    <3>3. /\ \A i \in DOMAIN put : put[i].type = "DONE" => i = Len(put)
          /\ \A i \in DOMAIN got : got[i].type # "DONE"
      BY <1>5, <2>2 DEF StreamOK
    <3>4. /\ m.type = "DONE" => Tail(put) = << >>
          /\ \A i \in DOMAIN Tail(put) : Tail(put)[i].type = "DONE" => i = Len(Tail(put))
      BY <3>1, <3>3
    <3>5. \A i, j \in DOMAIN Append(got, m) :
             Append(got, m)[i].type = "DONE" /\ Append(got, m)[j].type = "CONTRACT" => j < i
      BY <3>2, <3>3
    <3>6. \A i \in DOMAIN Append(got, m) : Append(got, m)[i].type = "DONE" => m.type = "DONE"
      BY <3>2, <3>3
    <3>7. ASSUME NEW k \in DOMAIN script, script[k] \notin accepted
          PROVE  \/ \E i \in DOMAIN Tail(put) : Tail(put)[i].type = "CONTRACT" /\ Tail(put)[i].of = script[k]
                 \/ \E i \in DOMAIN Append(got, m) :
                       Append(got, m)[i].type = "CONTRACT" /\ Append(got, m)[i].of = script[k]
      <4>1. \/ \E i \in DOMAIN put : put[i].type = "CONTRACT" /\ put[i].of = script[k]
            \/ \E i \in DOMAIN got : got[i].type = "CONTRACT" /\ got[i].of = script[k]
        BY <1>5, <2>2, <3>7 DEF StreamOK
      <4>2. CASE \E i \in DOMAIN put : put[i].type = "CONTRACT" /\ put[i].of = script[k]
        <5>1. PICK i \in DOMAIN put : put[i].type = "CONTRACT" /\ put[i].of = script[k]
          BY <4>2
        <5>2. CASE i = 1
          <6> HIDE DEF m, put, got
          <6>1. Len(got) + 1 \in DOMAIN Append(got, m)
            BY <3>2
          <6>2. m.type = "CONTRACT" /\ m.of = script[k]
            BY <3>1, <5>1, <5>2
          <6> QED  BY <3>2, <6>1, <6>2
        <5>3. CASE i # 1
          <6> HIDE DEF m, put, got
          <6> QED  BY <3>1, <5>1, <5>3
        <5> QED  BY <5>2, <5>3
      <4>3. CASE \E i \in DOMAIN got : got[i].type = "CONTRACT" /\ got[i].of = script[k]
        <5>1. PICK i \in DOMAIN got : got[i].type = "CONTRACT" /\ got[i].of = script[k]
          BY <4>3
        <5>2. i \in DOMAIN Append(got, m) /\ Append(got, m)[i] = got[i]
          BY <3>2
        <5> QED  BY <5>1, <5>2
      <4> QED  BY <4>1, <4>2, <4>3
    <3>8. script' = script /\ accepted' = accepted
      BY <1>1
    <3> HIDE DEF m
    <3> QED  BY <2>2, <2>3, <3>4, <3>5, <3>6, <3>7, <3>8 DEF StreamOK
  <2>5. ASSUME FirstOK PROVE FirstOK'
    <3>1. /\ inbox'["execution"] # << >>
          /\ Leads(inbox["execution"], "CONTRACT") => Leads(inbox'["execution"], "CONTRACT")
          /\ inbox["execution"] = << >> /\ Leads(outbox["producer"], "CONTRACT") =>
                Leads(inbox'["execution"], "CONTRACT")
      BY <1>6, <2>2, Handed
    <3> HIDE DEF m
    <3> QED  BY <1>1, <2>2, <2>5, <3>1 DEF FirstOK, AtExecution, AtConsensus, AtRunner, Leads
  <2> QED  BY <1>1, <1>5, <2>4, <2>5
<1>10. CASE s = "execution"
  <2>1. /\ outbox["execution"] # << >> /\ outbox["execution"] \in Seq(For("consensus"))
        /\ Head(outbox["execution"]) \in For("consensus")
        /\ outbox'["producer"] = outbox["producer"] /\ outbox'["execution"] = Tail(outbox["execution"])
        /\ outbox'["consensus"] = outbox["consensus"] /\ life'["producer"] = life["producer"]
        /\ inbox'["execution"] = inbox["execution"] /\ inbox'["runner"] = inbox["runner"]
        /\ inbox'["consensus"] = IF Listening("consensus")
                                 THEN Append(inbox["consensus"], Head(outbox["execution"])) ELSE inbox["consensus"]
        /\ (Through("producer")' <=> Through("producer")) /\ (Through("consensus")' <=> Through("consensus"))
        /\ (Through("execution")' <=> Head(outbox["execution"]) = Done)
        /\ (~ Listening("consensus") => Through("consensus"))
        /\ script' = script /\ accepted' = accepted
    BY <1>1, <1>3, <1>7, <1>8, <1>10, Roads
  <2>2. Ended("execution")' => Ended("execution")
    <3> DEFINE q == outbox["execution"]
    <3>1. /\ Head(q) = q[1] /\ 1 \in DOMAIN q
          /\ \A i \in DOMAIN Tail(q) : i + 1 \in DOMAIN q /\ Tail(q)[i] = q[i + 1]
      BY <2>1, Queued
    <3>2. Head(q) = Done => Head(q).type = "DONE"
      BY DEF Done, Msg
    <3> QED  BY <2>1, <3>1, <3>2 DEF Ended
  <2>3. StreamOK'
    BY <1>5, <2>1, <2>2, StreamSame
  <2>4. ASSUME FirstOK PROVE FirstOK'
    <3>1. CASE Listening("consensus")
      <4>1. /\ inbox'["consensus"] # << >>
            /\ Leads(inbox["consensus"], "EXECUTION_RESULT") => Leads(inbox'["consensus"], "EXECUTION_RESULT")
            /\ inbox["consensus"] = << >> /\ Leads(outbox["execution"], "EXECUTION_RESULT") =>
                  Leads(inbox'["consensus"], "EXECUTION_RESULT")
        BY <1>6, <2>1, <3>1, Handed
      <4> QED  BY <2>1, <2>4, <4>1 DEF FirstOK, AtExecution, AtConsensus, AtRunner, Leads
    <3>2. CASE ~ Listening("consensus")
      <4>1. AtRunner
        BY <2>1, <2>4, <3>2 DEF FirstOK
      <4> QED  BY <2>1, <2>4, <3>2, <4>1 DEF FirstOK, AtExecution, AtConsensus, AtRunner, Leads
    <3> QED  BY <3>1, <3>2
  <2> QED  BY <1>1, <1>5, <2>3, <2>4
<1>11. CASE s = "consensus"
  <2>1. /\ outbox["consensus"] # << >> /\ outbox["consensus"] \in Seq(For("runner"))
        /\ outbox'["producer"] = outbox["producer"] /\ outbox'["execution"] = outbox["execution"]
        /\ outbox'["consensus"] = Tail(outbox["consensus"]) /\ life'["producer"] = life["producer"]
        /\ inbox'["execution"] = inbox["execution"] /\ inbox'["consensus"] = inbox["consensus"]
        /\ inbox'["runner"] = Append(inbox["runner"], Head(outbox["consensus"]))
        /\ (Through("producer")' <=> Through("producer")) /\ (Through("execution")' <=> Through("execution"))
        /\ (Ended("execution")' <=> Ended("execution"))
        /\ script' = script /\ accepted' = accepted
    BY <1>1, <1>3, <1>4, <1>8, <1>11, Roads DEF Listening
  <2>2. StreamOK'
    BY <1>5, <2>1, StreamSame
  <2>3. ASSUME FirstOK PROVE FirstOK'
    <3>1. /\ inbox'["runner"] # << >>
          /\ Leads(inbox["runner"], "CONSENSUS_PROOF") => Leads(inbox'["runner"], "CONSENSUS_PROOF")
          /\ inbox["runner"] = << >> /\ Leads(outbox["consensus"], "CONSENSUS_PROOF") =>
                Leads(inbox'["runner"], "CONSENSUS_PROOF")
      BY <1>6, <2>1, Handed
    <3> QED  BY <2>1, <2>3, <3>1 DEF FirstOK, AtExecution, AtConsensus, AtRunner, Leads
  <2> QED  BY <1>1, <1>5, <2>2, <2>3
<1> QED  BY <1>9, <1>10, <1>11, Roads

\* A message handled leaves its queue, and the answer is all there is to put.
LEMMA HandleMoves ==
  ASSUME TypesOK, StartsOK, NEW s \in {"execution", "consensus"}, NEW type, Receives(s, type),
         NEW answer \in For(Downstream[s]), Handle(s, answer)
  PROVE  /\ TypesOK' /\ StartsOK' /\ inbox'[s] = Tail(inbox[s]) /\ inbox[s] \in Seq(For(s))
         /\ inbox[s] # << >> /\ Head(inbox[s]).type = type
         /\ outbox[s] = << >> /\ outbox'[s] = <<answer>> /\ life[s] = "serving"
         /\ UNCHANGED <<script, crashStage, life, connected, phase>>
         /\ \A r \in Stage : r # s => outbox'[r] = outbox[r]
         /\ \A l \in Listeners : l # s => inbox'[l] = inbox[l]
<1>1. /\ OutOK /\ InOK /\ s \in Stage /\ s \in Listeners /\ inbox[s] # << >> /\ life[s] = "serving"
      /\ outbox[s] = << >> /\ Head(inbox[s]).type = type /\ inbox[s] \in Seq(For(s))
      /\ outbox' = [outbox EXCEPT ![s] = <<answer>>]
      /\ inbox' = [inbox EXCEPT ![s] = Tail(inbox[s])]
      /\ UNCHANGED <<script, crashStage, life, connected, phase>>
  BY Roads DEF TypesOK, InOK, Receives, Handle, runnerVars
<1>2. OutOK' /\ outbox'[s] = <<answer>> /\ \A r \in Stage : r # s => outbox'[r] = outbox[r]
  <2>1. <<answer>> \in Seq(For(Downstream[s]))
    OBVIOUS
  <2> QED  BY <1>1, <2>1, OutboxSet
<1>3. InOK' /\ inbox'[s] = Tail(inbox[s]) /\ \A l \in Listeners : l # s => inbox'[l] = inbox[l]
  <2> DEFINE q == Tail(inbox[s])
  <2>1. q \in Seq(For(s)) /\ inbox' = [inbox EXCEPT ![s] = q]
    BY <1>1, Taken
  <2> HIDE DEF q
  <2>2. InOK' /\ inbox'[s] = q /\ \A k \in Listeners : k # s => inbox'[k] = inbox[k]
    BY <1>1, <2>1, InboxSet
  <2> QED  BY <2>2 DEF q
<1>4. TypesOK'
  BY <1>1, <1>2, <1>3 DEF TypesOK
<1>5. StartsOK'
  BY <1>1, <1>2 DEF StartsOK
<1> QED  BY <1>1, <1>2, <1>3, <1>4, <1>5

LEMMA ConsensusKeepsWay ==
  ASSUME WayInv, PassDoneOn("consensus") \/ ProveConsensus PROVE TypesOK' /\ StartsOK' /\ UnderWay'
<1> DEFINE m == Head(inbox["consensus"])
<1>1. PICK type \in {"DONE", "EXECUTION_RESULT"}, answer \in For("runner") :
         /\ Receives("consensus", type) /\ Handle("consensus", answer) /\ accepted' = accepted
         /\ type = "EXECUTION_RESULT" => answer.type = "CONSENSUS_PROOF" /\ answer.of = m.of
  <2>1. CASE PassDoneOn("consensus")
    BY <2>1, DoneGoesAnywhere DEF PassDoneOn
  <2>2. CASE ProveConsensus
    <3>1. inbox["consensus"] \in Seq(For("consensus")) /\ inbox["consensus"] # << >> /\ m.type = "EXECUTION_RESULT"
      BY <2>2, Roads DEF WayInv, TypesOK, InOK, ProveConsensus, Receives
    <3>2. m \in Message
      BY <3>1, Taken DEF For
    <3> DEFINE a == Msg("CONSENSUS_PROOF", m.of, m.ok)
    <3>3. a \in For("runner") /\ a.type = "CONSENSUS_PROOF" /\ a.of = m.of
      BY <3>2 DEF Msg, For, Message, Handled
    <3>4. Receives("consensus", "EXECUTION_RESULT") /\ Handle("consensus", a) /\ accepted' = accepted
      BY <2>2 DEF ProveConsensus
    <3> HIDE DEF a
    <3> QED  BY <3>3, <3>4
  <2> QED  BY <2>1, <2>2
<1> HIDE DEF m
<1>2. TypesOK /\ StartsOK /\ UnderWay
  BY DEF WayInv
<1>3. /\ TypesOK' /\ StartsOK' /\ inbox["consensus"] # << >> /\ m.type = type
      /\ outbox["consensus"] = << >> /\ outbox'["consensus"] = <<answer>>
      /\ UNCHANGED <<script, crashStage, life, connected, phase>>
      /\ outbox'["producer"] = outbox["producer"] /\ outbox'["execution"] = outbox["execution"]
      /\ inbox'["execution"] = inbox["execution"] /\ inbox'["runner"] = inbox["runner"]
  BY <1>1, <1>2, HandleMoves, Roads DEF m
<1> SUFFICES ASSUME Fine', phase' # "done" PROVE StreamOK' /\ (script' # << >> => FirstOK')
  BY <1>3 DEF UnderWay
<1>4. StreamOK /\ (script # << >> => FirstOK)
  BY <1>2, <1>3 DEF UnderWay, Fine
<1>5. StreamOK'
  BY <1>1, <1>3, <1>4, StreamSame DEF Through, Ended
<1>6. ASSUME FirstOK PROVE FirstOK'
  <2>1. outbox'["consensus"] # << >> /\ Head(outbox'["consensus"]) = answer
    BY <1>3
  <2>2. ~ AtRunner => m.type = "EXECUTION_RESULT" /\ m.of = script[1]
    BY <1>3, <1>6 DEF FirstOK, Leads, m
  <2> QED  BY <1>1, <1>3, <1>6, <2>1, <2>2 DEF FirstOK, AtExecution, AtConsensus, AtRunner, Leads, Through
<1> QED  BY <1>3, <1>4, <1>5, <1>6

\* Nothing but DONE comes behind a DONE, and what has been taken off the stream is accepted.
LEMMA ExecutionKeepsWay ==
  ASSUME WayInv, PassDoneOn("execution") \/ ExecuteContract PROVE TypesOK' /\ StartsOK' /\ UnderWay'
<1> DEFINE m == Head(inbox["execution"])
<1>1. PICK type \in {"DONE", "CONTRACT"}, answer \in For("consensus") :
         /\ Receives("execution", type) /\ Handle("execution", answer) /\ accepted \subseteq accepted'
         /\ type = "CONTRACT" => answer.type = "EXECUTION_RESULT" /\ answer.of = m.of /\ m.of \in accepted'
  <2>1. CASE PassDoneOn("execution")
    BY <2>1, DoneGoesAnywhere DEF PassDoneOn
  <2>2. CASE ExecuteContract
    <3>1. inbox["execution"] \in Seq(For("execution")) /\ inbox["execution"] # << >> /\ m.type = "CONTRACT"
      BY <2>2, Roads DEF WayInv, TypesOK, InOK, ExecuteContract, Receives
    <3>2. m \in Message
      BY <3>1, Taken DEF For
    <3> DEFINE ok == PassesChecks(m.of) /\ m.of \notin Weak
               a == Msg("EXECUTION_RESULT", m.of, ok)
    <3>3. ok \in BOOLEAN
      BY DEF PassesChecks
    <3>4. /\ Receives("execution", "CONTRACT") /\ Handle("execution", a) /\ accepted' = accepted \cup {m.of}
      BY <2>2 DEF ExecuteContract
    <3> HIDE DEF ok
    <3>5. a \in For("consensus") /\ a.type = "EXECUTION_RESULT" /\ a.of = m.of
      BY <3>2, <3>3 DEF Msg, For, Message, Handled
    <3> HIDE DEF a
    <3> QED  BY <3>4, <3>5
  <2> QED  BY <2>1, <2>2
<1> HIDE DEF m
<1>2. TypesOK /\ StartsOK /\ UnderWay
  BY DEF WayInv
<1>3. /\ TypesOK' /\ StartsOK' /\ inbox["execution"] # << >> /\ m.type = type /\ life["execution"] = "serving"
      /\ inbox["execution"] \in Seq(For("execution")) /\ inbox'["execution"] = Tail(inbox["execution"])
      /\ outbox["execution"] = << >> /\ outbox'["execution"] = <<answer>>
      /\ UNCHANGED <<script, crashStage, life, connected, phase>>
      /\ outbox'["producer"] = outbox["producer"] /\ outbox'["consensus"] = outbox["consensus"]
      /\ inbox'["consensus"] = inbox["consensus"] /\ inbox'["runner"] = inbox["runner"]
  BY <1>1, <1>2, HandleMoves, Roads DEF m
<1> SUFFICES ASSUME Fine', phase' # "done" PROVE StreamOK' /\ (script' # << >> => FirstOK')
  BY <1>3 DEF UnderWay
<1>4. StreamOK /\ (script # << >> => FirstOK)
  BY <1>2, <1>3 DEF UnderWay, Fine
<1>5. StreamOK'
  <2> DEFINE got == inbox["execution"]
  <2>1. /\ m = got[1] /\ 1 \in DOMAIN got
        /\ \A i \in DOMAIN Tail(got) : i + 1 \in DOMAIN got /\ Tail(got)[i] = got[i + 1] /\ i \in Nat /\ i # 0
        /\ \A i \in DOMAIN got : i # 1 => i - 1 \in DOMAIN Tail(got) /\ Tail(got)[i - 1] = got[i]
        /\ \A i \in DOMAIN got : i \in Nat /\ i > 0
    <3>1. Tail(got) \in Seq(For("execution"))
      BY <1>3, Taken
    <3>2. DOMAIN got = 1..Len(got) /\ DOMAIN Tail(got) = 1..Len(Tail(got))
      BY <1>3, <3>1
    <3> QED  BY <1>3, <3>2, Queued DEF m
  <2>2. \A i \in DOMAIN got : got[i].type \in {"CONTRACT", "DONE"}
    BY <1>3 DEF For, Handled, Done, Msg
  <2> DEFINE rest == Tail(got)
  <2>3. ASSUME Ended("execution")' PROVE Through("producer") /\ \A i \in DOMAIN rest : rest[i].type = "DONE"
    <3>1. answer.type = "DONE"
      BY <1>3, <2>3 DEF Ended, Through
    <3>2. m.type = "DONE"
      BY <1>1, <1>3, <3>1
    <3> HIDE DEF got
    <3> QED  BY <1>4, <2>1, <2>2, <3>2 DEF StreamOK, got
  <2>4. \A i, j \in DOMAIN rest : rest[i].type = "DONE" /\ rest[j].type = "CONTRACT" => j < i
    BY <1>4, <2>1 DEF StreamOK
  <2>5. \A i \in DOMAIN rest : rest[i].type = "DONE" => Through("producer")
    BY <1>4, <2>1 DEF StreamOK
  <2>6. ASSUME NEW k \in DOMAIN script, script[k] \notin accepted',
               NEW i \in DOMAIN got, got[i].type = "CONTRACT", got[i].of = script[k]
        PROVE  \E j \in DOMAIN rest : rest[j].type = "CONTRACT" /\ rest[j].of = script[k]
    <3>1. i # 1
      BY <1>1, <1>3, <2>1, <2>6
    <3> HIDE DEF got
    <3> QED  BY <2>1, <2>6, <3>1
  <2>7. life["producer"] = "started" => rest = << >>
    BY <1>3, <1>4 DEF StreamOK
  <2> HIDE DEF got, rest
  <2> QED  BY <1>1, <1>3, <1>4, <2>3, <2>4, <2>5, <2>6, <2>7 DEF StreamOK, Through, got, rest
<1>6. ASSUME FirstOK PROVE FirstOK'
  <2>1. outbox'["execution"] # << >> /\ Head(outbox'["execution"]) = answer
    BY <1>3
  <2>2. ~ AtConsensus => m.type = "CONTRACT" /\ m.of = script[1]
    BY <1>3, <1>6 DEF FirstOK, Leads, m
  <2> QED  BY <1>1, <1>3, <1>6, <2>1, <2>2 DEF FirstOK, AtExecution, AtConsensus, AtRunner, Leads, Through
<1> QED  BY <1>3, <1>4, <1>5, <1>6

LEMMA StillKeepsWay ==
  ASSUME WayInv, UNCHANGED <<script, crashStage, life, outbox, inbox, connected, accepted>>,
         phase' # "done" => phase # "done"
  PROVE  TypesOK' /\ StartsOK' /\ UnderWay'
<1>1. TypesOK' /\ StartsOK' /\ (Fine' <=> Fine)
  BY DEF WayInv, TypesOK, OutOK, InOK, StartsOK, Fine
<1>2. (StreamOK' <=> StreamOK) /\ (FirstOK' <=> FirstOK)
  BY DEF StreamOK, FirstOK, Ended, Through, AtExecution, AtConsensus, AtRunner, Leads
<1> QED  BY <1>1, <1>2 DEF WayInv, UnderWay

LEMMA TerminateKeepsWay ==
  ASSUME WayInv, NEW s \in Stage, TerminateProcess(s), KeepExit, UNCHANGED <<script, crashStage, phase>>
  PROVE  TypesOK' /\ StartsOK' /\ UnderWay'
<1>1. CASE IsAlive(s)
  BY <1>1, LostKeeps DEF TerminateProcess
<1>2. CASE ~ IsAlive(s)
  BY <1>2, StillKeepsWay DEF TerminateProcess, KeepExit
<1> QED  BY <1>1, <1>2

\* The runner's watch is on the stages.
WatchOK == watch \in Seq(Stage)

LEMMA WatchKept == WatchOK /\ [PipelineNext]_pipelineVars => WatchOK'
<1> SUFFICES ASSUME WatchOK, [PipelineNext]_pipelineVars PROVE WatchOK'
  OBVIOUS
<1>1. Stages \in Seq(Stage)
  BY DEF Stages, Stage
<1>2. CASE StartRound
  <2>1. \A s \in Stage : IfAlive(s) \in Seq(Stage)
    BY DEF IfAlive
  <2> QED  BY <1>2, <2>1, Roads DEF StartRound, WatchOK
<1>3. CASE PollHeartbeat \/ TerminateRest
  BY <1>3 DEF PollHeartbeat, TerminateRest, WatchOK
<1>4. CASE StopPolling \/ TimeoutExceeded
  BY <1>1, <1>4 DEF StopPolling, TimeoutExceeded, WatchOK
<1>5. CASE Summarise \/ UNCHANGED pipelineVars
  BY <1>5 DEF Summarise, WatchOK, pipelineVars, runnerVars
<1>6. ASSUME NEW s \in Stage, StageWork(s) PROVE WatchOK'
  BY <1>6 DEF StageWork, StageStep, SimulateCrash, Boot, Put, ConnectFails, Finish, PassDoneOn, ExecuteContract,
       SubmitRaises, ProveConsensus, Handle, runnerVars, WatchOK
<1> QED  BY <1>2, <1>3, <1>4, <1>5, <1>6 DEF PipelineNext, Runner

\* A stage at work has not exited, so the runner has not reported that all went well.
LEMMA StageKeepsEnd == ASSUME WayInv, NEW s \in Stage, StageWork(s) PROVE EndOK'
<1>1. UNCHANGED <<phase, crashes>>
  BY DEF StageWork, StageStep, SimulateCrash, Boot, Put, ConnectFails, Finish, PassDoneOn, ExecuteContract,
       SubmitRaises, ProveConsensus, Handle, runnerVars
<1>2. life[s] \in {"started", "serving", "closing"}
  BY DEF StageWork, StageStep, SimulateCrash, Boot, Put, ConnectFails, Finish, PassDoneOn, ExecuteContract,
       SubmitRaises, ProveConsensus, Receives
<1>3. ~ PipelineOk
  BY <1>2 DEF WayInv, EndOK
<1> QED  BY <1>1, <1>3 DEF EndOK, PipelineOk

\* What the exit codes tell: each stage has come through, so each has heard the end of its
\* stream and has handed on what it had to.
LEMMA SummariseKeepsEnd == ASSUME WayInv, Summarise PROVE EndOK'
<1>1. /\ phase = "terminate" /\ crashes' = Crashed /\ result' = FirstMessage
      /\ UNCHANGED <<script, life, accepted>>
  BY DEF Summarise, KeepStages, stageVars
<1> SUFFICES ASSUME Crashed = {}
             PROVE  /\ \A s \in Stage : life[s] = "zero"
                    /\ script # << >> => FirstMessage.type = "CONSENSUS_PROOF" /\ FirstMessage.of = script[1]
                    /\ \A k \in DOMAIN script : script[k] \in accepted
  BY <1>1 DEF EndOK, PipelineOk
<1>2. \A s \in Stage : life[s] = "zero"
  BY DEF Crashed
<1>3. StreamOK /\ (script # << >> => FirstOK)
  BY <1>1, <1>2 DEF WayInv, UnderWay, Fine
<1>4. \A s \in Stage : Through(s) /\ Ended(s)
  BY <1>2 DEF Through, Ended
<1>5. outbox["producer"] = << >> /\ \A i \in DOMAIN inbox["execution"] : inbox["execution"][i].type = "DONE"
  BY <1>3, <1>4, Roads DEF StreamOK
<1>6. \A k \in DOMAIN script : script[k] \in accepted
  BY <1>2, <1>3, <1>5, Roads DEF StreamOK
<1>7. script # << >> => FirstMessage.type = "CONSENSUS_PROOF" /\ FirstMessage.of = script[1]
  BY <1>3, <1>4, Roads DEF FirstOK, AtRunner, Leads, FirstMessage
<1> QED  BY <1>2, <1>6, <1>7

WayAndWatch == WayInv /\ WatchOK

LEMMA RunnerKeepsWay == ASSUME WayAndWatch, Runner PROVE WayInv'
<1>1. WayInv /\ WatchOK
  BY DEF WayAndWatch
<1>2. CASE StartRound \/ StopPolling \/ TimeoutExceeded
  <2>1. TypesOK' /\ StartsOK' /\ UnderWay'
    BY <1>1, <1>2, StillKeepsWay DEF StartRound, StopPolling, TimeoutExceeded, KeepStages, stageVars
  <2>2. phase' # "done"
    BY <1>2 DEF StartRound, StopPolling, TimeoutExceeded
  <2> QED  BY <2>1, <2>2 DEF WayInv, EndOK, PipelineOk
<1>3. CASE PollHeartbeat \/ TerminateRest
  <2>1. Head(watch) \in Stage
    BY <1>1, <1>3, Taken DEF WatchOK, PollHeartbeat, TerminateRest
  <2>2. /\ KeepExit /\ UNCHANGED <<script, crashStage, phase>> /\ phase # "done"
        /\ TerminateProcess(Head(watch)) \/ UNCHANGED <<life, outbox, inbox>>
    BY <1>3 DEF PollHeartbeat, TerminateRest
  <2>3. TypesOK' /\ StartsOK' /\ UnderWay'
    BY <1>1, <2>1, <2>2, TerminateKeepsWay, StillKeepsWay DEF KeepExit
  <2> QED  BY <2>2, <2>3 DEF WayInv, EndOK, PipelineOk
<1>4. CASE Summarise
  <2>1. TypesOK' /\ StartsOK' /\ UnderWay'
    BY <1>1, <1>4, StillKeepsWay DEF Summarise, KeepStages, stageVars
  <2> QED  BY <1>1, <1>4, <2>1, SummariseKeepsEnd DEF WayInv
<1> QED  BY <1>2, <1>3, <1>4 DEF Runner

LEMMA StageKeepsWay == ASSUME WayInv, NEW s \in Stage, StageWork(s) PROVE WayInv'
<1>1. CASE SimulateCrash(s) \/ ConnectFails(s)
  BY <1>1, LostKeeps, StageKeepsEnd DEF SimulateCrash, ConnectFails, runnerVars, WayInv
<1>2. CASE Boot(s)
  BY <1>2, BootKeepsWay, StageKeepsEnd DEF WayInv
<1>3. CASE Put(s)
  BY <1>3, PutKeepsWay, StageKeepsEnd DEF WayInv
<1>4. CASE Finish(s)
  BY <1>4, FinishKeepsWay, StageKeepsEnd DEF WayInv
<1>5. CASE s # "producer" /\ PassDoneOn(s)
  BY <1>5, ExecutionKeepsWay, ConsensusKeepsWay, StageKeepsEnd, Roads DEF WayInv
<1>6. CASE s = "execution" /\ ExecuteContract
  BY <1>6, ExecutionKeepsWay, StageKeepsEnd DEF WayInv
<1>7. CASE s = "execution" /\ SubmitRaises
  BY <1>7, LostKeeps, StageKeepsEnd DEF SubmitRaises, runnerVars, WayInv
<1>8. CASE s = "consensus" /\ ProveConsensus
  BY <1>8, ConsensusKeepsWay, StageKeepsEnd DEF WayInv
<1> QED  BY <1>1, <1>2, <1>3, <1>4, <1>5, <1>6, <1>7, <1>8 DEF StageWork, StageStep

LEMMA WayNext == WayAndWatch /\ [PipelineNext]_pipelineVars => WayAndWatch'
<1> SUFFICES ASSUME WayAndWatch, [PipelineNext]_pipelineVars PROVE WayInv'
  BY WatchKept DEF WayAndWatch
<1>1. CASE Runner
  BY <1>1, RunnerKeepsWay
<1>2. ASSUME NEW s \in Stage, StageWork(s) PROVE WayInv'
  BY <1>2, StageKeepsWay DEF WayAndWatch
<1>3. CASE UNCHANGED pipelineVars
  <2>1. TypesOK' /\ StartsOK' /\ UnderWay'
    BY <1>3, StillKeepsWay DEF WayAndWatch, pipelineVars, stageVars, runnerVars
  <2>2. EndOK'
    BY <1>3 DEF WayAndWatch, WayInv, EndOK, PipelineOk, pipelineVars, stageVars, runnerVars
  <2> QED  BY <2>1, <2>2 DEF WayInv
<1> QED  BY <1>1, <1>2, <1>3 DEF PipelineNext

LEMMA WayInit == PipelineInit => WayAndWatch
<1> SUFFICES ASSUME PipelineInit PROVE WayAndWatch
  OBVIOUS
<1>1. \A S : << >> \in Seq(S)
  OBVIOUS
<1>2. OutOK /\ InOK
  BY <1>1 DEF PipelineInit, OutOK, InOK, Listeners, Stage, Downstream
<1>3. TypesOK
  BY <1>2, PipelineAssumption DEF PipelineInit, TypesOK, Stage, None
<1>4. StartsOK
  BY <1>3 DEF PipelineInit, StartsOK, TypesOK
<1>5. StreamOK
  BY DEF PipelineInit, StreamOK, Through, Ended, Stage, Listeners
<1>6. FirstOK
  BY DEF PipelineInit, FirstOK, AtExecution, AtConsensus, AtRunner, Through, Stage, Listeners
<1>7. EndOK /\ WatchOK
  BY <1>1 DEF PipelineInit, EndOK, PipelineOk, WatchOK
<1> QED  BY <1>3, <1>4, <1>5, <1>6, <1>7 DEF WayAndWatch, WayInv, UnderWay

LEMMA WayInvariant == PipelineSpec => []WayAndWatch
  BY WayInit, WayNext, PTL DEF PipelineSpec

\* A run that the exit codes call ok has brought the proof for the first contract and a decision
\* on every one, though a send may fail in silence and DONE is told from a lost connection
\* nowhere; and no listener is ever sent a message of a type it skips over.
THEOREM OkBringsProof == PipelineSpec => []OkHasProof
<1>1. WayInv => OkHasProof
  <2> SUFFICES ASSUME WayInv PROVE OkHasProof
    OBVIOUS
  <2>1. ASSUME PipelineOk PROVE crashStage = None
    BY <2>1, Roads DEF WayInv, EndOK, StartsOK, TypesOK
  <2>2. ASSUME NEW l \in DOMAIN Handled, NEW i \in DOMAIN inbox[l]
        PROVE  inbox[l][i].type \in {Handled[l], "DONE"}
    <3>1. inbox[l] \in Seq(For(l))
      BY <2>2 DEF Handled, Listeners, WayInv, TypesOK, InOK
    <3>2. inbox[l][i] \in For(l)
      BY <2>2, <3>1
    <3> QED  BY <3>2 DEF For, Done, Msg
  <2> QED  BY <2>1, <2>2 DEF WayInv, EndOK, OkHasProof
<1> QED  BY <1>1, WayInvariant, PTL DEF WayAndWatch

-----------------------------------------------------------------------------
(* Order.  What lies between an execution and the runner is, read from the *)
(* runner backwards: what it has received, what consensus has to put, what *)
(* consensus has received, what execution has to put.  In this order the   *)
(* successes are those of ever later executions.                           *)

Success(m) == m.type \in {"EXECUTION_RESULT", "CONSENSUS_PROOF"} /\ m.ok

Before(c, d) == \E i, j \in DOMAIN executed : i < j /\ executed[i] = c /\ executed[j] = d

\* Every success in p is of an earlier execution than every success in q.
Ahead(p, q) ==
    \A i \in DOMAIN p, j \in DOMAIN q : Success(p[i]) /\ Success(q[j]) => Before(p[i].of, q[j].of)

Sorted(q) ==
    \A i, j \in DOMAIN q : i < j /\ Success(q[i]) /\ Success(q[j]) => Before(q[i].of, q[j].of)

InOrder(r, o, i, e) ==
    /\ Sorted(r) /\ Sorted(o) /\ Sorted(i) /\ Sorted(e)
    /\ Ahead(r, o) /\ Ahead(r, i) /\ Ahead(r, e) /\ Ahead(o, i) /\ Ahead(o, e) /\ Ahead(i, e)

OrderOK == InOrder(inbox["runner"], outbox["consensus"], inbox["consensus"], outbox["execution"])

LEMMA FrontOf ==
  ASSUME NEW q \in Seq(Message), q # << >>
  PROVE  /\ Sorted(q) => Sorted(Tail(q)) /\ Ahead(<<Head(q)>>, Tail(q))
         /\ \A p \in Seq(Message) : /\ Ahead(p, q) => Ahead(p, Tail(q)) /\ Ahead(p, <<Head(q)>>)
                                    /\ Ahead(q, p) => Ahead(Tail(q), p) /\ Ahead(<<Head(q)>>, p)
<1>1. /\ Head(q) = q[1] /\ 1 \in DOMAIN q /\ DOMAIN q \subseteq Nat
      /\ \A i \in DOMAIN Tail(q) : i \in Nat \ {0} /\ i + 1 \in DOMAIN q /\ Tail(q)[i] = q[i + 1]
  BY Queued
<1>2. DOMAIN <<Head(q)>> = {1} /\ <<Head(q)>>[1] = q[1]
  BY <1>1
<1>3. ASSUME Sorted(q) PROVE Sorted(Tail(q)) /\ Ahead(<<Head(q)>>, Tail(q))
  BY <1>1, <1>2, <1>3 DEF Sorted, Ahead
<1>4. ASSUME NEW p \in Seq(Message), Ahead(p, q) PROVE Ahead(p, Tail(q)) /\ Ahead(p, <<Head(q)>>)
  BY <1>1, <1>2, <1>4 DEF Ahead
<1>5. ASSUME NEW p \in Seq(Message), Ahead(q, p) PROVE Ahead(Tail(q), p) /\ Ahead(<<Head(q)>>, p)
  BY <1>1, <1>2, <1>5 DEF Ahead
<1> QED  BY <1>3, <1>4, <1>5

LEMMA BackOf ==
  ASSUME NEW q \in Seq(Message), NEW m \in Message
  PROVE  /\ Sorted(q) /\ Ahead(q, <<m>>) => Sorted(Append(q, m))
         /\ \A p \in Seq(Message) : /\ Ahead(p, q) /\ Ahead(p, <<m>>) => Ahead(p, Append(q, m))
                                    /\ Ahead(q, p) /\ Ahead(<<m>>, p) => Ahead(Append(q, m), p)
<1> DEFINE a == Append(q, m)
<1>1. /\ DOMAIN q = 1..Len(q) /\ DOMAIN a = 1..Len(q) + 1 /\ Len(q) \in Nat
      /\ a[Len(q) + 1] = m /\ \A i \in DOMAIN q : a[i] = q[i]
  BY Queued
<1>2. \A i \in DOMAIN a : i \in DOMAIN q \/ i = Len(q) + 1
  BY <1>1
<1>3. DOMAIN <<m>> = {1} /\ <<m>>[1] = m
  OBVIOUS
<1> HIDE DEF a
<1>4. ASSUME Sorted(q), Ahead(q, <<m>>) PROVE Sorted(a)
  BY <1>1, <1>2, <1>3, <1>4 DEF Sorted, Ahead
<1>5. ASSUME NEW p \in Seq(Message), Ahead(p, q), Ahead(p, <<m>>) PROVE Ahead(p, a)
  BY <1>1, <1>2, <1>3, <1>5 DEF Ahead
<1>6. ASSUME NEW p \in Seq(Message), Ahead(q, p), Ahead(<<m>>, p) PROVE Ahead(a, p)
  BY <1>1, <1>2, <1>3, <1>6 DEF Ahead
<1> QED  BY <1>4, <1>5, <1>6 DEF a

LEMMA NothingAhead ==
  /\ Sorted(<< >>) /\ \A q : Ahead(<< >>, q) /\ Ahead(q, << >>)
  /\ \A m : Sorted(<<m>>) /\ (~ Success(m) => \A q : Ahead(<<m>>, q) /\ Ahead(q, <<m>>))
<1>1. DOMAIN << >> = {} /\ \A m : DOMAIN <<m>> = {1} /\ <<m>>[1] = m
  OBVIOUS
<1>2. \A m : Sorted(<<m>>) /\ (~ Success(m) => \A q : Ahead(<<m>>, q) /\ Ahead(q, <<m>>))
  BY <1>1 DEF Sorted, Ahead
<1> QED  BY <1>1, <1>2 DEF Sorted, Ahead

\* A message goes from one place to the next, is lost, or is the end of a stream.
LEMMA MovesInOrder ==
  ASSUME NEW r \in Seq(Message), NEW o \in Seq(Message), NEW i \in Seq(Message), NEW e \in Seq(Message),
         InOrder(r, o, i, e)
  PROVE  /\ o # << >> => InOrder(Append(r, Head(o)), Tail(o), i, e) /\ InOrder(r, Tail(o), i, e)
         /\ e # << >> => InOrder(r, o, Append(i, Head(e)), Tail(e)) /\ InOrder(r, o, i, Tail(e))
         /\ i # << >> => InOrder(r, o, Tail(i), e)
         /\ InOrder(r, << >>, i, e) /\ InOrder(r, o, << >>, e) /\ InOrder(r, o, i, << >>)
         /\ InOrder(Append(r, Done), o, i, e) /\ InOrder(r, o, Append(i, Done), e)
<1> USE DEF InOrder
<1>1. \A q \in Seq(Message) : q # << >> => Head(q) \in Message /\ Tail(q) \in Seq(Message)
  OBVIOUS
<1>2. Done \in Message /\ ~ Success(Done)
  BY DEF Done, Msg, Message, Success
<1>3. ASSUME o # << >> PROVE InOrder(Append(r, Head(o)), Tail(o), i, e) /\ InOrder(r, Tail(o), i, e)
  BY <1>1, <1>3, FrontOf, BackOf
<1>4. ASSUME e # << >> PROVE InOrder(r, o, Append(i, Head(e)), Tail(e)) /\ InOrder(r, o, i, Tail(e))
  BY <1>1, <1>4, FrontOf, BackOf
<1>5. ASSUME i # << >> PROVE InOrder(r, o, Tail(i), e)
  BY <1>1, <1>5, FrontOf
<1>6. InOrder(r, << >>, i, e) /\ InOrder(r, o, << >>, e) /\ InOrder(r, o, i, << >>)
  BY NothingAhead
<1>7. InOrder(Append(r, Done), o, i, e) /\ InOrder(r, o, Append(i, Done), e)
  BY <1>2, NothingAhead, BackOf
<1> QED  BY <1>3, <1>4, <1>5, <1>6, <1>7

\* A message taken, and the answer to it put where nothing was: it claims a success only if the
\* message did, and of the same contract.
LEMMA AnswersInOrder ==
  ASSUME NEW r \in Seq(Message), NEW i \in Seq(Message), NEW e \in Seq(Message), i # << >>,
         InOrder(r, << >>, i, e), NEW m, Success(m) => Success(Head(i)) /\ m.of = Head(i).of
  PROVE  InOrder(r, <<m>>, Tail(i), e)
<1> DEFINE h == Head(i)
<1>1. h \in Message /\ Tail(i) \in Seq(Message)
  OBVIOUS
<1>2. Sorted(Tail(i)) /\ Ahead(<<h>>, Tail(i)) /\ Ahead(r, Tail(i)) /\ Ahead(r, <<h>>)
      /\ Ahead(Tail(i), e) /\ Ahead(<<h>>, e)
  BY FrontOf DEF InOrder
<1>3. /\ DOMAIN <<h>> = {1} /\ <<h>>[1] = h /\ DOMAIN <<m>> = {1} /\ <<m>>[1] = m
  OBVIOUS
<1> HIDE DEF h
<1>4. Ahead(r, <<m>>) /\ Ahead(<<m>>, Tail(i)) /\ Ahead(<<m>>, e)
  BY <1>2, <1>3 DEF Ahead, h
<1> QED  BY <1>2, <1>4, NothingAhead DEF InOrder

LEMMA FourQueues ==
  TypesOK => /\ inbox["runner"] \in Seq(Message) /\ inbox["consensus"] \in Seq(Message)
             /\ outbox["consensus"] \in Seq(Message) /\ outbox["execution"] \in Seq(Message)
  BY Roads DEF TypesOK, OutOK, InOK

LEMMA SameOrder ==
  ASSUME executed' = executed,
         InOrder(inbox'["runner"], outbox'["consensus"], inbox'["consensus"], outbox'["execution"])
  PROVE  OrderOK'
  BY DEF OrderOK, InOrder, Sorted, Ahead, Before

LEMMA ExitInOrder ==
  ASSUME TypesOK, OrderOK, NEW s \in Stage, NEW code \in ExitCodes, Exit(s, code), KeepExit,
         UNCHANGED <<script, crashStage>>
  PROVE  OrderOK'
<1> DEFINE r == inbox["runner"]
           o == outbox["consensus"]
           i == inbox["consensus"]
           e == outbox["execution"]
<1>1. /\ r \in Seq(Message) /\ o \in Seq(Message) /\ i \in Seq(Message) /\ e \in Seq(Message)
      /\ InOrder(r, o, i, e) /\ << >> \in Seq(Message) /\ Append(i, Done) \in Seq(Message)
  BY FourQueues DEF OrderOK, Done, Msg, Message
<1>2. /\ outbox'[s] = << >> /\ \A t \in Stage : t # s => outbox'[t] = outbox[t]
      /\ \A l \in Listeners : /\ l = s => inbox'[l] = << >>
                              /\ l # s /\ l # Downstream[s] => inbox'[l] = inbox[l]
      /\ inbox'[Downstream[s]] = Append(inbox[Downstream[s]], Done) \/ inbox'[Downstream[s]] = inbox[Downstream[s]]
  BY ExitTyped
<1> SUFFICES InOrder(inbox'["runner"], outbox'["consensus"], inbox'["consensus"], outbox'["execution"])
  BY SameOrder DEF KeepExit
<1>3. CASE s = "producer"
  BY <1>1, <1>2, <1>3, Roads
<1>4. CASE s = "execution"
  <2>1. /\ inbox'["runner"] = r /\ outbox'["consensus"] = o /\ outbox'["execution"] = << >>
        /\ inbox'["consensus"] = Append(i, Done) \/ inbox'["consensus"] = i
    BY <1>2, <1>4, Roads
  <2>2. InOrder(r, o, i, << >>)
    BY <1>1, MovesInOrder
  <2>3. InOrder(r, o, Append(i, Done), << >>)
    BY <1>1, <2>2, MovesInOrder
  <2> QED  BY <2>1, <2>2, <2>3
<1>5. CASE s = "consensus"
  <2>1. /\ outbox'["execution"] = e /\ outbox'["consensus"] = << >> /\ inbox'["consensus"] = << >>
        /\ inbox'["runner"] = Append(r, Done) \/ inbox'["runner"] = r
    BY <1>2, <1>5, Roads
  <2>2. InOrder(r, << >>, i, e)
    BY <1>1, MovesInOrder
  <2>3. InOrder(r, << >>, << >>, e)
    BY <1>1, <2>2, MovesInOrder
  <2>4. InOrder(Append(r, Done), << >>, << >>, e)
    BY <1>1, <2>3, MovesInOrder
  <2> QED  BY <2>1, <2>3, <2>4
<1> QED  BY <1>3, <1>4, <1>5, Roads

LEMMA PutInOrder ==
  ASSUME TypesOK, OrderOK, NEW s \in Stage, Put(s) PROVE OrderOK'
<1> DEFINE r == inbox["runner"]
           o == outbox["consensus"]
           i == inbox["consensus"]
           e == outbox["execution"]
<1>1. /\ r \in Seq(Message) /\ o \in Seq(Message) /\ i \in Seq(Message) /\ e \in Seq(Message)
      /\ InOrder(r, o, i, e) /\ outbox[s] # << >>
  BY FourQueues DEF OrderOK, Put
<1>2. /\ outbox'[s] = Tail(outbox[s]) /\ \A t \in Stage : t # s => outbox'[t] = outbox[t]
      /\ \A l \in Listeners : l # Downstream[s] => inbox'[l] = inbox[l]
      /\ \/ inbox'[Downstream[s]] = Append(inbox[Downstream[s]], Head(outbox[s]))
         \/ inbox'[Downstream[s]] = inbox[Downstream[s]]
  BY PutMoves
<1> SUFFICES InOrder(inbox'["runner"], outbox'["consensus"], inbox'["consensus"], outbox'["execution"])
  BY SameOrder DEF Put
<1>3. CASE s = "producer"
  BY <1>1, <1>2, <1>3, Roads
<1>4. CASE s = "execution"
  <2>1. InOrder(r, o, Append(i, Head(e)), Tail(e)) /\ InOrder(r, o, i, Tail(e))
    BY <1>1, <1>4, MovesInOrder
  <2> QED  BY <1>2, <1>4, <2>1, Roads
<1>5. CASE s = "consensus"
  <2>1. InOrder(Append(r, Head(o)), Tail(o), i, e) /\ InOrder(r, Tail(o), i, e)
    BY <1>1, <1>5, MovesInOrder
  <2> QED  BY <1>2, <1>5, <2>1, Roads
<1> QED  BY <1>3, <1>4, <1>5, Roads

LEMMA BootInOrder ==
  ASSUME TypesOK, StartsOK, OrderOK, NEW s \in Stage, Boot(s) PROVE OrderOK'
<1>1. /\ \A t \in Stage : t # "producer" => outbox'[t] = outbox[t]
      /\ UNCHANGED <<inbox, executed>>
  BY DEF Boot, TypesOK, OutOK, StartsOK
<1> QED  BY <1>1, SameOrder, Roads DEF OrderOK

LEMMA ConsensusInOrder ==
  ASSUME TypesOK, StartsOK, OrderOK, PassDoneOn("consensus") \/ ProveConsensus PROVE OrderOK'
<1> DEFINE h == Head(inbox["consensus"])
<1>1. PICK type \in {"DONE", "EXECUTION_RESULT"}, answer \in For("runner") :
         /\ Receives("consensus", type) /\ Handle("consensus", answer) /\ executed' = executed
         /\ Success(answer) => Success(h) /\ answer.of = h.of
  <2>1. CASE PassDoneOn("consensus")
    <3>1. ~ Success(Done)
      BY DEF Success, Done, Msg
    <3>2. Receives("consensus", "DONE") /\ Handle("consensus", Done) /\ executed' = executed
      BY <2>1 DEF PassDoneOn
    <3> QED  BY <3>1, <3>2, DoneGoesAnywhere
  <2>2. CASE ProveConsensus
    <3>1. /\ inbox["consensus"] \in Seq(Message) /\ inbox["consensus"] # << >> /\ h.type = "EXECUTION_RESULT"
      BY <2>2, FourQueues DEF ProveConsensus, Receives
    <3>2. h \in Message
      BY <3>1, Taken
    <3> DEFINE a == Msg("CONSENSUS_PROOF", h.of, h.ok)
    <3>3. a \in For("runner") /\ (Success(a) => Success(h) /\ a.of = h.of)
      BY <3>1, <3>2 DEF Msg, For, Message, Handled, Success
    <3>4. Receives("consensus", "EXECUTION_RESULT") /\ Handle("consensus", a) /\ executed' = executed
      BY <2>2 DEF ProveConsensus
    <3> HIDE DEF a
    <3> QED  BY <3>3, <3>4
  <2> QED  BY <2>1, <2>2
<1>2. /\ inbox'["consensus"] = Tail(inbox["consensus"]) /\ inbox["consensus"] # << >>
      /\ outbox["consensus"] = << >> /\ outbox'["consensus"] = <<answer>>
      /\ outbox'["execution"] = outbox["execution"] /\ inbox'["runner"] = inbox["runner"]
  BY <1>1, HandleMoves, Roads
<1>3. InOrder(inbox["runner"], << >>, inbox["consensus"], outbox["execution"])
  BY <1>2 DEF OrderOK
<1>4. InOrder(inbox["runner"], <<answer>>, Tail(inbox["consensus"]), outbox["execution"])
  BY <1>1, <1>2, <1>3, FourQueues, AnswersInOrder
<1> QED  BY <1>1, <1>2, <1>4, SameOrder

\* What is executed now comes after all that has a success to show, which was executed before.
LEMMA ExecutionInOrder ==
  ASSUME PipelineInv, TypesOK, StartsOK, OrderOK, PassDoneOn("execution") \/ ExecuteContract PROVE OrderOK'
<1>1. PICK type \in {"DONE", "CONTRACT"}, answer \in For("consensus") :
         /\ Receives("execution", type) /\ Handle("execution", answer)
         /\ \/ executed' = executed /\ ~ Success(answer)
            \/ answer.of \in Contracts /\ executed' = Append(executed, answer.of)
  <2>1. CASE PassDoneOn("execution")
    <3>1. ~ Success(Done)
      BY DEF Success, Done, Msg
    <3>2. Receives("execution", "DONE") /\ Handle("execution", Done) /\ executed' = executed
      BY <2>1 DEF PassDoneOn
    <3> QED  BY <3>1, <3>2, DoneGoesAnywhere
  <2>2. CASE ExecuteContract
    <3> DEFINE c == Head(inbox["execution"]).of
               ok == PassesChecks(c) /\ c \notin Weak
               a == Msg("EXECUTION_RESULT", c, ok)
    <3>1. c \in Contracts /\ ok \in BOOLEAN
      BY <2>2, ContractTaken DEF PipelineInv, PassesChecks
    <3>2. /\ Receives("execution", "CONTRACT") /\ Handle("execution", a)
          /\ executed' = IF PassesChecks(c) THEN Append(executed, c) ELSE executed
      BY <2>2 DEF ExecuteContract
    <3>3. ok => PassesChecks(c)
      OBVIOUS
    <3> HIDE DEF ok, c
    <3>4. a \in For("consensus") /\ a.of = c /\ (Success(a) => ok)
      BY <3>1 DEF Msg, For, Message, Handled, Success
    <3> HIDE DEF a
    <3> QED  BY <3>1, <3>2, <3>3, <3>4
  <2> QED  BY <2>1, <2>2
<1>2. /\ inbox'["consensus"] = inbox["consensus"] /\ inbox'["runner"] = inbox["runner"]
      /\ outbox'["consensus"] = outbox["consensus"] /\ outbox'["execution"] = <<answer>>
  BY <1>1, HandleMoves, Roads
<1>3. /\ executed \in Seq(Contracts)
      /\ inbox["runner"] \in Seq(BackedMessage) /\ inbox["consensus"] \in Seq(BackedMessage)
      /\ outbox["consensus"] \in Seq(BackedMessage)
  BY Roads DEF PipelineInv, QueuesOK, ExecutionsOK
<1>4. /\ \A k \in DOMAIN executed : k \in DOMAIN executed' /\ executed'[k] = executed[k]
      /\ Success(answer) => /\ Len(executed) + 1 \in DOMAIN executed' /\ executed'[Len(executed) + 1] = answer.of
                            /\ \A k \in DOMAIN executed : k < Len(executed) + 1
  <2>1. CASE executed' = executed /\ ~ Success(answer)
    BY <2>1
  <2>2. CASE answer.of \in Contracts /\ executed' = Append(executed, answer.of)
    <3>1. \A c \in Contracts : /\ \A k \in DOMAIN executed : /\ k \in DOMAIN Append(executed, c)
                                                             /\ Append(executed, c)[k] = executed[k]
                                                             /\ k < Len(executed) + 1
                               /\ Len(executed) + 1 \in DOMAIN Append(executed, c)
                               /\ Append(executed, c)[Len(executed) + 1] = c
      BY <1>3
    <3> QED  BY <2>2, <3>1
  <2> QED  BY <1>1, <2>1, <2>2
<1>5. ASSUME NEW m \in BackedMessage, Success(m), Success(answer)
      PROVE  \E k, l \in DOMAIN executed' : k < l /\ executed'[k] = m.of /\ executed'[l] = answer.of
  <2>1. PICK k \in DOMAIN executed : executed[k] = m.of
    BY <1>5 DEF BackedMessage, Backing, Success
  <2> QED  BY <1>4, <1>5, <2>1
<1>6. /\ Sorted(inbox["runner"])' /\ Sorted(outbox["consensus"])' /\ Sorted(inbox["consensus"])'
      /\ Ahead(inbox["runner"], outbox["consensus"])' /\ Ahead(inbox["runner"], inbox["consensus"])'
      /\ Ahead(outbox["consensus"], inbox["consensus"])'
  BY <1>2, <1>4 DEF OrderOK, InOrder, Sorted, Ahead, Before
<1>7. Sorted(outbox["execution"])'
  BY <1>2 DEF Sorted
<1>8. ASSUME NEW p \in Seq(BackedMessage), NEW k \in DOMAIN p, Success(p[k]), Success(answer)
      PROVE  \E i, j \in DOMAIN executed' : i < j /\ executed'[i] = p[k].of /\ executed'[j] = answer.of
  <2>1. p[k] \in BackedMessage
    BY <1>8
  <2> QED  BY <1>5, <1>8, <2>1
<1>9. ASSUME NEW p, p \in Seq(BackedMessage), NEW e, e = <<answer>>,
              NEW k \in DOMAIN p, NEW j \in DOMAIN e, Success(p[k]), Success(e[j])
       PROVE  \E x, y \in DOMAIN executed' : x < y /\ executed'[x] = p[k].of /\ executed'[y] = e[j].of
  <2>1. e[j] = answer
    BY <1>9
  <2> QED  BY <1>8, <1>9, <2>1
<1>10. /\ Ahead(inbox["runner"], outbox["execution"])' /\ Ahead(inbox["consensus"], outbox["execution"])'
       /\ Ahead(outbox["consensus"], outbox["execution"])'
  <2>1. \A p \in Seq(BackedMessage) : \A e : e = <<answer>> =>
           \A k \in DOMAIN p, j \in DOMAIN e : Success(p[k]) /\ Success(e[j]) =>
              \E x, y \in DOMAIN executed' : x < y /\ executed'[x] = p[k].of /\ executed'[y] = e[j].of
    BY <1>9
  <2>2. inbox'["runner"] \in Seq(BackedMessage) /\ inbox'["consensus"] \in Seq(BackedMessage)
        /\ outbox'["consensus"] \in Seq(BackedMessage) /\ outbox'["execution"] = <<answer>>
    BY <1>2, <1>3
  <2>3. Ahead(inbox["runner"], outbox["execution"])'
    BY <2>1, <2>2 DEF Ahead, Before
  <2>4. Ahead(inbox["consensus"], outbox["execution"])'
    BY <2>1, <2>2 DEF Ahead, Before
  <2>5. Ahead(outbox["consensus"], outbox["execution"])'
    BY <2>1, <2>2 DEF Ahead, Before
  <2> QED  BY <2>3, <2>4, <2>5
<1> QED  BY <1>6, <1>7, <1>10 DEF OrderOK, InOrder

LEMMA StillInOrder ==
  ASSUME OrderOK, UNCHANGED <<inbox, outbox, executed>> PROVE OrderOK'
  BY SameOrder DEF OrderOK

LEMMA RunnerInOrder ==
  ASSUME TypesOK, WatchOK, OrderOK, Runner PROVE OrderOK'
<1>1. CASE StartRound \/ StopPolling \/ TimeoutExceeded \/ Summarise
  BY <1>1, StillInOrder DEF StartRound, StopPolling, TimeoutExceeded, Summarise, KeepStages, stageVars
<1>2. CASE PollHeartbeat \/ TerminateRest
  <2> DEFINE s == Head(watch)
  <2>1. s \in Stage /\ "sigterm" \in ExitCodes
    BY <1>2, Taken DEF WatchOK, PollHeartbeat, TerminateRest, ExitCodes
  <2>2. /\ KeepExit /\ UNCHANGED <<script, crashStage>>
        /\ Exit(s, "sigterm") \/ UNCHANGED <<life, outbox, inbox>>
    BY <1>2 DEF PollHeartbeat, TerminateRest, TerminateProcess
  <2> QED  BY <2>1, <2>2, ExitInOrder, StillInOrder DEF KeepExit
<1> QED  BY <1>1, <1>2 DEF Runner

OrderInv == PipelineInv /\ WayAndWatch /\ OrderOK

LEMMA OrderNext == OrderInv /\ [PipelineNext]_pipelineVars => OrderInv'
<1> SUFFICES ASSUME OrderInv, [PipelineNext]_pipelineVars PROVE OrderOK'
  BY PipelineInvNext, WayNext DEF OrderInv
<1>1. PipelineInv /\ TypesOK /\ StartsOK /\ WatchOK /\ OrderOK
  BY DEF OrderInv, WayAndWatch, WayInv
<1>2. CASE Runner
  BY <1>1, <1>2, RunnerInOrder
<1>3. ASSUME NEW s \in Stage, StageStep(s) PROVE OrderOK'
  <2>1. CASE SimulateCrash(s) \/ ConnectFails(s) \/ Finish(s)
    BY <1>1, <2>1, ExitInOrder DEF SimulateCrash, ConnectFails, Finish, runnerVars, ExitCodes
  <2> QED  BY <1>1, <1>3, <2>1, BootInOrder, PutInOrder DEF StageStep
<1>4. ASSUME NEW s \in Stage, s # "producer", PassDoneOn(s) PROVE OrderOK'
  BY <1>1, <1>4, ConsensusInOrder, ExecutionInOrder, Roads
<1>5. CASE SubmitRaises
  BY <1>1, <1>5, ExitInOrder, Roads DEF SubmitRaises, ExitCodes
<1>6. CASE UNCHANGED pipelineVars
  BY <1>1, <1>6, StillInOrder DEF pipelineVars, stageVars
<1> QED  BY <1>1, <1>2, <1>3, <1>4, <1>5, <1>6, ConsensusInOrder, ExecutionInOrder DEF PipelineNext, StageWork

LEMMA OrderInit == PipelineInit => OrderInv
<1> SUFFICES ASSUME PipelineInit PROVE OrderOK
  BY PipelineInvInit, WayInit DEF OrderInv
<1>1. /\ inbox["runner"] = << >> /\ inbox["consensus"] = << >>
      /\ outbox["consensus"] = << >> /\ outbox["execution"] = << >>
  BY DEF PipelineInit, Stage
<1> QED  BY <1>1, NothingAhead DEF OrderOK, InOrder

LEMMA OrderInvariant == PipelineSpec => []OrderInv
  BY OrderInit, OrderNext, PTL DEF PipelineSpec

-----------------------------------------------------------------------------
(* What the pipeline promises, step by step.                               *)

Heard == {inbox["runner"][i].of : i \in ProofsHeard}

\* Only consensus puts anything but an end before the runner.
LEMMA RunnerHears ==
  ASSUME OrderInv, PipelineNext, ~ Put("consensus")
  PROVE  inbox'["runner"] = inbox["runner"] \/ inbox'["runner"] = Append(inbox["runner"], Done)
<1>1. TypesOK /\ StartsOK /\ WatchOK /\ PipelineInv
  BY DEF OrderInv, WayAndWatch, WayInv
<1>2. ASSUME NEW s \in Stage, NEW code \in ExitCodes, Exit(s, code), KeepExit, UNCHANGED <<script, crashStage>>
      PROVE  inbox'["runner"] = inbox["runner"] \/ inbox'["runner"] = Append(inbox["runner"], Done)
  <2>1. \/ inbox'[Downstream[s]] = Append(inbox[Downstream[s]], Done)
        \/ inbox'[Downstream[s]] = inbox[Downstream[s]]
    BY <1>1, <1>2, ExitTyped
  <2>2. s # "consensus" => inbox'["runner"] = inbox["runner"]
    BY <1>1, <1>2, ExitTyped, Roads
  <2> QED  BY <2>1, <2>2, Roads
<1>3. CASE Runner
  <2>1. CASE StartRound \/ StopPolling \/ TimeoutExceeded \/ Summarise
    BY <2>1 DEF StartRound, StopPolling, TimeoutExceeded, Summarise, KeepStages, stageVars
  <2>2. CASE PollHeartbeat \/ TerminateRest
    <3> DEFINE s == Head(watch)
    <3>1. s \in Stage /\ "sigterm" \in ExitCodes
      BY <1>1, <2>2, Taken DEF WatchOK, PollHeartbeat, TerminateRest, ExitCodes
    <3>2. /\ KeepExit /\ UNCHANGED <<script, crashStage>>
          /\ Exit(s, "sigterm") \/ UNCHANGED <<life, outbox, inbox>>
      BY <2>2 DEF PollHeartbeat, TerminateRest, TerminateProcess
    <3> QED  BY <1>2, <3>1, <3>2
  <2> QED  BY <1>3, <2>1, <2>2 DEF Runner
<1>4. ASSUME NEW s \in Stage, StageStep(s)
      PROVE  inbox'["runner"] = inbox["runner"] \/ inbox'["runner"] = Append(inbox["runner"], Done)
  <2>1. CASE SimulateCrash(s) \/ ConnectFails(s) \/ Finish(s)
    BY <1>2, <2>1 DEF SimulateCrash, ConnectFails, Finish, runnerVars, ExitCodes
  <2>2. CASE Boot(s)
    BY <2>2 DEF Boot
  <2>3. CASE Put(s)
    BY <1>1, <2>3, PutMoves, Roads
  <2> QED  BY <1>4, <2>1, <2>2, <2>3 DEF StageStep
<1>5. ASSUME NEW s \in {"execution", "consensus"}, NEW answer, Handle(s, answer)
      PROVE  inbox'["runner"] = inbox["runner"]
  BY <1>1, <1>5, Roads DEF Handle, TypesOK, InOK
<1>6. CASE SubmitRaises
  BY <1>2, <1>6, Roads DEF SubmitRaises, ExitCodes
<1> QED  BY <1>3, <1>4, <1>5, <1>6, Roads DEF PipelineNext, StageWork, PassDoneOn, ExecuteContract, ProveConsensus

\* What a message more is to what the runner has heard.
LEMMA HeardMore ==
  ASSUME TypesOK, NEW m \in Message, inbox'["runner"] = Append(inbox["runner"], m)
  PROVE  Heard' = IF m.type = "CONSENSUS_PROOF" /\ m.ok THEN Heard \cup {m.of} ELSE Heard
<1> DEFINE q == inbox["runner"]
           r == Append(q, m)
<1>1. /\ DOMAIN r = 1..Len(q) + 1 /\ DOMAIN q = 1..Len(q) /\ Len(q) \in Nat /\ r[Len(q) + 1] = m
      /\ \A i \in DOMAIN q : r[i] = q[i]
  BY FourQueues, Queued
<1>2. \A i \in DOMAIN r : i \in DOMAIN q \/ i = Len(q) + 1
  BY <1>1
<1>3. Heard' = {r[i].of : i \in {j \in DOMAIN r : r[j].type = "CONSENSUS_PROOF" /\ r[j].ok}}
  BY DEF Heard, ProofsHeard
<1>4. Heard = {q[i].of : i \in {j \in DOMAIN q : q[j].type = "CONSENSUS_PROOF" /\ q[j].ok}}
  BY DEF Heard, ProofsHeard
<1> HIDE DEF q, r
<1> QED  BY <1>1, <1>2, <1>3, <1>4

\* Proofs come in the order of the executions: a proof that reaches the runner is of a later
\* execution than all that have reached it.
LEMMA PutAnnounces ==
  ASSUME OrderInv, Put("consensus")
  PROVE  (\E c \in Contracts : Lifecycle!Announce(c)) \/ UNCHANGED <<accepted, executed, Heard>>
<1> DEFINE m == Head(outbox["consensus"])
<1>1. TypesOK /\ PipelineInv /\ OrderOK
  BY DEF OrderInv, WayAndWatch, WayInv
<1>2. /\ UNCHANGED <<accepted, executed>> /\ outbox["consensus"] # << >>
      /\ outbox["consensus"] \in Seq(BackedMessage)
  BY <1>1 DEF Put, PipelineInv, QueuesOK, Stage
<1>3. m \in BackedMessage /\ m \in Message /\ m = outbox["consensus"][1] /\ 1 \in DOMAIN outbox["consensus"]
  BY <1>2, Queued DEF BackedMessage
<1>4. inbox'["runner"] = Append(inbox["runner"], m) \/ inbox'["runner"] = inbox["runner"]
  BY <1>1, PutMoves, Roads
<1> HIDE DEF m
<1>5. CASE inbox'["runner"] = Append(inbox["runner"], m) /\ m.type = "CONSENSUS_PROOF" /\ m.ok
  <2>1. m.of \in Backing /\ Success(m)
    BY <1>3, <1>5 DEF BackedMessage, Success
  <2>2. m.of \in Contracts /\ m.of \notin Weak /\ \E i \in DOMAIN executed : executed[i] = m.of
    <3>1. \A i \in DOMAIN executed : executed[i] \in Contracts
      BY <1>1 DEF PipelineInv, ExecutionsOK
    <3> QED  BY <2>1, <3>1 DEF Backing
  <2>3. Heard' = Heard \cup {m.of}
    BY <1>1, <1>3, <1>5, HeardMore
  <2>4. \A d \in Heard : Before(d, m.of)
    BY <1>1, <1>3, <2>1 DEF Heard, ProofsHeard, OrderOK, InOrder, Ahead, Success
  <2>5. \A i, j \in DOMAIN executed : executed[i] = executed[j] => i = j
    BY <1>1 DEF PipelineInv, ExecutionsOK
  <2>6. \A d \in Heard : \A i, j \in DOMAIN executed : executed[i] = d /\ executed[j] = m.of => i < j
    BY <2>4, <2>5 DEF Before
  <2>7. PICK c \in Contracts : c = m.of
    BY <2>2
  <2>8. Lifecycle!Announce(c)
    BY <1>2, <2>2, <2>3, <2>6, <2>7 DEF Lifecycle!Announce, Lifecycle!Places, Heard
  <2> QED  BY <2>8
<1>6. CASE inbox'["runner"] = Append(inbox["runner"], m) /\ ~ (m.type = "CONSENSUS_PROOF" /\ m.ok)
  BY <1>1, <1>2, <1>3, <1>6, HeardMore
<1>7. CASE inbox'["runner"] = inbox["runner"]
  BY <1>2, <1>7 DEF Heard, ProofsHeard
<1> QED  BY <1>4, <1>5, <1>6, <1>7

LEMMA ExecuteExecutes ==
  ASSUME OrderInv, ExecuteContract, Heard' = Heard
  PROVE  \E c \in Contracts : Lifecycle!Admit(c) \/ Lifecycle!Execute(c)
<1> DEFINE c == Head(inbox["execution"]).of
<1>1. PipelineInv /\ ExecutionsOK /\ c \in Contracts
  BY ContractTaken DEF OrderInv, PipelineInv
<1>2. /\ accepted' = accepted \cup {c}
      /\ executed' = IF PassesChecks(c) THEN Append(executed, c) ELSE executed
  BY DEF ExecuteContract
<1> HIDE DEF c
<1>3. CASE PassesChecks(c)
  <2>1. \A i \in DOMAIN executed : executed[i] # c /\ executed[i] \in Contracts
    BY <1>1, <1>3 DEF ExecutionsOK, PassesChecks
  <2>2. Lifecycle!Execute(c)
    <3>1. /\ [d \in Contracts |-> d][c] = c
          /\ \A i \in DOMAIN executed : [d \in Contracts |-> d][executed[i]] # c
      BY <1>1, <2>1
    <3>2. c \in accepted' /\ executed' = Append(executed, c)
      BY <1>2, <1>3
    <3> QED  BY <1>2, <3>1, <3>2 DEF Lifecycle!Execute, Heard
  <2> QED  BY <1>1, <2>2
<1>4. CASE ~ PassesChecks(c)
  <2>1. Lifecycle!Admit(c)
    BY <1>1, <1>2, <1>4 DEF Lifecycle!Admit, Heard
  <2> QED  BY <1>1, <2>1
<1> QED  BY <1>3, <1>4

\* Whatever ends, is terminated or is lost between an execution and the runner, the pipeline
\* does what ContractLifecycle promises: proofs come for executed contracts alone, one for a
\* contract at most, in the order of the executions.
THEOREM PipelineImplementsLifecycle == PipelineSpec => PipelineKeepsLifecycle
<1>1. PipelineInit => Lifecycle!LifecycleInit
  BY DEF PipelineInit, Lifecycle!LifecycleInit, ProofsHeard
<1>2. OrderInv /\ [PipelineNext]_pipelineVars => [Lifecycle!LifecycleNext]_(Lifecycle!lifecycleVars)
  <2> SUFFICES ASSUME OrderInv, [PipelineNext]_pipelineVars
               PROVE  Lifecycle!LifecycleNext \/ UNCHANGED <<accepted, executed, Heard>>
    BY DEF Lifecycle!lifecycleVars, Heard
  <2>1. CASE PipelineNext /\ ~ Put("consensus")
    <3>1. Heard' = Heard
      <4>1. TypesOK /\ Done \in Message /\ Done.type # "CONSENSUS_PROOF"
        BY DEF OrderInv, WayAndWatch, WayInv, Done, Msg, Message
      <4>2. inbox'["runner"] = inbox["runner"] \/ inbox'["runner"] = Append(inbox["runner"], Done)
        BY <2>1, RunnerHears
      <4>3. inbox'["runner"] = inbox["runner"] => Heard' = Heard
        BY DEF Heard, ProofsHeard
      <4> QED  BY <4>1, <4>2, <4>3, HeardMore
    <3>2. CASE ExecuteContract
      BY <3>1, <3>2, ExecuteExecutes DEF Lifecycle!LifecycleNext
    <3>3. CASE ~ ExecuteContract
      BY <2>1, <3>1, <3>3
         DEF PipelineNext, Runner, StartRound, PollHeartbeat, StopPolling, TimeoutExceeded, TerminateRest, Summarise,
             KeepStages, stageVars, KeepExit, StageWork, StageStep, SimulateCrash, Boot, Put, ConnectFails, Finish,
             PassDoneOn, SubmitRaises, ProveConsensus
    <3> QED  BY <3>2, <3>3
  <2>2. CASE Put("consensus")
    BY <2>2, PutAnnounces DEF Lifecycle!LifecycleNext
  <2>3. CASE UNCHANGED pipelineVars
    BY <2>3 DEF pipelineVars, stageVars, Heard, ProofsHeard
  <2> QED  BY <2>1, <2>2, <2>3
<1> QED  BY <1>1, <1>2, OrderInvariant, PTL DEF PipelineSpec, PipelineKeepsLifecycle, Lifecycle!LifecycleSpec
=============================================================================
