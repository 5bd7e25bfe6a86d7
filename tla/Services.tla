------------------------------ MODULE Services ------------------------------
(***************************************************************************)
(* The distributed runtime of runtime_services.py over the transports of   *)
(* transport.py: replay, trust, execution and consensus services and the   *)
(* producer.                                                               *)
(*                                                                         *)
(* A message goes out on a connection of its own.  A TCP or UDS receiver   *)
(* accepts one connection in its life and reads its end as DONE, at which  *)
(* every service loop breaks; so the end of a connection is a Done in the  *)
(* listener's inbox, and what follows it is never read.  HTTP queues       *)
(* messages and has no end.  Execution gets its answers on a reply         *)
(* listener that it binds anew for each question.                          *)
(***************************************************************************)
EXTENDS Naturals, Sequences

CONSTANTS
    Contracts,       \* signed contracts
    Ids,             \* their trace ids
    Id,              \* the trace id of each contract
    Stale,           \* contracts too old for the replay authority
    Untrusted,       \* contracts the trust service refuses
    Weak,            \* contracts on which the runtime core halts
    Scripts,         \* what a producer may send: sequences of contracts
    Transports,      \* the values of config.TRANSPORT_TYPE considered
    MaxFaults        \* bound: late answers, failed calls and signals

ASSUME ServicesAssumption ==
    /\ Id \in [Contracts -> Ids]
    /\ Stale \subseteq Contracts /\ Untrusted \subseteq Contracts /\ Weak \subseteq Contracts
    /\ Scripts \subseteq Seq(Contracts)
    /\ Transports \subseteq {"tcp", "uds", "http"}
    /\ MaxFaults \in Nat

Authorities == {"replay", "trust"}                          \* answer execution's questions
Needed      == {"replay", "trust", "consensus"}             \* discovered by execution
Services    == Needed \cup {"execution"}
Processes   == Services \cup {"producer"}

None == "none"

VARIABLES
    transport,     \* config.TRANSPORT_TYPE
    script,        \* what the producer sends
    life,          \* each process: launched, registered, listening, stopped, killed or crashed
    capabilities,  \* services in the capability registry
    shutdown,      \* processes whose _shutdown_event is set
    inbox,         \* messages that have reached each listener
    replyBound,    \* a reply listener is bound
    hand,          \* the answer each authority is about to send
    pc,            \* where the execution service is in its loop
    peer,          \* the authority it asks or has asked last
    current,       \* the contract it works on
    verdictOf,     \* history: the contract whose replay verdict it holds
    accepted,      \* ids the replay authority has accepted
    submitted,     \* history: contracts the replay authority has judged
    ledger,        \* the evidence ledger
    log,           \* logs/consensus_output.log
    faults         \* faults so far (bounded by MaxFaults)

setupVars    == <<transport, script>>
authVars     == <<hand, accepted, submitted>>
execVars     == <<pc, peer, current, verdictOf, ledger>>
servicesVars == <<setupVars, life, capabilities, shutdown, inbox, replyBound, authVars,
                  execVars, log, faults>>

Message == [type : {"CONTRACT", "question", "answer", "EXECUTION_RESULT", "DONE"},
            of : Contracts \cup {None}, ok : BOOLEAN]

Msg(type, c, ok) == [type |-> type, of |-> c, ok |-> ok]
Done             == Msg("DONE", None, FALSE)

Alive(p) == life[p] \in {"launched", "registered", "listening"}

ServicesInit ==
    /\ transport \in Transports /\ script \in Scripts
    /\ life = [p \in Processes |-> "launched"]
    /\ capabilities = {} /\ shutdown = {}
    /\ inbox = [l \in Services \cup {"reply"} |-> << >>] /\ replyBound = FALSE
    /\ hand = [s \in Authorities |-> Done] /\ accepted = {} /\ submitted = {}
    /\ pc = "get" /\ peer = "replay" /\ current = None /\ verdictOf = None
    /\ ledger = << >> /\ log = << >> /\ faults = 0

Fault == faults < MaxFaults /\ faults' = faults + 1

-----------------------------------------------------------------------------
(* Connections.                                                            *)

\* What one connection puts into a listener's inbox.
Connection(messages) == IF transport = "http" THEN messages ELSE Append(messages, Done)

Accepting(s) == life[s] = "listening"

\* A sender retries a refused connection for longer than a service takes to boot, and
\* gives up on one that has ended; on a slow one it gives up by a fault.
GivesUpOn(s) ==
    \/ ~ Alive(s) /\ UNCHANGED faults
    \/ Alive(s) /\ ~ Accepting(s) /\ Fault

\* The end of a process closes its sockets; execution owns the reply listener too.
Exit(p, how) ==
    /\ life' = [life EXCEPT ![p] = how]
    /\ inbox' = [l \in DOMAIN inbox |->
                   IF l = p \/ (p = "execution" /\ l = "reply") THEN << >> ELSE inbox[l]]
    /\ replyBound' = (replyBound /\ p # "execution")
    /\ hand' = [s \in Authorities |-> IF s = p THEN Done ELSE hand[s]]

-----------------------------------------------------------------------------
(* Start-up and discovery.                                                 *)

\* client.register's result is ignored: the service goes on unregistered.
Register(s) ==
    /\ life[s] = "launched"
    /\ life' = [life EXCEPT ![s] = "registered"]
    /\ \/ capabilities' = capabilities \cup {s} /\ UNCHANGED faults
       \/ UNCHANGED capabilities /\ Fault
    /\ UNCHANGED <<setupVars, shutdown, inbox, replyBound, authVars, execVars, log>>

Listen(s) ==
    /\ life[s] = "registered"
    /\ s = "execution" => Needed \subseteq capabilities
    /\ life' = [life EXCEPT ![s] = "listening"]
    /\ log' = IF s = "consensus" THEN << >> ELSE log
    /\ UNCHANGED <<setupVars, capabilities, shutdown, inbox, replyBound, authVars, execVars, faults>>

\* A hundred lookups have failed: a dependency will not come, or (a fault) came too late.
LookupsFail(deps) ==
    /\ ~ deps \subseteq capabilities
    /\ \/ (\E d \in deps \ capabilities : life[d] # "launched") /\ UNCHANGED faults
       \/ (\A d \in deps \ capabilities : life[d] = "launched") /\ Fault

GiveUpDiscovery ==
    /\ life["execution"] = "registered" /\ LookupsFail(Needed)
    /\ Exit("execution", "stopped")
    /\ UNCHANGED <<setupVars, capabilities, shutdown, accepted, submitted, execVars, log>>

-----------------------------------------------------------------------------
(* The producer: finds execution, sends its contracts and DONE, ends.      *)

ProducerSends ==
    /\ life["producer"] = "launched" /\ "execution" \in capabilities /\ Accepting("execution")
    /\ life' = [life EXCEPT !["producer"] = "stopped"]
    /\ inbox' = [inbox EXCEPT !["execution"] = @ \o Connection(
                   Append([i \in DOMAIN script |-> Msg("CONTRACT", script[i], TRUE)], Done))]
    /\ UNCHANGED <<setupVars, capabilities, shutdown, replyBound, authVars, execVars, log, faults>>

ProducerFails ==
    /\ life["producer"] = "launched"
    /\ IF "execution" \in capabilities THEN GivesUpOn("execution") ELSE LookupsFail({"execution"})
    /\ life' = [life EXCEPT !["producer"] = "stopped"]
    /\ UNCHANGED <<setupVars, capabilities, shutdown, inbox, replyBound, authVars, execVars, log>>

-----------------------------------------------------------------------------
(* The replay and trust services.                                          *)

Ready(s, type) ==
    /\ Accepting(s) /\ s \notin shutdown
    /\ inbox[s] # << >> /\ Head(inbox[s]).type = type

Consumed(l) == [inbox EXCEPT ![l] = Tail(@)]

Idle(s) == CASE s \in Authorities -> hand[s] = Done
             [] s = "execution"   -> pc = "get"
             [] OTHER             -> TRUE

Acceptable(c) == c \notin Stale /\ Id[c] \notin accepted

Judge(c) ==
    /\ accepted' = IF Acceptable(c) THEN accepted \cup {Id[c]} ELSE accepted
    /\ submitted' = submitted \cup {c}

ReplaySubmit ==
    /\ Ready("replay", "question") /\ Idle("replay")
    /\ LET c == Head(inbox["replay"]).of IN
       /\ Judge(c)
       /\ \/ hand' = [hand EXCEPT !["replay"] = Msg("answer", c, Acceptable(c))] /\ UNCHANGED faults
          \/ UNCHANGED hand /\ Fault          \* the registry's write raises: no answer
    /\ inbox' = Consumed("replay")
    /\ UNCHANGED <<setupVars, life, capabilities, shutdown, replyBound, execVars, log>>

TrustVerify ==
    /\ Ready("trust", "question") /\ Idle("trust")
    /\ LET c == Head(inbox["trust"]).of IN
       hand' = [hand EXCEPT !["trust"] = Msg("answer", c, c \notin Untrusted)]
    /\ inbox' = Consumed("trust")
    /\ UNCHANGED <<setupVars, life, capabilities, shutdown, replyBound, accepted, submitted,
                   execVars, log, faults>>

\* The answer goes to whatever listens on the reply address; with nothing there it is dropped.
Answer(s) ==
    /\ Alive(s) /\ hand[s] # Done
    /\ inbox' = IF replyBound THEN [inbox EXCEPT !["reply"] = @ \o Connection(<<hand[s]>>)] ELSE inbox
    /\ hand' = [hand EXCEPT ![s] = Done]
    /\ UNCHANGED <<setupVars, life, capabilities, shutdown, replyBound, accepted, submitted,
                   execVars, log, faults>>

\* Every service loop ends at DONE and at the shutdown event, looked at between messages.
BreakOnDone(s) ==
    /\ Accepting(s)
    /\ IF s = "execution" THEN pc = "end" ELSE Ready(s, "DONE") /\ Idle(s)
    /\ Exit(s, "stopped")
    /\ UNCHANGED <<setupVars, capabilities, shutdown, accepted, submitted, execVars, log, faults>>

BreakOnSignal(s) ==
    /\ Accepting(s) /\ s \in shutdown /\ Idle(s)
    /\ Exit(s, "stopped")
    /\ UNCHANGED <<setupVars, capabilities, shutdown, accepted, submitted, execVars, log, faults>>

Signal(s) ==
    /\ s \notin shutdown /\ Fault
    /\ shutdown' = shutdown \cup {s}
    /\ UNCHANGED <<setupVars, life, capabilities, inbox, replyBound, authVars, execVars, log>>

-----------------------------------------------------------------------------
(* The execution service.  Every exception ends in the loop's handler:     *)
(* the contract is given up and the loop goes on; the reply listener is    *)
(* closed only where an answer has been read.                              *)

KeepRest == UNCHANGED <<setupVars, life, capabilities, shutdown, authVars, log>>

Goto(label) == pc' = label /\ UNCHANGED <<current, verdictOf>>
NextContract ==
    pc' = "get" /\ peer' = "replay" /\ current' = None /\ verdictOf' = None /\ UNCHANGED ledger

Take ==
    /\ Ready("execution", "CONTRACT") /\ pc = "get"
    /\ pc' = "ask" /\ current' = Head(inbox["execution"]).of
    /\ inbox' = Consumed("execution")
    /\ KeepRest /\ UNCHANGED <<replyBound, peer, verdictOf, ledger, faults>>

\* Mutant: DONE ends the service and goes no further.
DoneNotPropagated ==
    /\ Ready("execution", "DONE") /\ pc = "get" /\ Goto("end")
    /\ inbox' = Consumed("execution")
    /\ KeepRest /\ UNCHANGED <<replyBound, peer, ledger, faults>>

\* DONE is handed on to consensus, if it can be reached.
PropagateDone ==
    /\ Ready("execution", "DONE") /\ pc = "get" /\ Goto("end")
    /\ \/ /\ Accepting("consensus") /\ UNCHANGED faults
          /\ inbox' = [Consumed("execution") EXCEPT !["consensus"] = @ \o Connection(<<Done>>)]
       \/ GivesUpOn("consensus") /\ inbox' = Consumed("execution")
    /\ KeepRest /\ UNCHANGED <<replyBound, peer, ledger>>

\* Mutant: a bound port can be taken over on every transport, as a UDS path can.
CanAlwaysBind == TRUE

\* A TCP or HTTP listener cannot be bound while the last one is; a UDS one takes its place.
CanBind == ~ replyBound \/ transport = "uds"

\* Bind the reply listener, then send the question.
Ask ==
    /\ pc = "ask" /\ CanBind /\ Accepting(peer)
    /\ Goto("wait") /\ replyBound' = TRUE
    /\ inbox' = [inbox EXCEPT !["reply"] = << >>,
                              ![peer] = @ \o Connection(<<Msg("question", current, TRUE)>>)]
    /\ KeepRest /\ UNCHANGED <<peer, ledger, faults>>

AskFails ==
    /\ pc = "ask" /\ NextContract
    /\ \/ ~ CanBind /\ UNCHANGED <<inbox, replyBound, faults>>
       \/ /\ CanBind /\ GivesUpOn(peer)
          /\ inbox' = [inbox EXCEPT !["reply"] = << >>] /\ replyBound' = TRUE
    /\ KeepRest

\* Mutant: the reply listener is not closed after the answer.
CloseNothing == UNCHANGED <<replyBound, inbox>>

CloseReply == replyBound' = FALSE /\ inbox' = [inbox EXCEPT !["reply"] = << >>]

\* Mutant: what the authority answers is not looked at.
Unheeded == TRUE

Passed == Head(inbox["reply"]).ok

Hear ==
    /\ pc = "wait" /\ inbox["reply"] # << >>
    /\ CloseReply
    /\ pc' = IF ~ Passed THEN "halt" ELSE IF peer = "replay" THEN "ask" ELSE "execute"
    /\ peer' = "trust"
    /\ verdictOf' = IF peer = "replay" THEN Head(inbox["reply"]).of ELSE verdictOf
    /\ KeepRest /\ UNCHANGED <<current, ledger, faults>>

\* No answer in five seconds.  The listener stays bound.
AnswerOnItsWay == replyBound /\ Alive(peer) /\ (inbox[peer] # << >> \/ hand[peer] # Done)

WaitTimesOut ==
    /\ pc = "wait" /\ inbox["reply"] = << >> /\ NextContract
    /\ IF AnswerOnItsWay THEN Fault ELSE UNCHANGED faults
    /\ KeepRest /\ UNCHANGED <<inbox, replyBound>>

\* RuntimeCore.execute and ledger.append; a halt of the runtime is recorded like a success.
Execute ==
    /\ pc = "execute" /\ Goto("forward")
    /\ ledger' = Append(ledger, [of |-> current, verdictOf |-> verdictOf])
    /\ KeepRest /\ UNCHANGED <<inbox, replyBound, peer, faults>>

Result(ok) == Connection(<<Msg("EXECUTION_RESULT", current, ok)>>)

\* Mutant: after a refusal is forwarded the contract goes on (a missing continue).
ForwardAndGoOn ==
    /\ pc \in {"halt", "forward"} /\ Accepting("consensus")
    /\ inbox' = [inbox EXCEPT !["consensus"] = @ \o Result(pc = "forward")]
    /\ IF pc = "halt" THEN Goto("execute") /\ UNCHANGED <<peer, ledger>> ELSE NextContract
    /\ KeepRest /\ UNCHANGED <<replyBound, faults>>

\* A result for consensus: of the execution, or of the authority that refused.
Forward ==
    /\ pc \in {"halt", "forward"} /\ NextContract
    /\ \/ /\ Accepting("consensus") /\ UNCHANGED faults
          /\ inbox' = [inbox EXCEPT !["consensus"] = @ \o Result(pc = "forward" /\ current \notin Weak)]
       \/ GivesUpOn("consensus") /\ UNCHANGED inbox
    /\ KeepRest /\ UNCHANGED replyBound

-----------------------------------------------------------------------------
(* The consensus service logs a halt as it is; the rest is voted on by     *)
(* three nodes that agree on a verified contract (module Consensus).       *)

\* Mutant: the outcome file is opened anew for each outcome.
DecideOverwrites ==
    /\ Ready("consensus", "EXECUTION_RESULT")
    /\ LET m == Head(inbox["consensus"]) IN log' = <<[of |-> m.of, reached |-> m.ok]>>
    /\ inbox' = Consumed("consensus")
    /\ UNCHANGED <<setupVars, life, capabilities, shutdown, replyBound, authVars, execVars, faults>>

Decide ==
    /\ Ready("consensus", "EXECUTION_RESULT")
    /\ LET m == Head(inbox["consensus"]) IN log' = Append(log, [of |-> m.of, reached |-> m.ok])
    /\ inbox' = Consumed("consensus")
    /\ UNCHANGED <<setupVars, life, capabilities, shutdown, replyBound, authVars, execVars, faults>>

-----------------------------------------------------------------------------
ServiceStep(s) == Register(s) \/ Listen(s) \/ BreakOnDone(s) \/ BreakOnSignal(s)
ContractStep   == Take \/ PropagateDone \/ Ask \/ AskFails \/ Hear \/ WaitTimesOut \/ Execute \/ Forward
ExecutionStep  == GiveUpDiscovery \/ (Accepting("execution") /\ ContractStep)
ProducerStep   == ProducerSends \/ ProducerFails
AuthorityWork  == ReplaySubmit \/ TrustVerify \/ \E s \in Authorities : Answer(s)

Running == (\E s \in Services : ServiceStep(s)) \/ ExecutionStep \/ ProducerStep
           \/ AuthorityWork \/ Decide

ServicesNext == Running \/ \E s \in Services : Signal(s)

\* Each process runs on its own: every loop, and the sender's and listener's timers, go on.
ServicesFairness ==
    /\ \A s \in Services : WF_servicesVars(ServiceStep(s))
    /\ \A s \in Authorities : WF_servicesVars(Answer(s))
    /\ WF_servicesVars(ExecutionStep) /\ WF_servicesVars(ProducerStep)
    /\ WF_servicesVars(ReplaySubmit) /\ WF_servicesVars(TrustVerify) /\ WF_servicesVars(Decide)

ServicesSpec == ServicesInit /\ [][ServicesNext]_servicesVars /\ ServicesFairness

-----------------------------------------------------------------------------
(* Properties.                                                             *)

Entry   == [of : Contracts, verdictOf : Contracts]
Outcome == [of : Contracts, reached : BOOLEAN]

\* Every message, answer and record has its form, and a question is asked only with the
\* reply listener bound to hear its answer.
ServicesTypeOK ==
    /\ transport \in Transports /\ script \in Scripts
    /\ life \in [Processes -> {"launched", "registered", "listening", "stopped", "killed", "crashed"}]
    /\ capabilities \subseteq Services /\ shutdown \subseteq Processes
    /\ inbox \in [Services \cup {"reply"} -> Seq(Message)]
    /\ hand \in [Authorities -> Message]
    /\ pc \in {"get", "ask", "wait", "halt", "execute", "forward", "end"}
    /\ peer \in Authorities
    /\ current \in Contracts \cup {None} /\ verdictOf \in Contracts \cup {None}
    /\ replyBound \in BOOLEAN /\ accepted \subseteq Ids /\ submitted \subseteq Contracts
    /\ ledger \in Seq(Entry) /\ log \in Seq(Outcome)
    /\ faults \in 0..MaxFaults
    /\ (pc = "wait" /\ Accepting("execution")) => replyBound

\* "Callers must consult CanonicalReplayAuthority" (runtime_core.py:123): an executed contract
\* has been judged, and the verdict it was executed on was its own.
ExecutedOnOwnVerdict ==
    \A i \in DOMAIN ledger : ledger[i].of \in submitted /\ ledger[i].verdictOf = ledger[i].of

\* A trace id is executed at most once, and only if the authority has accepted it.
ExecutedOnce ==
    /\ \A i \in DOMAIN ledger : Id[ledger[i].of] \in accepted
    /\ \A i, j \in DOMAIN ledger : Id[ledger[i].of] = Id[ledger[j].of] => i = j

\* The outcome file has at most one line for a contract; agreement is logged for executed
\* contracts alone, in the order of their execution, and a contract refused by an authority
\* is not in the ledger.
OutcomesFollowLedger ==
    LET Place(c) == {i \in DOMAIN ledger : ledger[i].of = c} IN
    /\ \A m, n \in DOMAIN log : m < n =>
          /\ log[m].of # log[n].of
          /\ \A i \in Place(log[m].of), j \in Place(log[n].of) : i < j
    /\ \A m \in DOMAIN log : log[m].reached <=> (Place(log[m].of) # {} /\ log[m].of \notin Weak)

\* What the services do, step by step, is what ContractLifecycle promises.
Lifecycle == INSTANCE ContractLifecycle
    WITH Halting   <- Weak,
         admitted  <- accepted,
         executed  <- [i \in DOMAIN ledger |-> ledger[i].of],
         announced <- {log[m].of : m \in {n \in DOMAIN log : log[n].reached}}

\* The evidence ledger and the outcome file, written by two processes that end, lose messages
\* and time out at any step, are one history: nothing is executed twice, and agreement follows
\* the executions in their order and is never taken back, not by a listener that starts late.
ServicesKeepLifecycle == Lifecycle!LifecycleSpec

Answered(c) == \E m \in DOMAIN log : log[m].of = c

\* Without a fault the producer's first contract gets an outcome, whatever the transport; over
\* HTTP every contract does.
Served == <>( \/ faults > 0
              \/ \A i \in DOMAIN script : (i = 1 \/ transport = "http") => Answered(script[i]) )

\* Once the producer is through, execution and, without a fault, consensus come to their end,
\* whichever contracts were lost on the way.
SentContracts == life["producer"] = "stopped" /\ inbox["execution"] # << >>
LoopsEnd ==
    SentContracts ~> ( /\ ~ Alive("execution")
                       /\ faults > 0 \/ ~ Alive("consensus") )
=============================================================================
