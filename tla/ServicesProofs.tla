--------------------------- MODULE ServicesProofs ---------------------------
(***************************************************************************)
(* The distributed runtime executes a contract once and on its own         *)
(* verdict, its outcomes follow its ledger, and the orchestrator calls ok  *)
(* only what is ok, for any contracts, faults and crashes.                 *)
(*                                                                         *)
(* The first needs that an address cannot be bound twice, which is so on   *)
(* every transport but UDS (run unjudged_uds shows what happens there).    *)
(* The argument: a reply listener is bound only where none is, and none is *)
(* only where the last question has been answered; so while execution      *)
(* waits there is one question under way, or its answer, and it is the one *)
(* for the contract in hand.                                               *)
(*                                                                         *)
(* The outcomes come in the order of the script, as the ledger does        *)
(* (OrderInv); so an agreement is logged after all that were logged for    *)
(* earlier executions, and the services implement ContractLifecycle, with  *)
(* the orchestrator around them or without.                                *)
(***************************************************************************)
EXTENDS Orchestrator, SequenceTheorems, TLAPS

\* Every transport binds an address once.
PortsOnly == "uds" \notin Transports

-----------------------------------------------------------------------------
(* The invariant.                                                          *)

\* Messages that name a contract unless they are the end of a stream.
Mail == {m \in Message : m.type # "DONE" => m.of \in Contracts}

AtWork == {"ask", "wait", "halt", "execute", "forward"}

MailOK ==
    /\ inbox \in [Services \cup {"reply"} -> Seq(Mail)]
    /\ hand \in [Authorities -> Mail]
    /\ pc \in AtWork => current \in Contracts

\* The authority has judged c, has entered its trace id, and nothing with that id is executed.
Admitted(c) ==
    /\ c \in submitted /\ Id[c] \in accepted
    /\ \A i \in DOMAIN ledger : Id[ledger[i].of] # Id[c]

\* Once replay has been heard, and until the execution, the contract in hand is admitted.
ClearedOK ==
    /\ pc = "execute" \/ (pc \in {"ask", "wait"} /\ peer = "trust") =>
          Admitted(current) /\ verdictOf = current
    /\ pc = "get" => peer = "replay"

Questions(s) == {i \in DOMAIN inbox[s] : inbox[s][i].type = "question"}

\* Nothing under way to or from an authority.
Quiet(s) == Questions(s) = {} /\ hand[s] = Done

\* The answer that execution waits for.
IsVerdict(m) ==
    /\ m.of = current
    /\ m.ok /\ peer = "replay" => Admitted(current)

\* What is under way while execution waits: the question, or the answer in the authority's
\* hand, or the answer in the reply listener, or nothing.
Waiting ==
    /\ \A s \in Authorities : s # peer => Quiet(s)
    /\ \A i \in Questions(peer) :
          /\ inbox[peer][i].of = current
          /\ hand[peer] = Done /\ inbox["reply"] = << >>
          /\ \A j \in Questions(peer) : j = i
    /\ hand[peer] # Done => inbox["reply"] = << >> /\ IsVerdict(hand[peer])
    /\ inbox["reply"] # << >> => IsVerdict(Head(inbox["reply"]))

ReplyOK ==
    Alive("execution") =>
        /\ ~ replyBound => inbox["reply"] = << >> /\ \A s \in Authorities : Quiet(s)
        /\ replyBound => pc \in {"get", "ask", "wait", "end"}
        /\ pc = "wait" => replyBound /\ Waiting

VerdictInv == ServicesTypeOK /\ MailOK /\ ClearedOK /\ ReplyOK /\ ExecutedOnOwnVerdict /\ ExecutedOnce

-----------------------------------------------------------------------------
(* The order of the contracts, as the producer sends them.                 *)

Distinct(s) == \A i, j \in DOMAIN s : s[i] = s[j] => i = j

\* No contract is sent twice.
SentOnce == \A s \in Scripts : Distinct(s)

Before(c, d) == \E i, j \in DOMAIN script : script[i] = c /\ script[j] = d /\ i < j

Executed(c) == \E i \in DOMAIN ledger : ledger[i].of = c

\* What consensus has logged and has still to log, in one order.
ReportsOK ==
    LET queue == inbox["consensus"] IN
    /\ \A m, n \in DOMAIN log : m < n => Before(log[m].of, log[n].of)
    /\ \A m \in DOMAIN log :
          log[m].reached <=> (Executed(log[m].of) /\ log[m].of \notin Weak)
    /\ \A i \in DOMAIN queue : queue[i].type = "EXECUTION_RESULT" =>
          /\ \A m \in DOMAIN log : Before(log[m].of, queue[i].of)
          /\ \A j \in DOMAIN queue :
                queue[j].type = "EXECUTION_RESULT" /\ i < j => Before(queue[i].of, queue[j].of)
          /\ queue[i].ok <=> (Executed(queue[i].of) /\ queue[i].of \notin Weak)

\* Reported or to be reported.
Reported(c) ==
    \/ \E m \in DOMAIN log : log[m].of = c
    \/ \E i \in DOMAIN inbox["consensus"] :
          inbox["consensus"][i].type = "EXECUTION_RESULT" /\ inbox["consensus"][i].of = c

\* The contract in hand comes after all that is behind execution and before all that is to come.
InHandOK ==
    pc \in AtWork =>
        /\ \E i \in DOMAIN script : script[i] = current
        /\ \A c \in Contracts : Reported(c) => Before(c, current)
        /\ \A i \in DOMAIN ledger : Before(ledger[i].of, current) \/ ledger[i].of = current
        /\ Executed(current) <=> pc = "forward"

ToComeOK ==
    LET queue == inbox["execution"] IN
    \A i \in DOMAIN queue : queue[i].type = "CONTRACT" =>
        /\ \E k \in DOMAIN script : script[k] = queue[i].of
        /\ \A j \in DOMAIN queue :
              queue[j].type = "CONTRACT" /\ i < j => Before(queue[i].of, queue[j].of)
        /\ \A c \in Contracts : Reported(c) \/ Executed(c) => Before(c, queue[i].of)
        /\ pc \in AtWork => Before(current, queue[i].of)

\* Nothing has happened before the producer sends.
NothingYet ==
    life["producer"] = "launched" =>
        inbox["execution"] = << >> /\ pc \in {"get", "end"} /\ \A c \in Contracts : ~ Reported(c) /\ ~ Executed(c)

OfScript(c) == \E i \in DOMAIN script : script[i] = c

\* Nothing is reported or executed that the producer does not send.
SentInv == \A c \in Contracts : Reported(c) \/ Executed(c) => OfScript(c)

OrderInv ==
    /\ \A i, j \in DOMAIN ledger : i < j => Before(ledger[i].of, ledger[j].of)
    /\ ReportsOK /\ InHandOK /\ ToComeOK /\ NothingYet /\ SentInv

-----------------------------------------------------------------------------
(* Connections.                                                            *)

LEMMA DoneIsMail == Done \in Mail /\ Done.type = "DONE"
  BY DEF Mail, Message, Done, Msg, None

LEMMA ContractIsMail ==
  ASSUME NEW type \in {"CONTRACT", "question", "answer", "EXECUTION_RESULT"},
         NEW c \in Contracts, NEW ok \in BOOLEAN
  PROVE  Msg(type, c, ok) \in Mail
  BY DEF Mail, Message, Msg

\* m comes after what is in q, and before nothing but Done.
Brings(r, q, m) ==
    /\ r \in Seq(Mail) /\ Len(r) \in Nat /\ Len(q) \in Nat
    /\ DOMAIN q = 1..Len(q) /\ DOMAIN r = 1..Len(r)
    /\ Len(q) < Len(r) /\ r # << >> /\ r[Len(q) + 1] = m
    /\ \A i \in 1..Len(q) : r[i] = q[i]
    /\ \A i \in 1..Len(r) : i > Len(q) + 1 => r[i] = Done

\* What a connection with one message brings.
LEMMA Carried ==
  ASSUME NEW q \in Seq(Mail), NEW m \in Mail
  PROVE  Brings(q \o Connection(<<m>>), q, m)
<1> DEFINE r == q \o Connection(<<m>>)
<1> SUFFICES Brings(r, q, m)
  OBVIOUS
<1>1. DOMAIN q = 1..Len(q) /\ Len(q) \in Nat
  OBVIOUS
<1>2. CASE transport = "http"
  <2>1. r = q \o <<m>> /\ <<m>> \in Seq(Mail) /\ Len(<<m>>) = 1
    BY <1>2 DEF Connection
  <2>2. r \in Seq(Mail) /\ Len(r) = Len(q) + 1
    <3>1. q \o <<m>> \in Seq(Mail) /\ Len(q \o <<m>>) = Len(q) + Len(<<m>>)
      BY <2>1, ConcatProperties
    <3> QED  BY <2>1, <3>1
  <2>3. /\ \A i \in 1..Len(q) : r[i] = q[i]
        /\ r[Len(q) + 1] = m
    BY <1>1, <2>1, ConcatProperties
  <2> QED  BY <1>1, <2>2, <2>3 DEF Brings
<1>3. CASE transport # "http"
  <2>1. r = q \o <<m, Done>> /\ <<m, Done>> \in Seq(Mail) /\ Len(<<m, Done>>) = 2
    BY <1>3, DoneIsMail DEF Connection
  <2>2. r \in Seq(Mail) /\ Len(r) = Len(q) + 2
    <3>1. q \o <<m, Done>> \in Seq(Mail) /\ Len(q \o <<m, Done>>) = Len(q) + Len(<<m, Done>>)
      BY <2>1, ConcatProperties
    <3> QED  BY <2>1, <3>1
  <2>3. /\ \A i \in 1..Len(q) : r[i] = q[i]
        /\ r[Len(q) + 1] = m /\ r[Len(q) + 2] = Done
    BY <1>1, <2>1, ConcatProperties
  <2> QED  BY <1>1, <2>2, <2>3 DEF Brings
<1> QED  BY <1>2, <1>3

LEMMA Taken ==
  ASSUME NEW S, NEW q \in Seq(S), q # << >>
  PROVE  /\ Head(q) = q[1] /\ q[1] \in S /\ Tail(q) \in Seq(S)
         /\ Len(q) \in Nat /\ 1 \in DOMAIN q /\ DOMAIN q = 1..Len(q)
         /\ \A i \in DOMAIN Tail(q) : /\ i + 1 \in DOMAIN q /\ Tail(q)[i] = q[i + 1]
                                      /\ i \in Nat /\ i # 0
  OBVIOUS

-----------------------------------------------------------------------------
(* Steps that move no message.                                             *)

LEMMA FaultTyped ==
  ASSUME faults \in 0..MaxFaults, Fault \/ UNCHANGED faults
  PROVE  faults' \in 0..MaxFaults
  BY ServicesAssumption DEF Fault

LEMMA GivesUpFaults ==
  ASSUME NEW s, GivesUpOn(s) PROVE Fault \/ UNCHANGED faults
  BY DEF GivesUpOn

\* A process goes on, or is told something, or an outcome is logged.
LEMMA StillStep ==
  ASSUME VerdictInv, UNCHANGED <<inbox, replyBound, authVars, execVars>>,
         Alive("execution")' => Alive("execution"),
         life' \in [Processes -> {"launched", "registered", "listening", "stopped", "killed", "crashed"}],
         capabilities' \subseteq Services, shutdown' \subseteq Processes, log' \in Seq(Outcome),
         Fault \/ UNCHANGED faults, UNCHANGED setupVars
  PROVE  VerdictInv'
<1>1. faults' \in 0..MaxFaults
  BY FaultTyped DEF VerdictInv, ServicesTypeOK
<1>2. ClearedOK' /\ MailOK' /\ ExecutedOnOwnVerdict' /\ ExecutedOnce'
  BY DEF VerdictInv, ClearedOK, Admitted, MailOK, ExecutedOnOwnVerdict, ExecutedOnce, authVars, execVars
<1>3. ReplyOK'
  BY DEF VerdictInv, ReplyOK, Waiting, IsVerdict, Admitted, Quiet, Questions, authVars, execVars
<1>4. ServicesTypeOK'
  <2>1. (pc = "wait" /\ Accepting("execution"))' => replyBound'
    BY <1>3 DEF ReplyOK, Alive, Accepting
  <2> QED  BY <1>1, <2>1 DEF VerdictInv, ServicesTypeOK, authVars, execVars, setupVars
<1> QED  BY <1>2, <1>3, <1>4 DEF VerdictInv

LEMMA RegisterKeeps == ASSUME VerdictInv, NEW s \in Services, Register(s) PROVE VerdictInv'
<1>1. ServicesTypeOK
  BY DEF VerdictInv
<1> USE DEF Register
<1>2. Alive("execution")' => Alive("execution")
  BY <1>1 DEF Alive, ServicesTypeOK, Processes
<1>3. /\ life' \in [Processes -> {"launched", "registered", "listening", "stopped", "killed", "crashed"}]
      /\ capabilities' \subseteq Services /\ shutdown' \subseteq Processes /\ log' \in Seq(Outcome)
  BY <1>1 DEF ServicesTypeOK, Processes
<1> QED  BY <1>2, <1>3, StillStep

LEMMA ListenKeeps == ASSUME VerdictInv, NEW s \in Services, Listen(s) PROVE VerdictInv'
<1>1. ServicesTypeOK
  BY DEF VerdictInv
<1> USE DEF Listen
<1>2. Alive("execution")' => Alive("execution")
  BY <1>1 DEF Alive, ServicesTypeOK, Processes
<1>3. /\ life' \in [Processes -> {"launched", "registered", "listening", "stopped", "killed", "crashed"}]
      /\ capabilities' \subseteq Services /\ shutdown' \subseteq Processes /\ log' \in Seq(Outcome)
  BY <1>1 DEF ServicesTypeOK, Processes
<1> QED  BY <1>2, <1>3, StillStep

LEMMA ProducerFailsKeeps == ASSUME VerdictInv, ProducerFails PROVE VerdictInv'
<1>1. ServicesTypeOK
  BY DEF VerdictInv
<1> USE DEF ProducerFails
<1>2. Alive("execution")' => Alive("execution")
  BY <1>1 DEF Alive, ServicesTypeOK, Processes
<1>3. life' \in [Processes -> {"launched", "registered", "listening", "stopped", "killed", "crashed"}]
  BY <1>1 DEF ServicesTypeOK, Processes
<1>4. Fault \/ UNCHANGED faults
  BY GivesUpFaults DEF LookupsFail
<1> QED  BY <1>1, <1>2, <1>3, <1>4, StillStep DEF ServicesTypeOK

LEMMA SignalKeeps == ASSUME VerdictInv, NEW s \in Services, Signal(s) PROVE VerdictInv'
<1>1. ServicesTypeOK
  BY DEF VerdictInv
<1>2. shutdown' \subseteq Processes
  BY <1>1 DEF ServicesTypeOK, Processes, Signal
<1> QED  BY <1>1, <1>2, StillStep DEF ServicesTypeOK, Signal, Alive

\* The end of a process loses messages and makes none.
LEMMA ExitKeeps ==
  ASSUME VerdictInv, NEW p \in Processes, NEW how \in {"stopped", "killed", "crashed"}, Exit(p, how),
         UNCHANGED <<setupVars, capabilities, shutdown, accepted, submitted, execVars, log>>,
         Fault \/ UNCHANGED faults
  PROVE  VerdictInv'
<1>1. ServicesTypeOK /\ MailOK
  BY DEF VerdictInv
<1>2. /\ life' = [life EXCEPT ![p] = how]
      /\ life' \in [Processes -> {"launched", "registered", "listening", "stopped", "killed", "crashed"}]
  BY <1>1 DEF Exit, ServicesTypeOK
<1>3. /\ Alive("execution")' => Alive("execution") /\ p # "execution"
      /\ Accepting("execution")' => Alive("execution")'
  BY <1>1, <1>2 DEF Alive, Accepting, ServicesTypeOK, Processes
<1>4. /\ inbox' \in [Services \cup {"reply"} -> Seq(Mail)]
      /\ \A l \in Services \cup {"reply"} : inbox'[l] \in {inbox[l], << >>}
      /\ p # "execution" => inbox'["reply"] = inbox["reply"]
  <2>1. inbox' = [l \in Services \cup {"reply"} |->
                    IF l = p \/ (p = "execution" /\ l = "reply") THEN << >> ELSE inbox[l]]
    BY <1>1 DEF MailOK, Exit
  <2>2. << >> \in Seq(Mail)
    OBVIOUS
  <2>3. p # "reply"
    BY DEF Processes, Services, Needed
  <2> QED  BY <1>1, <2>1, <2>2, <2>3 DEF MailOK
<1>5. /\ hand' \in [Authorities -> Mail]
      /\ \A s \in Authorities : hand'[s] \in {hand[s], Done}
  BY <1>1, DoneIsMail DEF MailOK, Exit
<1>6. \A s \in Authorities : /\ Questions(s)' \subseteq Questions(s)
                             /\ inbox'[s] # << >> => inbox'[s] = inbox[s]
  BY <1>4 DEF Questions, Authorities, Services, Needed
<1>7. ClearedOK' /\ MailOK' /\ ExecutedOnOwnVerdict' /\ ExecutedOnce'
  BY <1>4, <1>5 DEF VerdictInv, ClearedOK, Admitted, MailOK, ExecutedOnOwnVerdict, ExecutedOnce, execVars
<1>8. ReplyOK'
  <2> SUFFICES ASSUME Alive("execution")' PROVE ReplyOK'
    BY DEF ReplyOK
  <2>1. Alive("execution") /\ p # "execution" /\ replyBound' = replyBound
        /\ inbox'["reply"] = inbox["reply"] /\ ReplyOK /\ peer \in Authorities
    <3>1. Alive("execution") /\ p # "execution"
      BY <1>3
    <3> QED  BY <1>1, <1>4, <3>1 DEF Exit, VerdictInv, ServicesTypeOK, execVars
  <2>2. \A s \in Authorities : Quiet(s) => Quiet(s)'
    BY <1>5, <1>6 DEF Quiet
  <2>3. pc = "wait" => Waiting'
    <3> SUFFICES ASSUME pc = "wait" PROVE Waiting'
      OBVIOUS
    <3>1. Waiting /\ UNCHANGED <<pc, peer, current, ledger, accepted, submitted>>
      BY <2>1 DEF ReplyOK, execVars
    <3>2. \A m : IsVerdict(m) => IsVerdict(m)'
      BY <3>1 DEF IsVerdict, Admitted
    <3>3. \A i \in Questions(peer)' : i \in Questions(peer) /\ inbox'[peer] = inbox[peer]
      BY <1>6, <2>1, <3>1 DEF Questions
    <3> QED  BY <1>5, <2>1, <2>2, <3>1, <3>2, <3>3 DEF Waiting
  <2> QED  BY <2>1, <2>2, <2>3 DEF ReplyOK, execVars
<1>9. ServicesTypeOK'
  <2>1. inbox' \in [Services \cup {"reply"} -> Seq(Message)] /\ hand' \in [Authorities -> Message]
    <3>1. Seq(Mail) \subseteq Seq(Message) /\ Mail \subseteq Message
      BY DEF Mail
    <3> QED  BY <1>4, <1>5, <3>1
  <2>2. (pc = "wait" /\ Accepting("execution"))' => replyBound'
    BY <1>3, <1>8 DEF ReplyOK, execVars
  <2>3. faults' \in 0..MaxFaults
    BY <1>1, FaultTyped DEF ServicesTypeOK
  <2>4. replyBound' \in BOOLEAN
    BY DEF Exit
  <2> QED  BY <1>1, <1>2, <2>1, <2>2, <2>3, <2>4 DEF ServicesTypeOK, execVars, setupVars
<1> QED  BY <1>7, <1>8, <1>9 DEF VerdictInv

-----------------------------------------------------------------------------
(* What a step may disturb of the exchange with the authorities.           *)

SameExchange == \A l \in Authorities \cup {"reply"} : inbox'[l] = inbox[l]

\* Nothing of it has changed.
LEMMA ReplyUntouched ==
  ASSUME ReplyOK, peer \in Authorities, SameExchange, Alive("execution")' => Alive("execution"),
         UNCHANGED <<hand, replyBound, pc, peer, current, ledger, accepted, submitted>>
  PROVE  ReplyOK'
<1>1. \A s \in Authorities : Questions(s)' = Questions(s) /\ (Quiet(s) => Quiet(s)')
  BY DEF SameExchange, Quiet, Questions
<1>2. \A m : IsVerdict(m) => IsVerdict(m)'
  BY DEF IsVerdict, Admitted
<1>3. Waiting => Waiting'
  BY <1>1, <1>2 DEF Waiting, SameExchange
<1> QED  BY <1>1, <1>3 DEF ReplyOK, SameExchange

\* Execution is elsewhere after the step.
LEMMA ReplyElsewhere ==
  ASSUME ReplyOK, SameExchange, Alive("execution")' => Alive("execution"),
         UNCHANGED <<hand, replyBound>>, pc' # "wait", replyBound => pc' \in {"get", "ask", "end"}
  PROVE  ReplyOK'
<1>1. \A s \in Authorities : Quiet(s) => Quiet(s)'
  BY DEF SameExchange, Quiet, Questions
<1> QED  BY <1>1 DEF ReplyOK, SameExchange

LifeTyped == life' \in [Processes -> {"launched", "registered", "listening", "stopped", "killed", "crashed"}]

\* Typing follows from the other parts and from the types of what the step assigns.
LEMMA TypedAgain ==
  ASSUME ServicesTypeOK, MailOK', ReplyOK', LifeTyped, UNCHANGED <<setupVars, capabilities, shutdown>>,
         replyBound' \in BOOLEAN, peer' \in Authorities,
         pc' \in {"get", "ask", "wait", "halt", "execute", "forward", "end"},
         current' \in Contracts \cup {None}, verdictOf' \in Contracts \cup {None},
         accepted' \subseteq Ids, submitted' \subseteq Contracts,
         ledger' \in Seq(Entry), log' \in Seq(Outcome), Fault \/ UNCHANGED faults
  PROVE  ServicesTypeOK'
<1>1. Seq(Mail) \subseteq Seq(Message) /\ Mail \subseteq Message
  BY DEF Mail
<1>2. inbox' \in [Services \cup {"reply"} -> Seq(Message)] /\ hand' \in [Authorities -> Message]
  BY <1>1 DEF MailOK
<1>3. (pc = "wait" /\ Accepting("execution"))' => replyBound'
  BY DEF ReplyOK, Alive, Accepting
<1>4. faults' \in 0..MaxFaults
  BY FaultTyped DEF ServicesTypeOK
<1> QED  BY <1>2, <1>3, <1>4 DEF ServicesTypeOK, LifeTyped, setupVars

-----------------------------------------------------------------------------
(* The producer, and the execution service up to its questions.            *)

LEMMA ScriptSent ==
  ASSUME VerdictInv, ProducerSends, inbox["execution"] \in Seq(Mail)
  PROVE  inbox'["execution"] \in Seq(Mail)
<1> DEFINE contracts == [i \in DOMAIN script |-> Msg("CONTRACT", script[i], TRUE)]
<1>1. script \in Seq(Contracts)
  BY ServicesAssumption DEF VerdictInv, ServicesTypeOK
<1>2. DOMAIN script = 1..Len(script) /\ Len(script) \in Nat /\ \A i \in 1..Len(script) : script[i] \in Contracts
  BY <1>1
<1>3. \A i \in 1..Len(script) : Msg("CONTRACT", script[i], TRUE) \in Mail
  BY <1>2, ContractIsMail
<1>4. contracts \in [1..Len(script) -> Mail]
  BY <1>2, <1>3
<1>5. contracts \in Seq(Mail)
  <2>1. \A n \in Nat : \A f \in [1..n -> Mail] : f \in Seq(Mail)
    OBVIOUS
  <2> HIDE DEF contracts
  <2> QED  BY <1>2, <1>4, <2>1
<1>6. Connection(Append(contracts, Done)) \in Seq(Mail)
  <2> HIDE DEF contracts
  <2> QED  BY <1>5, DoneIsMail DEF Connection
<1>7. inbox'["execution"] = inbox["execution"] \o Connection(Append(contracts, Done))
  BY DEF VerdictInv, MailOK, ProducerSends, Services
<1> HIDE DEF contracts
<1> QED  BY <1>6, <1>7

LEMMA ProducerSendsKeeps == ASSUME VerdictInv, ProducerSends PROVE VerdictInv'
<1>1. ServicesTypeOK /\ MailOK /\ ReplyOK
  BY DEF VerdictInv
<1>2. inbox'["execution"] \in Seq(Mail)
  BY <1>1, ScriptSent DEF MailOK, Services
<1>3. inbox' \in [Services \cup {"reply"} -> Seq(Mail)] /\ SameExchange
  <2> DEFINE sent == inbox["execution"] \o Connection(
                       Append([i \in DOMAIN script |-> Msg("CONTRACT", script[i], TRUE)], Done))
  <2>1. inbox' = [inbox EXCEPT !["execution"] = sent]
    BY DEF ProducerSends
  <2> HIDE DEF sent
  <2>2. inbox'["execution"] = sent
    BY <1>1, <2>1 DEF MailOK, Services
  <2> QED  BY <1>1, <1>2, <2>1, <2>2 DEF MailOK, SameExchange, Authorities, Services, Needed
<1>4. LifeTyped /\ (Alive("execution")' => Alive("execution"))
  BY <1>1 DEF ProducerSends, LifeTyped, ServicesTypeOK, Alive, Processes
<1>5. ReplyOK'
  BY <1>1, <1>3, <1>4, ReplyUntouched DEF ProducerSends, ServicesTypeOK, authVars, execVars
<1>6. MailOK'
  BY <1>1, <1>3 DEF MailOK, ProducerSends, authVars, execVars
<1>7. ServicesTypeOK'
  BY <1>1, <1>4, <1>5, <1>6, TypedAgain DEF ProducerSends, ServicesTypeOK, authVars, execVars
<1>8. ClearedOK' /\ ExecutedOnOwnVerdict' /\ ExecutedOnce'
  BY DEF VerdictInv, ClearedOK, Admitted, ExecutedOnOwnVerdict, ExecutedOnce, ProducerSends, authVars, execVars
<1> QED  BY <1>5, <1>6, <1>7, <1>8 DEF VerdictInv

\* What taking a message off a listener leaves.
LEMMA ConsumedKeeps ==
  ASSUME MailOK, NEW l \in Services, inbox[l] # << >>
  PROVE  /\ Consumed(l) \in [Services \cup {"reply"} -> Seq(Mail)]
         /\ Consumed(l)[l] = Tail(inbox[l]) /\ Head(inbox[l]) \in Mail
         /\ \A k \in Services \cup {"reply"} : k # l => Consumed(l)[k] = inbox[k]
<1>1. Tail(inbox[l]) \in Seq(Mail) /\ Head(inbox[l]) \in Mail
  BY Taken DEF MailOK
<1> QED  BY <1>1 DEF MailOK, Consumed

LEMMA TakeKeeps == ASSUME VerdictInv, Take, Accepting("execution") PROVE VerdictInv'
<1>1. ServicesTypeOK /\ MailOK /\ ReplyOK /\ ClearedOK
  BY DEF VerdictInv
<1>2. inbox["execution"] # << >> /\ Head(inbox["execution"]).type = "CONTRACT" /\ "execution" \in Services
  BY DEF Take, Ready, Services
<1>3. /\ inbox' \in [Services \cup {"reply"} -> Seq(Mail)] /\ SameExchange
      /\ current' \in Contracts
  BY <1>1, <1>2, ConsumedKeeps DEF Take, SameExchange, Authorities, Services, Needed, Mail
<1>4. LifeTyped /\ (Alive("execution")' => Alive("execution"))
  BY <1>1 DEF Take, KeepRest, LifeTyped, ServicesTypeOK, Alive
<1>5. ReplyOK'
  BY <1>1, <1>3, <1>4, ReplyElsewhere DEF Take, KeepRest, authVars
<1>6. MailOK'
  BY <1>1, <1>3 DEF MailOK, Take, KeepRest, authVars
<1>7. ServicesTypeOK'
  BY <1>1, <1>3, <1>4, <1>5, <1>6, TypedAgain DEF Take, KeepRest, ServicesTypeOK, authVars
<1>8. ExecutedOnOwnVerdict' /\ ExecutedOnce'
  BY DEF VerdictInv, ExecutedOnOwnVerdict, ExecutedOnce, Take, KeepRest, authVars
<1>9. ClearedOK'
  BY <1>1 DEF ClearedOK, Take
<1> QED  BY <1>5, <1>6, <1>7, <1>8, <1>9 DEF VerdictInv

\* A message that goes to consensus or execution is none of the exchange.
LEMMA Forwarded ==
  ASSUME MailOK, NEW box \in [Services \cup {"reply"} -> Seq(Mail)], NEW m \in Mail,
         inbox' = [box EXCEPT !["consensus"] = @ \o Connection(<<m>>)],
         \A l \in Authorities \cup {"reply"} : box[l] = inbox[l]
  PROVE  inbox' \in [Services \cup {"reply"} -> Seq(Mail)] /\ SameExchange
<1>1. box["consensus"] \o Connection(<<m>>) \in Seq(Mail)
  BY Carried DEF Services, Needed, Brings
<1> QED  BY <1>1 DEF SameExchange, Authorities, Services, Needed

LEMMA PropagateDoneKeeps == ASSUME VerdictInv, PropagateDone, Accepting("execution") PROVE VerdictInv'
<1>1. ServicesTypeOK /\ MailOK /\ ReplyOK /\ ClearedOK
  BY DEF VerdictInv
<1>2. inbox["execution"] # << >> /\ "execution" \in Services
  BY DEF PropagateDone, Ready, Services
<1>3. /\ Consumed("execution") \in [Services \cup {"reply"} -> Seq(Mail)]
      /\ \A l \in Authorities \cup {"reply"} : Consumed("execution")[l] = inbox[l]
  BY <1>1, <1>2, ConsumedKeeps DEF Authorities, Services, Needed
<1>4. inbox' \in [Services \cup {"reply"} -> Seq(Mail)] /\ SameExchange
  <2>1. CASE inbox' = Consumed("execution")
    BY <1>3, <2>1 DEF SameExchange
  <2>2. CASE inbox' = [Consumed("execution") EXCEPT !["consensus"] = @ \o Connection(<<Done>>)]
    BY <1>1, <1>3, <2>2, DoneIsMail, Forwarded
  <2> QED  BY <2>1, <2>2 DEF PropagateDone
<1>5. LifeTyped /\ (Alive("execution")' => Alive("execution"))
  BY <1>1 DEF PropagateDone, KeepRest, LifeTyped, ServicesTypeOK, Alive
<1>6. ReplyOK'
  BY <1>1, <1>4, <1>5, ReplyElsewhere DEF PropagateDone, Goto, KeepRest, authVars
<1>7. MailOK'
  BY <1>1, <1>4 DEF MailOK, PropagateDone, Goto, AtWork, KeepRest, authVars
<1>8. Fault \/ UNCHANGED faults
  BY GivesUpFaults DEF PropagateDone
<1>9. ServicesTypeOK'
  BY <1>1, <1>5, <1>6, <1>7, <1>8, TypedAgain DEF PropagateDone, Goto, KeepRest, ServicesTypeOK, authVars
<1>10. ExecutedOnOwnVerdict' /\ ExecutedOnce' /\ ClearedOK'
  BY DEF VerdictInv, ExecutedOnOwnVerdict, ExecutedOnce, ClearedOK, PropagateDone, Goto, KeepRest, authVars
<1> QED  BY <1>6, <1>7, <1>9, <1>10 DEF VerdictInv

\* A contract is given up or handed on: execution turns to the next one.
LEMMA NextKeeps ==
  ASSUME VerdictInv, NextContract, KeepRest, Fault \/ UNCHANGED faults, replyBound' \in BOOLEAN,
         inbox' \in [Services \cup {"reply"} -> Seq(Mail)], ReplyOK'
  PROVE  VerdictInv'
<1>1. ServicesTypeOK /\ MailOK
  BY DEF VerdictInv
<1>2. MailOK'
  BY <1>1 DEF MailOK, NextContract, AtWork, KeepRest, authVars
<1>3. LifeTyped
  BY <1>1 DEF KeepRest, LifeTyped, ServicesTypeOK
<1>4. ServicesTypeOK'
  BY <1>1, <1>2, <1>3, TypedAgain DEF NextContract, KeepRest, ServicesTypeOK, Authorities, authVars
<1>5. ExecutedOnOwnVerdict' /\ ExecutedOnce' /\ ClearedOK'
  BY DEF VerdictInv, ExecutedOnOwnVerdict, ExecutedOnce, ClearedOK, NextContract, KeepRest, authVars
<1> QED  BY <1>2, <1>4, <1>5 DEF VerdictInv

LEMMA ForwardKeeps == ASSUME VerdictInv, Forward, Accepting("execution") PROVE VerdictInv'
<1>1. MailOK /\ ReplyOK /\ ServicesTypeOK
  BY DEF VerdictInv
<1>2. NextContract /\ KeepRest /\ UNCHANGED replyBound /\ (Fault \/ UNCHANGED faults)
  BY GivesUpFaults DEF Forward
<1>3. current \in Contracts
  BY <1>1 DEF Forward, MailOK, AtWork
<1>4. inbox' \in [Services \cup {"reply"} -> Seq(Mail)] /\ SameExchange
  <2>1. CASE UNCHANGED inbox
    BY <1>1, <2>1 DEF MailOK, SameExchange
  <2>2. CASE inbox' = [inbox EXCEPT !["consensus"] = @ \o Result(pc = "forward" /\ current \notin Weak)]
    <3>1. Msg("EXECUTION_RESULT", current, pc = "forward" /\ current \notin Weak) \in Mail
      BY <1>3, ContractIsMail
    <3> QED  BY <1>1, <2>2, <3>1, Forwarded DEF Result, MailOK
  <2> QED  BY <2>1, <2>2 DEF Forward
<1>5. ReplyOK'
  BY <1>1, <1>2, <1>4, ReplyElsewhere DEF NextContract, KeepRest, Alive, authVars
<1> QED  BY <1>1, <1>2, <1>4, <1>5, NextKeeps DEF ServicesTypeOK

LEMMA WaitTimesOutKeeps == ASSUME VerdictInv, WaitTimesOut, Accepting("execution") PROVE VerdictInv'
<1>1. MailOK /\ ReplyOK /\ ServicesTypeOK
  BY DEF VerdictInv
<1>2. NextContract /\ KeepRest /\ UNCHANGED <<replyBound, inbox>> /\ (Fault \/ UNCHANGED faults)
  BY DEF WaitTimesOut
<1>3. ReplyOK'
  BY <1>1, <1>2, ReplyElsewhere DEF NextContract, KeepRest, Alive, SameExchange, authVars
<1> QED  BY <1>1, <1>2, <1>3, NextKeeps DEF ServicesTypeOK, MailOK

-----------------------------------------------------------------------------
(* Question and answer.                                                    *)

\* An address that is bound cannot be bound again, so nothing is under way when execution asks.
LEMMA AsksInQuiet ==
  ASSUME PortsOnly, VerdictInv, CanBind, Alive("execution")
  PROVE  ~ replyBound /\ inbox["reply"] = << >> /\ \A s \in Authorities : Quiet(s)
  BY DEF PortsOnly, VerdictInv, ServicesTypeOK, CanBind, ReplyOK

LEMMA AskKeeps == ASSUME PortsOnly, VerdictInv, Ask, Accepting("execution") PROVE VerdictInv'
<1> DEFINE question == Msg("question", current, TRUE)
           box      == [inbox EXCEPT !["reply"] = << >>]
           asked    == inbox[peer] \o Connection(<<question>>)
<1>1. MailOK /\ ReplyOK /\ ServicesTypeOK /\ ClearedOK /\ Alive("execution") /\ peer \in Authorities
  BY DEF VerdictInv, Alive, Accepting, ServicesTypeOK
<1>2. ~ replyBound /\ inbox["reply"] = << >> /\ \A s \in Authorities : Quiet(s)
  BY <1>1, AsksInQuiet DEF Ask
<1>3. question \in Mail /\ question.type = "question" /\ question.of = current
  BY <1>1, ContractIsMail DEF Ask, MailOK, AtWork, Msg
<1>4. peer \in Services /\ peer # "reply" /\ "reply" \notin Authorities /\ Authorities \subseteq Services
  BY <1>1 DEF Authorities, Services, Needed
<1>5. inbox' = [inbox EXCEPT !["reply"] = << >>, ![peer] = asked]
  BY <1>4 DEF Ask
<1> HIDE DEF question
<1>6. asked \in Seq(Mail)
  BY <1>1, <1>3, <1>4, Carried DEF MailOK, Brings
<1>7. /\ inbox' \in [Services \cup {"reply"} -> Seq(Mail)]
      /\ inbox'[peer] = asked /\ inbox'["reply"] = << >>
      /\ \A s \in Authorities : s # peer => inbox'[s] = inbox[s]
  <2> HIDE DEF asked
  <2>1. << >> \in Seq(Mail) /\ inbox \in [Services \cup {"reply"} -> Seq(Mail)]
    BY <1>1 DEF MailOK
  <2> QED  BY <1>4, <1>5, <1>6, <2>1
<1>8. \A i \in Questions(peer)' : i = Len(inbox[peer]) + 1 /\ asked[i] = question
  <2>1. inbox[peer] \in Seq(Mail)
    BY <1>1, <1>4 DEF MailOK
  <2>2. Brings(asked, inbox[peer], question)
    BY <1>3, <2>1, Carried
  <2>3. \A i \in 1..Len(inbox[peer]) : asked[i].type # "question"
    BY <1>1, <1>2, <2>2 DEF Quiet, Questions, Brings
  <2>4. \A i \in DOMAIN asked : asked[i].type = "question" => i = Len(inbox[peer]) + 1
    <3> HIDE DEF asked
    <3> QED  BY <2>2, <2>3, DoneIsMail DEF Brings
  <2>5. Questions(peer)' = {i \in DOMAIN asked : asked[i].type = "question"}
    BY <1>7 DEF Questions, Ask
  <2> QED  BY <2>2, <2>4, <2>5 DEF Brings
<1>9. Waiting'
  <2>1. /\ peer' = peer /\ current' = current /\ hand' = hand /\ hand[peer] = Done
        /\ \A s \in Authorities : hand[s] = Done
    BY <1>1, <1>2 DEF Ask, Goto, KeepRest, authVars, Quiet
  <2>2. \A s \in Authorities : s # peer => Quiet(s)'
    BY <1>2, <1>7, <2>1 DEF Quiet, Questions
  <2> QED  BY <1>3, <1>7, <1>8, <2>1, <2>2 DEF Waiting
<1>10. ReplyOK'
  BY <1>9 DEF ReplyOK, Ask, Goto
<1>11. MailOK'
  BY <1>1, <1>7 DEF MailOK, Ask, Goto, AtWork, KeepRest, authVars
<1>12. LifeTyped
  BY <1>1 DEF Ask, KeepRest, LifeTyped, ServicesTypeOK
<1>13. ServicesTypeOK'
  BY <1>1, <1>10, <1>11, <1>12, TypedAgain DEF Ask, Goto, KeepRest, ServicesTypeOK, authVars
<1>14. ExecutedOnOwnVerdict' /\ ExecutedOnce'
  BY DEF VerdictInv, ExecutedOnOwnVerdict, ExecutedOnce, Ask, Goto, KeepRest, authVars
<1>15. ClearedOK'
  BY <1>1 DEF ClearedOK, Admitted, Ask, Goto, KeepRest, authVars
<1> QED  BY <1>10, <1>11, <1>13, <1>14, <1>15 DEF VerdictInv

LEMMA AskFailsKeeps == ASSUME PortsOnly, VerdictInv, AskFails, Accepting("execution") PROVE VerdictInv'
<1>1. MailOK /\ ReplyOK /\ ServicesTypeOK /\ Alive("execution")
  BY DEF VerdictInv, Alive, Accepting
<1>2. NextContract /\ KeepRest
  BY DEF AskFails
<1>3. CASE UNCHANGED <<inbox, replyBound, faults>>
  <2>1. ReplyOK'
    BY <1>1, <1>2, <1>3, ReplyElsewhere DEF NextContract, KeepRest, Alive, SameExchange, authVars
  <2> QED  BY <1>1, <1>2, <1>3, <2>1, NextKeeps DEF ServicesTypeOK, MailOK
<1>4. CASE CanBind /\ GivesUpOn(peer) /\ inbox' = [inbox EXCEPT !["reply"] = << >>] /\ replyBound' = TRUE
  <2>1. inbox' \in [Services \cup {"reply"} -> Seq(Mail)]
    BY <1>1, <1>4 DEF MailOK
  <2>2. ReplyOK'
    BY <1>2, <1>4 DEF ReplyOK, NextContract
  <2> QED  BY <1>2, <1>4, <2>1, <2>2, GivesUpFaults, NextKeeps
<1> QED  BY <1>3, <1>4 DEF AskFails

\* With the answer everything that was under way has been heard.
LEMMA HearKeeps == ASSUME VerdictInv, Hear, Accepting("execution") PROVE VerdictInv'
<1> DEFINE answer == Head(inbox["reply"])
<1>1. MailOK /\ ReplyOK /\ ServicesTypeOK /\ ClearedOK /\ Alive("execution") /\ peer \in Authorities
  BY DEF VerdictInv, Alive, Accepting, ServicesTypeOK
<1>2. Waiting /\ inbox["reply"] # << >> /\ replyBound /\ pc = "wait"
  BY <1>1 DEF Hear, ReplyOK
<1>3. IsVerdict(answer) /\ \A s \in Authorities : Quiet(s)
  BY <1>1, <1>2 DEF Waiting, Quiet
<1>4. answer \in Mail /\ answer.of \in Contracts \cup {None}
  <2>1. inbox["reply"] \in Seq(Mail)
    BY <1>1 DEF MailOK
  <2>2. answer \in Mail
    BY <1>2, <2>1, Taken
  <2> QED  BY <2>2 DEF Mail, Message
<1>5. inbox' \in [Services \cup {"reply"} -> Seq(Mail)] /\ inbox'["reply"] = << >>
      /\ \A s \in Authorities : inbox'[s] = inbox[s]
  BY <1>1 DEF MailOK, Hear, CloseReply, Authorities
<1>6. ReplyOK'
  <2>1. \A s \in Authorities : Quiet(s)'
    BY <1>3, <1>5 DEF Quiet, Questions, Hear, KeepRest, authVars
  <2> QED  BY <1>5, <2>1 DEF ReplyOK, Hear, CloseReply
<1>7. current \in Contracts /\ current' = current
  BY <1>1, <1>2 DEF MailOK, AtWork, Hear
<1>8. MailOK'
  BY <1>1, <1>5, <1>7 DEF MailOK, Hear, KeepRest, authVars
<1>9. ClearedOK'
  <2> HIDE DEF answer
  <2>1. UNCHANGED <<submitted, accepted, ledger, current>>
    BY DEF Hear, KeepRest, authVars
  <2>2. Admitted(current) => Admitted(current)'
    BY <2>1 DEF Admitted
  <2>3. CASE pc' = "halt"
    BY <2>3 DEF ClearedOK
  <2>4. CASE answer.ok /\ peer = "replay"
    <3>1. Admitted(current)' /\ verdictOf' = current /\ pc' = "ask"
      BY <1>3, <2>1, <2>2, <2>4 DEF IsVerdict, Hear, answer, Passed
    <3> QED  BY <2>1, <3>1 DEF ClearedOK
  <2>5. CASE answer.ok /\ peer = "trust"
    <3>1. Admitted(current) /\ verdictOf = current
      BY <1>1, <1>2, <2>5 DEF ClearedOK
    <3>2. verdictOf' = current /\ pc' = "execute"
      BY <2>5, <3>1 DEF Hear, answer, Passed
    <3> QED  BY <2>1, <2>2, <3>1, <3>2 DEF ClearedOK
  <2> QED  BY <1>1, <2>3, <2>4, <2>5 DEF Hear, answer, Passed, Authorities
<1>10. LifeTyped
  BY <1>1 DEF Hear, KeepRest, LifeTyped, ServicesTypeOK
<1>11. ServicesTypeOK'
  <2>1. verdictOf' \in Contracts \cup {None}
    BY <1>1, <1>4 DEF Hear, ServicesTypeOK
  <2> QED  BY <1>1, <1>6, <1>8, <1>10, <2>1, TypedAgain
           DEF Hear, CloseReply, KeepRest, ServicesTypeOK, Authorities, authVars
<1>12. ExecutedOnOwnVerdict' /\ ExecutedOnce'
  BY DEF VerdictInv, ExecutedOnOwnVerdict, ExecutedOnce, Hear, KeepRest, authVars
<1> QED  BY <1>6, <1>8, <1>9, <1>11, <1>12 DEF VerdictInv

-----------------------------------------------------------------------------
(* The execution, and the other services.                                  *)

LEMMA ExecuteKeeps == ASSUME VerdictInv, Execute, Accepting("execution") PROVE VerdictInv'
<1> DEFINE entry == [of |-> current, verdictOf |-> verdictOf]
<1>1. /\ MailOK /\ ReplyOK /\ ServicesTypeOK /\ ClearedOK /\ Alive("execution")
      /\ ExecutedOnOwnVerdict /\ ExecutedOnce
  BY DEF VerdictInv, Alive, Accepting
<1>2. Admitted(current) /\ verdictOf = current /\ current \in Contracts
  BY <1>1 DEF Execute, ClearedOK, MailOK, AtWork
<1>3. entry \in Entry /\ entry.of = current /\ entry.verdictOf = current
  BY <1>2 DEF Entry
<1>4. ledger \in Seq(Entry) /\ ledger' = Append(ledger, entry)
  BY <1>1 DEF ServicesTypeOK, Execute
<1> HIDE DEF entry
<1>5. /\ ledger' \in Seq(Entry) /\ Len(ledger) \in Nat /\ DOMAIN ledger = 1..Len(ledger)
      /\ DOMAIN ledger' = 1..Len(ledger) + 1 /\ ledger'[Len(ledger) + 1] = entry
      /\ \A i \in 1..Len(ledger) : ledger'[i] = ledger[i]
  BY <1>3, <1>4
<1>6. UNCHANGED <<accepted, submitted, current, inbox, hand, replyBound>>
  BY DEF Execute, Goto, KeepRest, authVars
<1>7. ExecutedOnOwnVerdict' /\ ExecutedOnce'
  <2>1. \A i \in 1..Len(ledger) : Id[ledger'[i].of] # Id[current] /\ Id[ledger'[i].of] \in accepted
    BY <1>1, <1>2, <1>5 DEF Admitted, ExecutedOnce
  <2>2. \A i, j \in 1..Len(ledger) : Id[ledger'[i].of] = Id[ledger'[j].of] => i = j
    BY <1>1, <1>5 DEF ExecutedOnce
  <2>3. \A i \in DOMAIN ledger' : i \in 1..Len(ledger) \/ (i = Len(ledger) + 1 /\ ledger'[i] = entry)
    BY <1>5
  <2>4. Id[entry.of] \in accepted /\ entry.of \in submitted /\ Id[entry.of] = Id[current]
    BY <1>2, <1>3 DEF Admitted
  <2>5. ExecutedOnce'
    BY <1>6, <2>1, <2>2, <2>3, <2>4 DEF ExecutedOnce
  <2>6. ExecutedOnOwnVerdict'
    BY <1>1, <1>3, <1>5, <1>6, <2>3, <2>4 DEF ExecutedOnOwnVerdict
  <2> QED  BY <2>5, <2>6
<1>8. ReplyOK'
  BY <1>1, <1>6, ReplyElsewhere DEF ReplyOK, Execute, Goto, KeepRest, Alive, SameExchange
<1>9. MailOK'
  BY <1>1, <1>2, <1>6 DEF MailOK, Execute
<1>10. ClearedOK'
  BY DEF ClearedOK, Execute, Goto
<1>11. LifeTyped
  BY <1>1 DEF Execute, KeepRest, LifeTyped, ServicesTypeOK
<1>12. ServicesTypeOK'
  BY <1>1, <1>5, <1>8, <1>9, <1>11, TypedAgain DEF Execute, Goto, KeepRest, ServicesTypeOK, authVars
<1> QED  BY <1>7, <1>8, <1>9, <1>10, <1>12 DEF VerdictInv

\* An authority takes the question off its stream, and has its answer in hand or none.  While
\* execution waits for this authority, it was the one question there was.
LEMMA Judged ==
  ASSUME VerdictInv, NEW s \in Authorities, Ready(s, "question"), hand[s] = Done,
         NEW answer \in Mail, answer.of = Head(inbox[s]).of,
         hand' \in {hand, [hand EXCEPT ![s] = answer]},
         inbox' = Consumed(s), UNCHANGED <<life, replyBound, execVars>>,
         accepted \subseteq accepted', submitted \subseteq submitted',
         s = "replay" /\ answer.ok =>
            /\ answer.of \in submitted' /\ Id[answer.of] \in accepted'
            /\ \A i \in DOMAIN ledger : Id[ledger[i].of] # Id[answer.of]
  PROVE  ReplyOK' /\ ClearedOK' /\ MailOK' /\ ExecutedOnOwnVerdict' /\ ExecutedOnce'
<1>1. MailOK /\ ReplyOK /\ ServicesTypeOK /\ ClearedOK /\ ExecutedOnOwnVerdict /\ ExecutedOnce
  BY DEF VerdictInv
<1>2. /\ s \in Services /\ s # "reply" /\ peer \in Authorities /\ "reply" \notin Authorities
      /\ Authorities \subseteq Services
  BY <1>1 DEF Authorities, Services, Needed, ServicesTypeOK
<1>3. inbox[s] # << >> /\ Head(inbox[s]).type = "question" /\ inbox[s] \in Seq(Mail)
  BY <1>1, <1>2 DEF Ready, MailOK
<1>4. /\ Consumed(s) \in [Services \cup {"reply"} -> Seq(Mail)]
      /\ inbox'[s] = Tail(inbox[s])
      /\ \A k \in Services \cup {"reply"} : k # s => inbox'[k] = inbox[k]
  BY <1>1, <1>2, <1>3, ConsumedKeeps
<1>5. \A c : Admitted(c) => Admitted(c)'
  BY DEF Admitted, execVars
<1>6. /\ 1 \in Questions(s) /\ inbox[s][1].of = answer.of
      /\ \A i \in Questions(s)' : i + 1 \in Questions(s) /\ i \in Nat /\ i # 0
  <2>1. /\ Head(inbox[s]) = inbox[s][1] /\ 1 \in DOMAIN inbox[s]
        /\ Tail(inbox[s]) \in Seq(Mail)
        /\ \A i \in DOMAIN Tail(inbox[s]) : /\ i + 1 \in DOMAIN inbox[s]
                                            /\ Tail(inbox[s])[i] = inbox[s][i + 1]
                                            /\ i \in Nat /\ i # 0
    BY <1>3, Taken
  <2> QED  BY <1>3, <1>4, <2>1 DEF Questions
<1>7. /\ hand' \in [Authorities -> Mail] /\ hand'[s] \in {Done, answer}
      /\ \A k \in Authorities : k # s => hand'[k] = hand[k]
  BY <1>1, DoneIsMail DEF MailOK
<1>8. ReplyOK'
  <2> SUFFICES ASSUME Alive("execution")' PROVE ReplyOK'
    BY DEF ReplyOK
  <2>1. Alive("execution") /\ UNCHANGED <<pc, peer, current, ledger, replyBound>>
    BY DEF Alive, execVars
  <2>2. replyBound
    BY <1>1, <1>6, <2>1 DEF ReplyOK, Quiet
  <2>3. CASE pc = "wait"
    <3>1. Waiting /\ peer = s
      BY <1>1, <1>6, <2>1, <2>3 DEF ReplyOK, Waiting, Quiet
    <3>2. answer.of = current /\ inbox["reply"] = << >> /\ \A j \in Questions(s) : j = 1
      BY <1>6, <3>1 DEF Waiting
    <3>3. Questions(s)' = {}
      BY <1>6, <3>2
    <3>4. IsVerdict(answer)'
      BY <2>1, <3>1, <3>2 DEF IsVerdict, Admitted
    <3>5. \A k \in Authorities : k # peer => Quiet(k)'
      <4>1. \A k \in Authorities : k # peer => Questions(k)' = Questions(k)
        BY <1>2, <1>4, <3>1 DEF Questions
      <4> QED  BY <1>7, <3>1, <4>1 DEF Waiting, Quiet
    <3>6. inbox'["reply"] = << >>
      BY <1>2, <1>4, <3>2
    <3>7. Waiting'
      BY <1>7, <2>1, <3>1, <3>3, <3>4, <3>5, <3>6 DEF Waiting
    <3> QED  BY <2>1, <2>2, <2>3, <3>7, <1>1 DEF ReplyOK
  <2>4. CASE pc # "wait"
    BY <1>1, <2>1, <2>2, <2>4 DEF ReplyOK
  <2> QED  BY <2>3, <2>4
<1>9. ClearedOK' /\ ExecutedOnOwnVerdict' /\ ExecutedOnce'
  BY <1>1, <1>5 DEF ClearedOK, ExecutedOnOwnVerdict, ExecutedOnce, execVars
<1>10. MailOK'
  BY <1>1, <1>4, <1>7 DEF MailOK, execVars
<1> QED  BY <1>8, <1>9, <1>10

LEMMA ReplaySubmitKeeps == ASSUME VerdictInv, ReplaySubmit PROVE VerdictInv'
<1> DEFINE c == Head(inbox["replay"]).of
           answer == Msg("answer", c, Acceptable(c))
<1>1. MailOK /\ ServicesTypeOK /\ ExecutedOnce
  BY DEF VerdictInv
<1>2. Ready("replay", "question") /\ hand["replay"] = Done /\ "replay" \in Authorities
  BY DEF ReplaySubmit, Idle, Authorities
<1>3. c \in Contracts
  <2>1. Head(inbox["replay"]) \in Mail /\ Head(inbox["replay"]).type = "question"
    BY <1>1, <1>2, ConsumedKeeps DEF Ready, Services, Needed
  <2> QED  BY <2>1 DEF Mail
<1>4. /\ Judge(c) /\ inbox' = Consumed("replay") /\ hand' \in {hand, [hand EXCEPT !["replay"] = answer]}
      /\ Fault \/ UNCHANGED faults
      /\ UNCHANGED <<setupVars, life, capabilities, shutdown, replyBound, execVars, log>>
  BY DEF ReplaySubmit
<1> HIDE DEF c
<1>5. answer \in Mail /\ answer.of = c /\ (answer.ok <=> Acceptable(c))
  BY <1>3, ContractIsMail DEF Acceptable, Msg
<1> HIDE DEF answer
<1>6. /\ accepted \subseteq accepted' /\ submitted \subseteq submitted'
      /\ accepted' \subseteq Ids /\ submitted' \subseteq Contracts
      /\ answer.ok => /\ c \in submitted' /\ Id[c] \in accepted'
                      /\ \A i \in DOMAIN ledger : Id[ledger[i].of] # Id[c]
  BY <1>1, <1>3, <1>4, <1>5, ServicesAssumption DEF Judge, Acceptable, ServicesTypeOK, ExecutedOnce
<1>7. ReplyOK' /\ ClearedOK' /\ MailOK' /\ ExecutedOnOwnVerdict' /\ ExecutedOnce'
  BY <1>2, <1>4, <1>5, <1>6, Judged DEF c
<1>8. ServicesTypeOK'
  BY <1>1, <1>4, <1>6, <1>7, TypedAgain DEF ServicesTypeOK, LifeTyped, execVars
<1> QED  BY <1>7, <1>8 DEF VerdictInv

LEMMA TrustVerifyKeeps == ASSUME VerdictInv, TrustVerify PROVE VerdictInv'
<1> DEFINE c == Head(inbox["trust"]).of
           answer == Msg("answer", c, c \notin Untrusted)
<1>1. MailOK /\ ServicesTypeOK
  BY DEF VerdictInv
<1>2. Ready("trust", "question") /\ hand["trust"] = Done /\ "trust" \in Authorities
  BY DEF TrustVerify, Idle, Authorities
<1>3. c \in Contracts
  <2>1. Head(inbox["trust"]) \in Mail /\ Head(inbox["trust"]).type = "question"
    BY <1>1, <1>2, ConsumedKeeps DEF Ready, Services, Needed
  <2> QED  BY <2>1 DEF Mail
<1>4. /\ inbox' = Consumed("trust") /\ hand' = [hand EXCEPT !["trust"] = answer]
      /\ UNCHANGED <<setupVars, life, capabilities, shutdown, replyBound, accepted, submitted,
                     execVars, log, faults>>
  BY DEF TrustVerify
<1> HIDE DEF c
<1>5. answer \in Mail /\ answer.of = c
  BY <1>3, ContractIsMail DEF Msg
<1> HIDE DEF answer
<1>6. ReplyOK' /\ ClearedOK' /\ MailOK' /\ ExecutedOnOwnVerdict' /\ ExecutedOnce'
  BY <1>2, <1>4, <1>5, Judged DEF c
<1>7. ServicesTypeOK'
  BY <1>1, <1>4, <1>6, TypedAgain DEF ServicesTypeOK, LifeTyped, execVars
<1> QED  BY <1>6, <1>7 DEF VerdictInv

\* The answer reaches the listener that waits for it, or none.
LEMMA AnswerKeeps == ASSUME VerdictInv, NEW s \in Authorities, Answer(s) PROVE VerdictInv'
<1>1. /\ MailOK /\ ReplyOK /\ ServicesTypeOK /\ ClearedOK /\ ExecutedOnOwnVerdict /\ ExecutedOnce
      /\ peer \in Authorities
  BY DEF VerdictInv, ServicesTypeOK
<1>2. /\ hand' = [hand EXCEPT ![s] = Done] /\ hand[s] # Done /\ hand[s] \in Mail
      /\ UNCHANGED <<setupVars, life, capabilities, shutdown, replyBound, accepted, submitted,
                     execVars, log, faults>>
  BY <1>1 DEF Answer, MailOK
<1>3. /\ hand' \in [Authorities -> Mail] /\ hand'[s] = Done
      /\ \A k \in Authorities : k # s => hand'[k] = hand[k]
  BY <1>1, <1>2, DoneIsMail DEF MailOK
<1>4. /\ inbox' \in [Services \cup {"reply"} -> Seq(Mail)]
      /\ \A k \in Authorities : inbox'[k] = inbox[k]
      /\ replyBound => Brings(inbox'["reply"], inbox["reply"], hand[s])
      /\ ~ replyBound => inbox'["reply"] = inbox["reply"]
  <2> DEFINE heard == inbox["reply"] \o Connection(<<hand[s]>>)
  <2>1. Brings(heard, inbox["reply"], hand[s])
    BY <1>1, <1>2, Carried DEF MailOK
  <2>2. inbox' = IF replyBound THEN [inbox EXCEPT !["reply"] = heard] ELSE inbox
    BY DEF Answer
  <2> HIDE DEF heard
  <2>3. heard \in Seq(Mail) /\ inbox \in [Services \cup {"reply"} -> Seq(Mail)]
    BY <1>1, <2>1 DEF Brings, MailOK
  <2>4. CASE replyBound
    BY <2>1, <2>2, <2>3, <2>4 DEF Authorities
  <2>5. CASE ~ replyBound
    BY <2>2, <2>3, <2>5
  <2> QED  BY <2>4, <2>5
<1>5. \A k \in Authorities : Questions(k)' = Questions(k) /\ (Quiet(k) => Quiet(k)')
  BY <1>3, <1>4 DEF Questions, Quiet
<1>6. ReplyOK'
  <2> SUFFICES ASSUME Alive("execution")' PROVE ReplyOK'
    BY DEF ReplyOK
  <2>1. Alive("execution") /\ UNCHANGED <<pc, peer, current, ledger, replyBound>>
    BY <1>2 DEF Alive, execVars
  <2>2. replyBound
    BY <1>1, <1>2, <2>1 DEF ReplyOK, Quiet
  <2>3. CASE pc = "wait"
    <3>1. Waiting /\ peer = s
      BY <1>1, <1>2, <2>1, <2>3 DEF ReplyOK, Waiting, Quiet
    <3>2. inbox["reply"] = << >> /\ IsVerdict(hand[s]) /\ Questions(s) = {}
      BY <1>2, <3>1 DEF Waiting
    <3>3. Head(inbox'["reply"]) = hand[s]
      <4>1. Len(inbox["reply"]) = 0
        BY <3>2
      <4> QED  BY <1>4, <2>2, <4>1 DEF Brings
    <3>4. IsVerdict(Head(inbox["reply"]))'
      BY <1>2, <2>1, <3>1, <3>2, <3>3 DEF IsVerdict, Admitted
    <3>5. Waiting'
      BY <1>3, <1>5, <2>1, <3>1, <3>2, <3>4 DEF Waiting
    <3> QED  BY <1>1, <2>1, <2>2, <2>3, <3>5 DEF ReplyOK
  <2>4. CASE pc # "wait"
    BY <1>1, <2>1, <2>2, <2>4 DEF ReplyOK
  <2> QED  BY <2>3, <2>4
<1>7. ClearedOK' /\ ExecutedOnOwnVerdict' /\ ExecutedOnce'
  BY <1>1, <1>2 DEF ClearedOK, Admitted, ExecutedOnOwnVerdict, ExecutedOnce, execVars
<1>8. MailOK'
  BY <1>1, <1>2, <1>3, <1>4 DEF MailOK, execVars
<1>9. ServicesTypeOK'
  BY <1>1, <1>2, <1>6, <1>8, TypedAgain DEF ServicesTypeOK, LifeTyped, execVars
<1> QED  BY <1>6, <1>7, <1>8, <1>9 DEF VerdictInv

LEMMA DecideKeeps == ASSUME VerdictInv, Decide PROVE VerdictInv'
<1>1. MailOK /\ ReplyOK /\ ServicesTypeOK
  BY DEF VerdictInv
<1>2. /\ inbox' = Consumed("consensus") /\ "consensus" \in Services /\ inbox["consensus"] # << >>
      /\ Head(inbox["consensus"]).type = "EXECUTION_RESULT"
      /\ UNCHANGED <<setupVars, life, capabilities, shutdown, replyBound, authVars, execVars, faults>>
  BY DEF Decide, Ready, Services, Needed
<1>3. inbox' \in [Services \cup {"reply"} -> Seq(Mail)] /\ SameExchange
  BY <1>1, <1>2, ConsumedKeeps DEF SameExchange, Authorities, Services, Needed
<1>4. log' \in Seq(Outcome)
  <2>1. Head(inbox["consensus"]) \in Mail
    BY <1>1, <1>2, ConsumedKeeps
  <2>2. [of |-> Head(inbox["consensus"]).of, reached |-> Head(inbox["consensus"]).ok] \in Outcome
    BY <1>2, <2>1 DEF Mail, Message, Outcome
  <2>3. log \in Seq(Outcome)
    BY <1>1 DEF ServicesTypeOK
  <2> QED  BY <2>2, <2>3 DEF Decide
<1>5. ReplyOK'
  BY <1>1, <1>2, <1>3, ReplyUntouched DEF ServicesTypeOK, Alive, authVars, execVars
<1>6. MailOK'
  BY <1>1, <1>2, <1>3 DEF MailOK, authVars, execVars
<1>7. ServicesTypeOK'
  BY <1>1, <1>2, <1>4, <1>5, <1>6, TypedAgain DEF ServicesTypeOK, LifeTyped, authVars, execVars
<1>8. ClearedOK' /\ ExecutedOnOwnVerdict' /\ ExecutedOnce'
  BY <1>2 DEF VerdictInv, ClearedOK, Admitted, ExecutedOnOwnVerdict, ExecutedOnce, authVars, execVars
<1> QED  BY <1>5, <1>6, <1>7, <1>8 DEF VerdictInv

-----------------------------------------------------------------------------
(* The theorems about the services.                                        *)

LEMMA ServiceStepKeeps == ASSUME VerdictInv, NEW s \in Services, ServiceStep(s) PROVE VerdictInv'
<1>1. s \in Processes
  BY DEF Processes
<1>2. CASE BreakOnDone(s) \/ BreakOnSignal(s)
  BY <1>1, <1>2, ExitKeeps DEF BreakOnDone, BreakOnSignal
<1> QED  BY <1>2, RegisterKeeps, ListenKeeps DEF ServiceStep

LEMMA ExecutionStepKeeps == ASSUME PortsOnly, VerdictInv, ExecutionStep PROVE VerdictInv'
<1>1. CASE GiveUpDiscovery
  BY <1>1, ExitKeeps DEF GiveUpDiscovery, LookupsFail, Processes, Services
<1>2. CASE Accepting("execution") /\ ContractStep
  BY <1>2, TakeKeeps, PropagateDoneKeeps, AskKeeps, AskFailsKeeps, HearKeeps, WaitTimesOutKeeps,
     ExecuteKeeps, ForwardKeeps DEF ContractStep
<1> QED  BY <1>1, <1>2 DEF ExecutionStep

LEMMA RunningKeeps == ASSUME PortsOnly, VerdictInv, Running PROVE VerdictInv'
  BY ServiceStepKeeps, ExecutionStepKeeps, ProducerSendsKeeps, ProducerFailsKeeps,
     ReplaySubmitKeeps, TrustVerifyKeeps, AnswerKeeps, DecideKeeps
     DEF Running, ProducerStep, AuthorityWork

LEMMA StutterKeeps == ASSUME VerdictInv, UNCHANGED servicesVars PROVE VerdictInv'
  BY StillStep DEF servicesVars, VerdictInv, ServicesTypeOK, Alive

LEMMA ServicesNextKeeps == ASSUME PortsOnly PROVE VerdictInv /\ [ServicesNext]_servicesVars => VerdictInv'
  BY RunningKeeps, SignalKeeps, StutterKeeps DEF ServicesNext

LEMMA ServicesInitOK == ServicesInit => VerdictInv
<1> SUFFICES ASSUME ServicesInit PROVE VerdictInv
  OBVIOUS
<1>1. ServicesTypeOK
  <2>1. life \in [Processes -> {"launched", "registered", "listening", "stopped", "killed", "crashed"}]
    BY DEF ServicesInit
  <2>2. << >> \in Seq(Message) /\ << >> \in Seq(Entry) /\ << >> \in Seq(Outcome) /\ Done \in Message
    BY DoneIsMail DEF Mail
  <2>3. inbox \in [Services \cup {"reply"} -> Seq(Message)] /\ hand \in [Authorities -> Message]
    BY <2>2 DEF ServicesInit
  <2>4. faults \in 0..MaxFaults /\ peer \in Authorities
    BY ServicesAssumption DEF ServicesInit, Authorities
  <2> QED  BY <2>1, <2>2, <2>3, <2>4 DEF ServicesInit, ServicesTypeOK, Accepting
<1>2. MailOK
  BY DoneIsMail DEF ServicesInit, MailOK, AtWork
<1>3. ReplyOK
  BY DEF ServicesInit, ReplyOK, Quiet, Questions, Authorities, Services, Needed
<1>4. ClearedOK /\ ExecutedOnOwnVerdict /\ ExecutedOnce
  BY DEF ServicesInit, ClearedOK, ExecutedOnOwnVerdict, ExecutedOnce
<1> QED  BY <1>1, <1>2, <1>3, <1>4 DEF VerdictInv

LEMMA VerdictInvariant == ASSUME PortsOnly PROVE ServicesSpec => []VerdictInv
  BY ServicesInitOK, ServicesNextKeeps, PTL DEF ServicesSpec

\* Where an address cannot be bound twice, the services keep to their types, and execution
\* waits for an answer only where it can hear one.
THEOREM ServicesTypeCorrect == ASSUME PortsOnly PROVE ServicesSpec => []ServicesTypeOK
<1>1. VerdictInv => ServicesTypeOK
  BY DEF VerdictInv
<1> QED  BY <1>1, VerdictInvariant, PTL

\* Where an address cannot be bound twice, whatever is late, lost or stopped, a contract is
\* executed on the verdict the replay authority gave on it, and not on an earlier one's.
THEOREM ExecutedOnItsVerdict == ASSUME PortsOnly PROVE ServicesSpec => []ExecutedOnOwnVerdict
<1>1. VerdictInv => ExecutedOnOwnVerdict
  BY DEF VerdictInv
<1> QED  BY <1>1, VerdictInvariant, PTL

\* Where an address cannot be bound twice, no trace id is executed twice, or unaccepted.
THEOREM ExecutesOnce == ASSUME PortsOnly PROVE ServicesSpec => []ExecutedOnce
<1>1. VerdictInv => ExecutedOnce
  BY DEF VerdictInv
<1> QED  BY <1>1, VerdictInvariant, PTL

-----------------------------------------------------------------------------
(* The order of the outcomes.                                              *)

LEMMA BeforeIsOrder ==
  ASSUME SentOnce, ServicesTypeOK
  PROVE  /\ \A c : ~ Before(c, c)
         /\ \A c, d : Before(c, d) => ~ Before(d, c)
         /\ \A c, d, e : Before(c, d) /\ Before(d, e) => Before(c, e)
<1>1. Distinct(script) /\ DOMAIN script \subseteq Nat
  BY ServicesAssumption DEF SentOnce, ServicesTypeOK
<1>2. \A c, d : Before(c, d) => ~ Before(d, c)
  BY <1>1 DEF Before, Distinct
<1>3. ASSUME NEW c, NEW d, NEW e, Before(c, d), Before(d, e) PROVE Before(c, e)
  <2>1. PICK i \in DOMAIN script, j \in DOMAIN script : script[i] = c /\ script[j] = d /\ i < j
    BY <1>3 DEF Before
  <2>2. PICK k \in DOMAIN script, l \in DOMAIN script : script[k] = d /\ script[l] = e /\ k < l
    BY <1>3 DEF Before
  <2>3. j = k /\ i \in Nat /\ j \in Nat /\ l \in Nat
    BY <1>1, <2>1, <2>2 DEF Distinct
  <2> QED  BY <2>1, <2>2, <2>3 DEF Before
<1> QED  BY <1>2, <1>3

LEMMA SameOrder ==
  ASSUME UNCHANGED <<script, ledger>>
  PROVE  (\A c, d : Before(c, d)' = Before(c, d)) /\ \A c : Executed(c)' = Executed(c)
  BY DEF Before, Executed

Behind == {"consensus", "execution"}

\* Messages and outcomes may get lost, and the contract in hand given up.
LEMMA FewerKeeps ==
  ASSUME OrderInv, UNCHANGED <<script, ledger>>,
         \A l \in Behind : inbox'[l] \in {inbox[l], << >>}, log' \in {log, << >>},
         pc' \in AtWork => pc \in AtWork /\ current' = current /\ (pc' = "forward" <=> pc = "forward"),
         pc' \in AtWork \cup {"get", "end"},
         life'["producer"] = "launched" => life["producer"] = "launched"
  PROVE  OrderInv'
<1>1. (\A c, d : Before(c, d)' = Before(c, d)) /\ \A c : Executed(c)' = Executed(c)
  BY SameOrder
<1>2. \A c : Reported(c)' => Reported(c)
  BY DEF Reported, Behind
<1>3. ReportsOK'
  BY <1>1 DEF OrderInv, ReportsOK, Behind
<1>4. InHandOK'
  BY <1>1, <1>2 DEF OrderInv, InHandOK
<1>5. ToComeOK'
  BY <1>1, <1>2 DEF OrderInv, ToComeOK, Behind
<1>6. NothingYet'
  BY <1>1, <1>2 DEF OrderInv, NothingYet, Behind, AtWork
<1>7. (\A i, j \in DOMAIN ledger : i < j => Before(ledger[i].of, ledger[j].of))'
  BY <1>1 DEF OrderInv
<1>8. SentInv'
  BY <1>1, <1>2 DEF OrderInv, SentInv, OfScript
<1> QED  BY <1>3, <1>4, <1>5, <1>6, <1>7, <1>8 DEF OrderInv

\* The steps that leave the contracts, in hand and on their way, where they are.
LEMMA QuietStepsKeep ==
  ASSUME OrderInv, VerdictInv,
         \/ \E s \in Services : ServiceStep(s) \/ Signal(s)
         \/ GiveUpDiscovery \/ ProducerFails \/ AuthorityWork \/ UNCHANGED servicesVars
  PROVE  OrderInv'
<1>1. ServicesTypeOK /\ MailOK
  BY DEF VerdictInv
<1>2. /\ pc \in AtWork \cup {"get", "end"}
      /\ inbox \in [Services \cup {"reply"} -> Seq(Mail)]
      /\ Behind \subseteq Services /\ "reply" \notin Behind /\ Authorities \cap Behind = {}
  BY <1>1 DEF ServicesTypeOK, MailOK, AtWork, Behind, Services, Needed, Authorities
<1>3. ASSUME NEW p, NEW how \in {"stopped", "killed"}, Exit(p, how), UNCHANGED <<setupVars, execVars, log>>
      PROVE  OrderInv'
  <2>1. \A l \in Behind : inbox'[l] \in {inbox[l], << >>}
    BY <1>2, <1>3 DEF Exit
  <2>2. life'["producer"] = "launched" => life["producer"] = "launched"
    BY <1>1, <1>3 DEF Exit, ServicesTypeOK, Processes
  <2> QED  BY <1>2, <1>3, <2>1, <2>2, FewerKeeps DEF setupVars, execVars
<1>4. ASSUME NEW s \in Services, Register(s) \/ Listen(s) \/ Signal(s) \/ ProducerFails \/ UNCHANGED servicesVars
      PROVE  OrderInv'
  <2>1. life'["producer"] = "launched" => life["producer"] = "launched"
    BY <1>1, <1>4 DEF Register, Listen, Signal, ProducerFails, ServicesTypeOK, Processes, servicesVars
  <2>2. UNCHANGED <<setupVars, execVars, inbox>> /\ log' \in {log, << >>}
    BY <1>4 DEF Register, Listen, Signal, ProducerFails, servicesVars
  <2> QED  BY <1>2, <2>1, <2>2, FewerKeeps DEF setupVars, execVars
<1>5. ASSUME AuthorityWork PROVE OrderInv'
  <2>1. \A l \in Behind : inbox'[l] = inbox[l]
    BY <1>2, <1>5 DEF AuthorityWork, ReplaySubmit, TrustVerify, Answer, Consumed, Authorities
  <2>2. UNCHANGED <<setupVars, execVars, life, log>>
    BY <1>5 DEF AuthorityWork, ReplaySubmit, TrustVerify, Answer
  <2> QED  BY <1>2, <2>1, <2>2, FewerKeeps DEF setupVars, execVars
<1>6. "execution" \in Services
  BY DEF Services
<1> QED  BY <1>3, <1>4, <1>5, <1>6 DEF ServiceStep, BreakOnDone, BreakOnSignal, GiveUpDiscovery

LEMMA Recorded ==
  ASSUME ServicesTypeOK
  PROVE  \A i \in DOMAIN ledger : ledger[i].of \in Contracts /\ Executed(ledger[i].of)
<1>1. \A i \in DOMAIN ledger : ledger[i] \in Entry
  BY DEF ServicesTypeOK
<1>2. \A i \in DOMAIN ledger : ledger[i].of \in Contracts
  BY <1>1 DEF Entry
<1> QED  BY <1>2 DEF Executed

LEMMA ToldOf ==
  ASSUME ServicesTypeOK, MailOK
  PROVE  /\ \A m \in DOMAIN log : log[m].of \in Contracts /\ Reported(log[m].of)
         /\ \A i \in DOMAIN inbox["consensus"] : inbox["consensus"][i].type = "EXECUTION_RESULT" =>
               inbox["consensus"][i].of \in Contracts /\ Reported(inbox["consensus"][i].of)
<1> DEFINE queue == inbox["consensus"]
<1>1. queue \in Seq(Mail) /\ log \in Seq(Outcome)
  BY DEF MailOK, ServicesTypeOK, Services, Needed
<1>2. (\A i \in DOMAIN queue : queue[i] \in Mail) /\ \A m \in DOMAIN log : log[m] \in Outcome
  <2> HIDE DEF queue
  <2> QED  BY <1>1
<1>3. (\A i \in DOMAIN queue : queue[i].type = "EXECUTION_RESULT" => queue[i].of \in Contracts)
      /\ \A m \in DOMAIN log : log[m].of \in Contracts
  BY <1>2 DEF Mail, Outcome
<1> QED  BY <1>3 DEF Reported

LEMMA ExchangeKeepsOrder ==
  ASSUME OrderInv, VerdictInv, Ask \/ AskFails \/ Hear \/ WaitTimesOut
  PROVE  OrderInv'
<1>1. /\ inbox \in [Services \cup {"reply"} -> Seq(Mail)] /\ peer \in Authorities
      /\ "reply" \notin Behind /\ Behind \subseteq Services /\ Authorities \cap Behind = {}
  BY DEF VerdictInv, MailOK, ServicesTypeOK, Behind, Services, Needed, Authorities
<1>2. \A l \in Behind : inbox'[l] = inbox[l]
  BY <1>1 DEF Ask, AskFails, Hear, CloseReply, WaitTimesOut
<1>3. UNCHANGED <<script, ledger, log, life>>
  BY DEF Ask, AskFails, Hear, WaitTimesOut, NextContract, KeepRest, Goto, setupVars
<1>4. /\ pc' \in AtWork => pc \in AtWork /\ current' = current /\ (pc' = "forward" <=> pc = "forward")
      /\ pc' \in AtWork \cup {"get", "end"}
  BY DEF Ask, AskFails, Hear, WaitTimesOut, NextContract, Goto, AtWork
<1> QED  BY <1>2, <1>3, <1>4, FewerKeeps

LEMMA TakeKeepsOrder ==
  ASSUME SentOnce, OrderInv, VerdictInv, Take, Accepting("execution") PROVE OrderInv'
<1> DEFINE queue == inbox["execution"]
<1>1. /\ MailOK /\ ServicesTypeOK /\ queue \in Seq(Mail) /\ queue # << >>
      /\ Head(queue).type = "CONTRACT" /\ "execution" \in Services
  BY DEF VerdictInv, MailOK, Take, Ready, Services
<1>2. /\ Head(queue) = queue[1] /\ 1 \in DOMAIN queue /\ queue[1] \in Mail
      /\ \A i \in DOMAIN Tail(queue) : /\ i + 1 \in DOMAIN queue /\ Tail(queue)[i] = queue[i + 1]
                                        /\ i \in Nat /\ i # 0
  BY <1>1, Taken
<1>3. /\ inbox'["execution"] = Tail(queue) /\ inbox'["consensus"] = inbox["consensus"]
      /\ current' = queue[1].of /\ queue[1].type = "CONTRACT" /\ current' \in Contracts
      /\ UNCHANGED <<script, ledger, log, life>> /\ pc' = "ask"
  BY <1>1, <1>2, ConsumedKeeps DEF Take, KeepRest, Services, Needed, setupVars, Mail
<1> HIDE DEF queue
<1>4. (\A c, d : Before(c, d)' = Before(c, d)) /\ \A c : Executed(c)' = Executed(c)
  BY <1>3, SameOrder
<1>5. \A c : Reported(c)' = Reported(c)
  BY <1>3 DEF Reported
<1>6. ReportsOK'
  BY <1>3, <1>4 DEF OrderInv, ReportsOK
<1>7. /\ \E k \in DOMAIN script : script[k] = current'
      /\ \A c \in Contracts : Reported(c) \/ Executed(c) => Before(c, current')
      /\ \A j \in DOMAIN queue : queue[j].type = "CONTRACT" /\ 1 < j => Before(current', queue[j].of)
  BY <1>2, <1>3 DEF OrderInv, ToComeOK, queue
<1>8. ~ Executed(current')
  BY <1>1, <1>3, <1>7, BeforeIsOrder
<1>9. InHandOK'
  <2>1. \A i \in DOMAIN ledger : ledger[i].of \in Contracts /\ Executed(ledger[i].of)
    BY <1>1, Recorded
  <2> QED  BY <1>3, <1>4, <1>5, <1>7, <1>8, <2>1 DEF InHandOK
<1>10. ToComeOK'
  <2>1. \A i \in DOMAIN queue : queue[i].type = "CONTRACT" =>
          /\ \E k \in DOMAIN script : script[k] = queue[i].of
          /\ \A j \in DOMAIN queue :
                queue[j].type = "CONTRACT" /\ i < j => Before(queue[i].of, queue[j].of)
          /\ \A c \in Contracts : Reported(c) \/ Executed(c) => Before(c, queue[i].of)
    BY DEF OrderInv, ToComeOK, queue
  <2>2. \A i \in DOMAIN Tail(queue) : /\ i + 1 \in DOMAIN queue /\ Tail(queue)[i] = queue[i + 1]
                                      /\ 1 < i + 1 /\ \A j \in DOMAIN Tail(queue) : i < j => i + 1 < j + 1
    BY <1>2
  <2> QED  BY <1>3, <1>4, <1>5, <1>7, <2>1, <2>2 DEF ToComeOK
<1>11. NothingYet'
  BY <1>1, <1>3 DEF OrderInv, NothingYet, queue
<1>12. (\A i, j \in DOMAIN ledger : i < j => Before(ledger[i].of, ledger[j].of))'
  BY <1>3, <1>4 DEF OrderInv
<1>13. SentInv'
  BY <1>3, <1>4, <1>5 DEF OrderInv, SentInv, OfScript
<1> QED  BY <1>6, <1>9, <1>10, <1>11, <1>12, <1>13 DEF OrderInv

LEMMA ExecuteKeepsOrder ==
  ASSUME SentOnce, OrderInv, VerdictInv, Execute, Accepting("execution") PROVE OrderInv'
<1> DEFINE entry == [of |-> current, verdictOf |-> verdictOf]
<1>1. ServicesTypeOK /\ MailOK /\ current \in Contracts /\ verdictOf \in Contracts
  BY DEF VerdictInv, MailOK, ClearedOK, Execute, AtWork
<1>2. entry \in Entry /\ entry.of = current
  BY <1>1 DEF Entry
<1>3. /\ ledger \in Seq(Entry) /\ ledger' = Append(ledger, entry) /\ pc = "execute" /\ pc' = "forward"
      /\ UNCHANGED <<script, log, life, inbox, current>>
  BY <1>1 DEF ServicesTypeOK, Execute, Goto, KeepRest, setupVars
<1> HIDE DEF entry
<1>4. /\ Len(ledger) \in Nat /\ DOMAIN ledger = 1..Len(ledger)
      /\ DOMAIN ledger' = 1..Len(ledger) + 1 /\ ledger'[Len(ledger) + 1] = entry
      /\ \A i \in 1..Len(ledger) : ledger'[i] = ledger[i]
  BY <1>2, <1>3
<1>5. \A c, d : Before(c, d)' = Before(c, d)
  BY <1>3 DEF Before
<1>6. \A c : Executed(c)' <=> (Executed(c) \/ c = current)
  BY <1>2, <1>4 DEF Executed
<1>7. /\ \A c : Reported(c)' = Reported(c)
      /\ \A c \in Contracts : Reported(c) => c # current
  BY <1>1, <1>3, BeforeIsOrder DEF OrderInv, InHandOK, AtWork, Reported
<1>8. /\ \A m \in DOMAIN log : log[m].of \in Contracts /\ Reported(log[m].of)
      /\ \A i \in DOMAIN inbox["consensus"] : inbox["consensus"][i].type = "EXECUTION_RESULT" =>
            inbox["consensus"][i].of \in Contracts /\ Reported(inbox["consensus"][i].of)
  BY <1>1, ToldOf
<1>9. ReportsOK'
  BY <1>3, <1>5, <1>6, <1>7, <1>8 DEF OrderInv, ReportsOK
<1>10. /\ \E i \in DOMAIN script : script[i] = current
       /\ \A c \in Contracts : Reported(c) => Before(c, current)
       /\ \A i \in DOMAIN ledger : Before(ledger[i].of, current) \/ ledger[i].of = current
       /\ ~ Executed(current)
  BY <1>3 DEF OrderInv, InHandOK, AtWork
<1>11. \A i \in DOMAIN ledger : Before(ledger[i].of, current)
  BY <1>10 DEF Executed
<1>12. \A i \in DOMAIN ledger' : i \in DOMAIN ledger \/ (i = Len(ledger) + 1 /\ ledger'[i].of = current)
  BY <1>2, <1>4
<1>13. InHandOK'
  BY <1>2, <1>3, <1>4, <1>5, <1>6, <1>7, <1>10, <1>11, <1>12 DEF InHandOK
<1>14. ToComeOK'
  BY <1>1, <1>3, <1>5, <1>6, <1>7 DEF OrderInv, ToComeOK, AtWork
<1>15. NothingYet'
  BY <1>3 DEF OrderInv, NothingYet
<1>16. (\A i, j \in DOMAIN ledger : i < j => Before(ledger[i].of, ledger[j].of))'
  BY <1>4, <1>5, <1>11, <1>12 DEF OrderInv
<1>17. SentInv'
  BY <1>3, <1>6, <1>7, <1>10 DEF OrderInv, SentInv, OfScript
<1> QED  BY <1>9, <1>13, <1>14, <1>15, <1>16, <1>17 DEF OrderInv

\* The producer's contracts arrive in the order of the script.
LEMMA ScriptArrives ==
  ASSUME VerdictInv, ProducerSends, inbox["execution"] = << >>
  PROVE  LET queue == inbox'["execution"] IN
         \A i \in DOMAIN queue : queue[i].type = "CONTRACT" => i \in DOMAIN script /\ queue[i].of = script[i]
<1> DEFINE contracts == [i \in DOMAIN script |-> Msg("CONTRACT", script[i], TRUE)]
           sent      == Connection(Append(contracts, Done))
           queue     == inbox'["execution"]
<1>1. script \in Seq(Contracts)
  BY ServicesAssumption DEF VerdictInv, ServicesTypeOK
<1>2. DOMAIN script = 1..Len(script) /\ Len(script) \in Nat /\ \A i \in 1..Len(script) : script[i] \in Contracts
  BY <1>1
<1>3. contracts \in [1..Len(script) -> Mail]
  BY <1>2, ContractIsMail
<1>4. \A i \in 1..Len(script) : contracts[i].of = script[i]
  BY <1>2 DEF Msg
<1>5. contracts \in Seq(Mail) /\ Len(contracts) = Len(script)
  <2>1. \A n \in Nat : \A f \in [1..n -> Mail] : f \in Seq(Mail) /\ Len(f) = n
    OBVIOUS
  <2> HIDE DEF contracts
  <2> QED  BY <1>2, <1>3, <2>1
<1>6. queue = << >> \o sent
  <2>1. inbox' = [inbox EXCEPT !["execution"] = @ \o sent] /\ "execution" \in DOMAIN inbox
    BY DEF VerdictInv, MailOK, ProducerSends, Services
  <2> HIDE DEF sent
  <2> QED  BY <2>1
<1> HIDE DEF contracts, queue
<1>7. /\ Append(contracts, Done) \in Seq(Mail) /\ Len(Append(contracts, Done)) = Len(script) + 1
      /\ \A i \in 1..Len(script) : Append(contracts, Done)[i] = contracts[i]
      /\ Append(contracts, Done)[Len(script) + 1] = Done
  BY <1>2, <1>5, DoneIsMail, AppendProperties
<1>8. /\ sent \in Seq(Mail) /\ \A i \in DOMAIN sent : i \notin 1..Len(script) => sent[i] = Done
      /\ \A i \in 1..Len(script) : sent[i] = contracts[i]
  <2> DEFINE said == Append(contracts, Done)
  <2>1. said \in Seq(Mail) /\ Len(said) = Len(script) + 1 /\ said[Len(script) + 1] = Done
        /\ \A i \in 1..Len(script) : said[i] = contracts[i]
    BY <1>7
  <2>2. sent = said \/ sent = Append(said, Done)
    BY DEF Connection
  <2> HIDE DEF said, sent
  <2>3. CASE sent = said
    BY <1>2, <2>1, <2>3
  <2>4. CASE sent = Append(said, Done)
    BY <1>2, <2>1, <2>4, DoneIsMail, AppendProperties
  <2> QED  BY <2>2, <2>3, <2>4
<1> HIDE DEF sent
<1>9. queue = sent
  BY <1>6, <1>8, ConcatEmptySeq
<1>10. \A i \in DOMAIN queue : queue[i].type = "CONTRACT" => i \in DOMAIN script /\ queue[i].of = script[i]
  BY <1>2, <1>4, <1>8, <1>9, DoneIsMail
<1> QED  BY <1>10 DEF queue

LEMMA ProducerSendsKeepsOrder ==
  ASSUME SentOnce, OrderInv, VerdictInv, ProducerSends PROVE OrderInv'
<1> DEFINE queue == inbox'["execution"]
<1>1. ServicesTypeOK /\ MailOK
  BY DEF VerdictInv
<1>2. /\ inbox["execution"] = << >> /\ pc \in {"get", "end"}
      /\ \A c \in Contracts : ~ Reported(c) /\ ~ Executed(c)
  BY DEF OrderInv, NothingYet, ProducerSends
<1>3. /\ UNCHANGED <<script, ledger, log, pc, current>> /\ life'["producer"] = "stopped"
      /\ inbox'["consensus"] = inbox["consensus"]
  BY <1>1 DEF ProducerSends, setupVars, execVars, ServicesTypeOK, MailOK, Processes, Services, Needed
<1>4. (\A c, d : Before(c, d)' = Before(c, d)) /\ \A c : Executed(c)' = Executed(c)
  BY <1>3, SameOrder
<1>5. \A c : Reported(c)' = Reported(c)
  BY <1>3 DEF Reported
<1>6. queue \in Seq(Mail) /\ DOMAIN script \subseteq Nat
  <2>1. inbox["execution"] \in Seq(Mail) /\ script \in Seq(Contracts)
    BY <1>1, ServicesAssumption DEF ServicesTypeOK, MailOK, Services
  <2> QED  BY <2>1, ScriptSent
<1>7. \A i \in DOMAIN queue : queue[i].type = "CONTRACT" => i \in DOMAIN script /\ queue[i].of = script[i]
  BY <1>2, ScriptArrives
<1> HIDE DEF queue
<1>8. \A i, j \in DOMAIN queue : queue[i].type = "CONTRACT" /\ queue[j].type = "CONTRACT" /\ i < j =>
         Before(queue[i].of, queue[j].of)
  BY <1>7 DEF Before
<1>9. \A i \in DOMAIN queue : queue[i].type = "CONTRACT" => \E k \in DOMAIN script : script[k] = queue[i].of
  BY <1>7
<1>10. ToComeOK'
  BY <1>2, <1>3, <1>4, <1>5, <1>8, <1>9 DEF ToComeOK, AtWork, queue
<1>11. ReportsOK' /\ InHandOK' /\ NothingYet'
  BY <1>2, <1>3, <1>4, <1>5 DEF OrderInv, ReportsOK, InHandOK, NothingYet, AtWork
<1>12. (\A i, j \in DOMAIN ledger : i < j => Before(ledger[i].of, ledger[j].of))'
  BY <1>3, <1>4 DEF OrderInv
<1>13. SentInv'
  BY <1>3, <1>4, <1>5 DEF OrderInv, SentInv, OfScript
<1> QED  BY <1>10, <1>11, <1>12, <1>13 DEF OrderInv

LEMMA PropagateDoneKeepsOrder ==
  ASSUME OrderInv, VerdictInv, PropagateDone PROVE OrderInv'
<1> DEFINE queue == inbox["execution"]
           told  == inbox["consensus"]
<1>1. /\ MailOK /\ ServicesTypeOK /\ queue \in Seq(Mail) /\ queue # << >> /\ told \in Seq(Mail)
      /\ "execution" \in Services
  BY DEF VerdictInv, MailOK, PropagateDone, Ready, Services, Needed
<1>2. \A i \in DOMAIN Tail(queue) : /\ i + 1 \in DOMAIN queue /\ Tail(queue)[i] = queue[i + 1]
                                    /\ \A j \in DOMAIN Tail(queue) : i < j => i + 1 < j + 1
  BY <1>1, Taken
<1>3. Consumed("execution")["execution"] = Tail(queue) /\ Consumed("execution")["consensus"] = told
      /\ Consumed("execution") \in [Services \cup {"reply"} -> Seq(Mail)]
  BY <1>1, ConsumedKeeps DEF Services, Needed
<1>4. /\ inbox'["execution"] = Tail(queue)
      /\ inbox'["consensus"] = told \/ Brings(inbox'["consensus"], told, Done)
  <2> DEFINE box == Consumed("execution")
             end == told \o Connection(<<Done>>)
  <2>1. Brings(end, told, Done)
    BY <1>1, DoneIsMail, Carried
  <2>2. inbox' = box \/ inbox' = [box EXCEPT !["consensus"] = end]
    BY <1>3 DEF PropagateDone
  <2> HIDE DEF box, end
  <2>3. DOMAIN box = Services \cup {"reply"}
    BY <1>3 DEF box
  <2> QED  BY <1>3, <2>1, <2>2, <2>3 DEF box, Services, Needed
<1> HIDE DEF queue, told
<1>5. \A i \in DOMAIN inbox'["consensus"] : inbox'["consensus"][i].type = "EXECUTION_RESULT" =>
         i \in DOMAIN told /\ inbox'["consensus"][i] = told[i]
  BY <1>4, DoneIsMail DEF Brings
<1>6. UNCHANGED <<script, ledger, log, life, current>> /\ pc' = "end"
  BY DEF PropagateDone, Goto, KeepRest, setupVars
<1>7. (\A c, d : Before(c, d)' = Before(c, d)) /\ \A c : Executed(c)' = Executed(c)
  BY <1>6, SameOrder
<1>8. \A c : Reported(c)' => Reported(c)
  BY <1>5, <1>6 DEF Reported, told
<1>9. ReportsOK'
  BY <1>5, <1>6, <1>7 DEF OrderInv, ReportsOK, told
<1>10. InHandOK'
  BY <1>6 DEF InHandOK, AtWork
<1>11. ToComeOK'
  <2>1. \A i \in DOMAIN queue : queue[i].type = "CONTRACT" =>
          /\ \E k \in DOMAIN script : script[k] = queue[i].of
          /\ \A j \in DOMAIN queue :
                queue[j].type = "CONTRACT" /\ i < j => Before(queue[i].of, queue[j].of)
          /\ \A c \in Contracts : Reported(c) \/ Executed(c) => Before(c, queue[i].of)
    BY DEF OrderInv, ToComeOK, queue
  <2> QED  BY <1>2, <1>4, <1>6, <1>7, <1>8, <2>1 DEF ToComeOK, AtWork
<1>12. NothingYet'
  <2>1. life["producer"] # "launched"
    BY <1>1 DEF OrderInv, NothingYet, queue
  <2> QED  BY <1>6, <2>1 DEF NothingYet
<1>13. (\A i, j \in DOMAIN ledger : i < j => Before(ledger[i].of, ledger[j].of))'
  BY <1>6, <1>7 DEF OrderInv
<1>14. SentInv'
  BY <1>6, <1>7, <1>8 DEF OrderInv, SentInv, OfScript
<1> QED  BY <1>9, <1>10, <1>11, <1>12, <1>13, <1>14 DEF OrderInv

LEMMA ForwardKeepsOrder ==
  ASSUME OrderInv, VerdictInv, Forward PROVE OrderInv'
<1> DEFINE told   == inbox["consensus"]
           ok     == pc = "forward" /\ current \notin Weak
           result == Msg("EXECUTION_RESULT", current, ok)
<1>1. /\ ServicesTypeOK /\ MailOK /\ told \in Seq(Mail) /\ pc \in AtWork /\ current \in Contracts
      /\ inbox \in [Services \cup {"reply"} -> Seq(Mail)]
  BY DEF VerdictInv, MailOK, Forward, Services, Needed, AtWork
<1>2. result \in Mail /\ result.of = current /\ (result.ok <=> ok)
  BY <1>1, ContractIsMail DEF Msg
<1>3. UNCHANGED <<script, ledger, log, life>> /\ pc' = "get"
  BY DEF Forward, NextContract, KeepRest, setupVars
<1>4. /\ inbox'["execution"] = inbox["execution"]
      /\ inbox'["consensus"] = told \/ Brings(inbox'["consensus"], told, result)
  <2> DEFINE more == told \o Connection(<<result>>)
  <2>1. Brings(more, told, result)
    BY <1>1, <1>2, Carried
  <2>2. inbox' = inbox \/ inbox' = [inbox EXCEPT !["consensus"] = more]
    BY DEF Forward, Result
  <2> HIDE DEF more
  <2> QED  BY <1>1, <2>1, <2>2 DEF Services, Needed
<1> HIDE DEF ok, result, told
<1>5. \A i \in DOMAIN inbox'["consensus"] : inbox'["consensus"][i].type = "EXECUTION_RESULT" =>
         \/ i \in DOMAIN told /\ inbox'["consensus"][i] = told[i] /\ told[i].type = "EXECUTION_RESULT"
         \/ i = Len(told) + 1 /\ inbox'["consensus"][i] = result
  BY <1>4, DoneIsMail DEF Brings
<1>6. (\A c, d : Before(c, d)' = Before(c, d)) /\ \A c : Executed(c)' = Executed(c)
  BY <1>3, SameOrder
<1>7. \A c : Reported(c)' => Reported(c) \/ c = current
  BY <1>2, <1>3, <1>5 DEF Reported, told
<1>8. /\ \A c \in Contracts : Reported(c) => Before(c, current)
      /\ Executed(current) <=> pc = "forward"
  BY <1>1 DEF OrderInv, InHandOK
<1>9. ReportsOK'
  <2> DEFINE now == inbox'["consensus"]
  <2>1. /\ \A m \in DOMAIN log : Before(log[m].of, current)
        /\ \A i \in DOMAIN told : told[i].type = "EXECUTION_RESULT" => Before(told[i].of, current)
    BY <1>1, <1>8, ToldOf DEF told
  <2>2. DOMAIN told = 1..Len(told) /\ Len(told) \in Nat
    BY <1>1
  <2>3. \A i \in DOMAIN now : now[i].type = "EXECUTION_RESULT" =>
          /\ \A m \in DOMAIN log : Before(log[m].of, now[i].of)
          /\ \A j \in DOMAIN now :
                now[j].type = "EXECUTION_RESULT" /\ i < j => Before(now[i].of, now[j].of)
          /\ now[i].ok <=> (Executed(now[i].of) /\ now[i].of \notin Weak)
    <3> SUFFICES ASSUME NEW i \in DOMAIN now, now[i].type = "EXECUTION_RESULT"
                 PROVE  /\ \A m \in DOMAIN log : Before(log[m].of, now[i].of)
                        /\ \A j \in DOMAIN now :
                              now[j].type = "EXECUTION_RESULT" /\ i < j => Before(now[i].of, now[j].of)
                        /\ now[i].ok <=> (Executed(now[i].of) /\ now[i].of \notin Weak)
      OBVIOUS
    <3>1. CASE i \in DOMAIN told /\ now[i] = told[i] /\ told[i].type = "EXECUTION_RESULT"
      <4>1. /\ \A m \in DOMAIN log : Before(log[m].of, told[i].of)
            /\ \A j \in DOMAIN told :
                  told[j].type = "EXECUTION_RESULT" /\ i < j => Before(told[i].of, told[j].of)
            /\ told[i].ok <=> (Executed(told[i].of) /\ told[i].of \notin Weak)
        BY <3>1 DEF OrderInv, ReportsOK, told
      <4> QED  BY <1>2, <1>5, <2>1, <3>1, <4>1
    <3>2. CASE i = Len(told) + 1 /\ now[i] = result
      <4>1. \A j \in DOMAIN now : now[j].type = "EXECUTION_RESULT" => ~ i < j
        BY <1>5, <2>2, <3>2
      <4> QED  BY <1>2, <1>8, <2>1, <3>2, <4>1 DEF ok
    <3> QED  BY <1>5, <3>1, <3>2
  <2> QED  BY <1>3, <1>6, <2>3 DEF OrderInv, ReportsOK
<1>10. InHandOK'
  BY <1>3 DEF InHandOK, AtWork
<1>11. ToComeOK'
  BY <1>1, <1>3, <1>4, <1>6, <1>7 DEF OrderInv, ToComeOK, AtWork
<1>12. NothingYet'
  BY <1>1, <1>3 DEF OrderInv, NothingYet, AtWork
<1>13. (\A i, j \in DOMAIN ledger : i < j => Before(ledger[i].of, ledger[j].of))'
  BY <1>3, <1>6 DEF OrderInv
<1>14. SentInv'
  BY <1>1, <1>3, <1>6, <1>7 DEF OrderInv, InHandOK, SentInv, OfScript
<1> QED  BY <1>9, <1>10, <1>11, <1>12, <1>13, <1>14 DEF OrderInv

LEMMA DecideKeepsOrder ==
  ASSUME OrderInv, VerdictInv, Decide PROVE OrderInv'
<1> DEFINE told    == inbox["consensus"]
           outcome == [of |-> Head(told).of, reached |-> Head(told).ok]
<1>1. /\ ServicesTypeOK /\ MailOK /\ told \in Seq(Mail) /\ told # << >> /\ "consensus" \in Services
      /\ Head(told).type = "EXECUTION_RESULT"
      /\ inbox \in [Services \cup {"reply"} -> Seq(Mail)]
  BY DEF VerdictInv, MailOK, Decide, Ready, Services, Needed
<1>2. /\ Head(told) = told[1] /\ 1 \in DOMAIN told
      /\ \A i \in DOMAIN Tail(told) : /\ i + 1 \in DOMAIN told /\ Tail(told)[i] = told[i + 1] /\ 1 < i + 1
                                       /\ \A j \in DOMAIN Tail(told) : i < j => i + 1 < j + 1
  BY <1>1, Taken
<1>3. /\ inbox'["consensus"] = Tail(told) /\ inbox'["execution"] = inbox["execution"]
      /\ UNCHANGED <<script, ledger, life, pc, current>>
  BY <1>1, ConsumedKeeps DEF Decide, Services, Needed, setupVars, execVars
<1>4. outcome.of = told[1].of /\ outcome.reached = told[1].ok /\ outcome \in Outcome
  <2>1. Head(told) \in Mail
    BY <1>1, ConsumedKeeps
  <2> QED  BY <1>1, <1>2, <2>1 DEF Mail, Message, Outcome
<1>5. log \in Seq(Outcome) /\ log' = Append(log, outcome)
  BY <1>1 DEF ServicesTypeOK, Decide
<1> HIDE DEF outcome, told
<1>6. /\ Len(log) \in Nat /\ DOMAIN log = 1..Len(log) /\ DOMAIN log' = 1..Len(log) + 1
      /\ log'[Len(log) + 1] = outcome /\ \A m \in 1..Len(log) : log'[m] = log[m]
  BY <1>4, <1>5
<1>7. \A m \in DOMAIN log' : \/ m \in DOMAIN log /\ log'[m] = log[m]
                             \/ m = Len(log) + 1 /\ log'[m] = outcome
  BY <1>6
<1>8. (\A c, d : Before(c, d)' = Before(c, d)) /\ \A c : Executed(c)' = Executed(c)
  BY <1>3, SameOrder
<1>9. \A c : Reported(c)' => Reported(c)
  <2>1. told[1].type = "EXECUTION_RESULT"
    BY <1>1, <1>2
  <2>2. \A m \in DOMAIN log' : Reported(log'[m].of)
    BY <1>2, <1>4, <1>7, <2>1 DEF Reported, told
  <2>3. \A i \in DOMAIN Tail(told) : Tail(told)[i].type = "EXECUTION_RESULT" => Reported(Tail(told)[i].of)
    BY <1>2 DEF Reported, told
  <2> QED  BY <1>3, <2>2, <2>3 DEF Reported
<1>10. ReportsOK'
  <2>1. /\ \A m, n \in DOMAIN log : m < n => Before(log[m].of, log[n].of)
        /\ \A m \in DOMAIN log : log[m].reached <=> (Executed(log[m].of) /\ log[m].of \notin Weak)
        /\ \A i \in DOMAIN told : told[i].type = "EXECUTION_RESULT" =>
              /\ \A m \in DOMAIN log : Before(log[m].of, told[i].of)
              /\ \A j \in DOMAIN told :
                    told[j].type = "EXECUTION_RESULT" /\ i < j => Before(told[i].of, told[j].of)
              /\ told[i].ok <=> (Executed(told[i].of) /\ told[i].of \notin Weak)
    BY DEF OrderInv, ReportsOK, told
  <2>2. told[1].type = "EXECUTION_RESULT" /\ \A m \in DOMAIN log : Before(log[m].of, outcome.of)
    BY <1>1, <1>2, <1>4, <2>1
  <2>3. \A m, n \in DOMAIN log' : m < n => Before(log'[m].of, log'[n].of)
    BY <1>6, <1>7, <2>1, <2>2
  <2>4. \A m \in DOMAIN log' : log'[m].reached <=> (Executed(log'[m].of) /\ log'[m].of \notin Weak)
    BY <1>2, <1>4, <1>7, <2>1, <2>2
  <2>5. \A i \in DOMAIN Tail(told) : Tail(told)[i].type = "EXECUTION_RESULT" =>
              /\ \A m \in DOMAIN log' : Before(log'[m].of, Tail(told)[i].of)
              /\ \A j \in DOMAIN Tail(told) :
                    Tail(told)[j].type = "EXECUTION_RESULT" /\ i < j => Before(Tail(told)[i].of, Tail(told)[j].of)
              /\ Tail(told)[i].ok <=> (Executed(Tail(told)[i].of) /\ Tail(told)[i].of \notin Weak)
    BY <1>1, <1>2, <1>4, <1>7, <2>1, <2>2
  <2> QED  BY <1>3, <1>8, <2>3, <2>4, <2>5 DEF ReportsOK
<1>11. InHandOK'
  BY <1>3, <1>8, <1>9 DEF OrderInv, InHandOK
<1>12. ToComeOK'
  BY <1>3, <1>8, <1>9 DEF OrderInv, ToComeOK
<1>13. NothingYet'
  BY <1>3, <1>8, <1>9 DEF OrderInv, NothingYet
<1>14. (\A i, j \in DOMAIN ledger : i < j => Before(ledger[i].of, ledger[j].of))'
  BY <1>3, <1>8 DEF OrderInv
<1>15. SentInv'
  BY <1>3, <1>7, <1>8, <1>9 DEF OrderInv, SentInv, OfScript
<1> QED  BY <1>10, <1>11, <1>12, <1>13, <1>14, <1>15 DEF OrderInv

-----------------------------------------------------------------------------
(* The theorem about the outcomes.                                         *)

LEMMA RunningKeepsOrder == ASSUME SentOnce, OrderInv, VerdictInv, Running PROVE OrderInv'
<1>1. CASE \E s \in Services : ServiceStep(s)
  BY <1>1, QuietStepsKeep
<1>2. CASE ExecutionStep
  BY <1>2, QuietStepsKeep, ExchangeKeepsOrder, TakeKeepsOrder, PropagateDoneKeepsOrder, ExecuteKeepsOrder,
     ForwardKeepsOrder DEF ExecutionStep, ContractStep
<1>3. CASE ProducerStep
  BY <1>3, QuietStepsKeep, ProducerSendsKeepsOrder DEF ProducerStep
<1>4. CASE AuthorityWork
  BY <1>4, QuietStepsKeep
<1>5. CASE Decide
  BY <1>5, DecideKeepsOrder
<1> QED  BY <1>1, <1>2, <1>3, <1>4, <1>5 DEF Running

LEMMA OrderInit == ServicesInit => OrderInv
  BY DEF ServicesInit, OrderInv, SentInv, ReportsOK, InHandOK, ToComeOK, NothingYet, Reported, Executed, AtWork,
         Services, Needed

LEMMA OrderInvariant ==
  ASSUME PortsOnly, SentOnce PROVE ServicesSpec => [](VerdictInv /\ OrderInv)
<1>1. ServicesInit => VerdictInv /\ OrderInv
  BY ServicesInitOK, OrderInit
<1>2. VerdictInv /\ OrderInv /\ [ServicesNext]_servicesVars => (VerdictInv /\ OrderInv)'
  BY ServicesNextKeeps, RunningKeepsOrder, QuietStepsKeep DEF ServicesNext
<1> QED  BY <1>1, <1>2, PTL DEF ServicesSpec

LEMMA OrderFollows ==
  ASSUME SentOnce, VerdictInv, OrderInv PROVE OutcomesFollowLedger
<1> DEFINE Place(c) == {i \in DOMAIN ledger : ledger[i].of = c}
<1>1. ServicesTypeOK /\ ledger \in Seq(Entry)
  BY DEF VerdictInv, ServicesTypeOK
<1>2. \A c : Executed(c) <=> Place(c) # {}
  BY DEF Executed
<1>3. ASSUME NEW m \in DOMAIN log, NEW n \in DOMAIN log, m < n
      PROVE  /\ log[m].of # log[n].of
             /\ \A i \in Place(log[m].of), j \in Place(log[n].of) : i < j
  <2>1. Before(log[m].of, log[n].of)
    BY <1>3 DEF OrderInv, ReportsOK
  <2>2. DOMAIN ledger \subseteq Nat
    BY <1>1
  <2>3. \A i, j \in DOMAIN ledger : i < j => Before(ledger[i].of, ledger[j].of)
    BY DEF OrderInv
  <2> QED  BY <1>1, <2>1, <2>2, <2>3, BeforeIsOrder
<1>4. \A m \in DOMAIN log : log[m].reached <=> (Place(log[m].of) # {} /\ log[m].of \notin Weak)
  BY <1>2 DEF OrderInv, ReportsOK
<1> QED  BY <1>3, <1>4 DEF OutcomesFollowLedger

\* Where an address cannot be bound twice and the producer sends no contract twice, the outcome
\* file has each contract once, in the order of the ledger, and agreement is logged exactly for
\* what was executed and not halted.
THEOREM OutcomesInOrder == ASSUME PortsOnly, SentOnce PROVE ServicesSpec => []OutcomesFollowLedger
<1>1. VerdictInv /\ OrderInv => OutcomesFollowLedger
  BY OrderFollows
<1> QED  BY <1>1, OrderInvariant, PTL

-----------------------------------------------------------------------------
(* The orchestrator: the services in the hands of run_distributed_pipeline. *)

\* run_producer_service sends one contract.
OneContract == \A s \in Scripts : Len(s) <= 1

\* Something the producer has sent has reached execution.
Evidence ==
    \/ inbox["execution"] # << >> \/ inbox["consensus"] # << >>
    \/ pc \in AtWork \/ ledger # << >> \/ log # << >>

\* A crashed process is never registered, so nothing is sent in a run with one: execution waits
\* for all it needs and the producer for execution.
StartInv ==
    /\ stage = "launch" => capabilities = {} /\ ~ Evidence
    /\ \A p \in capabilities : life[p] # "crashed"
    /\ Accepting("execution") => Needed \subseteq capabilities
    /\ Evidence => Services \subseteq capabilities /\ life["producer"] = "stopped"
    /\ inbox["consensus"] # << >> \/ log # << >> => life["consensus"] \notin {"launched", "registered"}

OwnTypeOK ==
    /\ stage \in {"launch", "monitor", "terminate", "join", "done"}
    /\ crashStage \in Processes \cup {None} /\ probed \in Services \cup {None}
    /\ pipelineOk \in BOOLEAN /\ crashes \subseteq Processes
    /\ crashes # {} => ~ pipelineOk
    /\ next \in 1..Len(Order) + 1 /\ (stage = "join" => next <= Len(Order))
    /\ summary \in [ok : BOOLEAN, result : Contracts \cup {None}]

\* The loop is left without a complaint only for an outcome, and an outcome stays.
EarnedInv ==
    /\ probed # None => stage = "monitor"
    /\ stage \in {"terminate", "join", "done"} /\ pipelineOk => log # << >>
    /\ summary.ok => stage = "done" /\ pipelineOk /\ OfScript(summary.result)

OrchestratorInv == VerdictInv /\ OrderInv /\ StartInv /\ OwnTypeOK /\ EarnedInv

LEMMA OneIsDistinct == ASSUME OneContract PROVE SentOnce
<1>1. ASSUME NEW s \in Scripts PROVE Distinct(s)
  <2>1. s \in Seq(Contracts) /\ Len(s) <= 1
    BY ServicesAssumption DEF OneContract
  <2> QED  BY <2>1 DEF Distinct
<1> QED  BY <1>1 DEF SentOnce

\* The lives of the processes, as far as the order of the start depends on them.
LEMMA LifeIsTyped == ASSUME VerdictInv PROVE DOMAIN life = Processes /\ DOMAIN inbox = Services \cup {"reply"}
  BY DEF VerdictInv, ServicesTypeOK

LEMMA ExitKeepsStart ==
  ASSUME VerdictInv, StartInv, stage' # "launch", NEW p \in Processes, NEW how \in {"stopped", "killed"},
         Alive(p), Exit(p, how), UNCHANGED <<capabilities, execVars, log>>
  PROVE  StartInv'
<1>1. /\ life' = [life EXCEPT ![p] = how] /\ DOMAIN life = Processes
      /\ \A l \in {"execution", "consensus"} : inbox'[l] \in {inbox[l], << >>}
  BY LifeIsTyped DEF Exit, Services, Needed
<1>2. Evidence' => Evidence
  BY <1>1 DEF Evidence, execVars
<1>3. Evidence => p # "producer"
  BY DEF StartInv, Alive
<1>4. Accepting("execution")' => Accepting("execution")
  BY <1>1 DEF Accepting, Processes, Services
<1>5. \A q \in capabilities' : life'[q] # "crashed"
  BY <1>1 DEF StartInv
<1>6. Evidence' => Services \subseteq capabilities' /\ life'["producer"] = "stopped"
  BY <1>1, <1>2, <1>3 DEF StartInv, Processes
<1>7. (inbox["consensus"] # << >> \/ log # << >>)' => life'["consensus"] \notin {"launched", "registered"}
  BY <1>1 DEF StartInv, Processes, Services, Needed
<1> QED  BY <1>4, <1>5, <1>6, <1>7 DEF StartInv

LEMMA RegisterKeepsStart ==
  ASSUME VerdictInv, StartInv, stage' # "launch", NEW s \in Services, Register(s) PROVE StartInv'
<1>1. /\ life' = [life EXCEPT ![s] = "registered"] /\ life[s] = "launched" /\ DOMAIN life = Processes
      /\ capabilities \subseteq capabilities' /\ capabilities' \subseteq capabilities \cup {s}
      /\ UNCHANGED <<inbox, execVars, log>>
  BY LifeIsTyped DEF Register
<1>2. Evidence' = Evidence
  BY <1>1 DEF Evidence, execVars
<1>3. Accepting("execution")' => Accepting("execution")
  BY <1>1 DEF Accepting, Processes, Services
<1> QED  BY <1>1, <1>2, <1>3 DEF StartInv, Processes, Services, Needed

LEMMA ListenKeepsStart ==
  ASSUME VerdictInv, StartInv, stage' # "launch", NEW s \in Services, Listen(s) PROVE StartInv'
<1>1. /\ life' = [life EXCEPT ![s] = "listening"] /\ life[s] = "registered" /\ DOMAIN life = Processes
      /\ UNCHANGED <<inbox, execVars, capabilities>> /\ log' \in {log, << >>}
      /\ s = "execution" => Needed \subseteq capabilities
  BY LifeIsTyped DEF Listen
<1>2. Evidence' => Evidence
  BY <1>1 DEF Evidence, execVars
<1>3. Accepting("execution")' => Needed \subseteq capabilities
  BY <1>1 DEF StartInv, Accepting, Processes, Services
<1> QED  BY <1>1, <1>2, <1>3 DEF StartInv, Processes, Services, Needed

LEMMA ProducerKeepsStart ==
  ASSUME VerdictInv, StartInv, stage' # "launch", ProducerStep PROVE StartInv'
<1>1. /\ life' = [life EXCEPT !["producer"] = "stopped"] /\ DOMAIN life = Processes
      /\ UNCHANGED <<capabilities, execVars, log>>
  BY LifeIsTyped DEF ProducerStep, ProducerSends, ProducerFails
<1>2. inbox' = inbox \/ Services \subseteq capabilities
  BY DEF ProducerStep, ProducerSends, ProducerFails, StartInv, Services
<1>3. inbox'["consensus"] = inbox["consensus"]
  BY LifeIsTyped DEF ProducerStep, ProducerSends, ProducerFails, Services, Needed
<1>4. life'["producer"] = "stopped" /\ \A q \in Processes : q # "producer" => life'[q] = life[q]
  BY <1>1 DEF Processes
<1>5. \A q \in Processes : life'[q] = life[q] \/ life'[q] = "stopped"
  BY <1>4
<1>6. Accepting("execution")' => Accepting("execution")
  BY <1>4 DEF Accepting, Processes, Services
<1>7. capabilities \subseteq Processes
  BY DEF VerdictInv, ServicesTypeOK, Processes
<1>8. Evidence' => Services \subseteq capabilities
  BY <1>1, <1>2 DEF StartInv, Evidence, execVars
<1>9. life'["consensus"] = life["consensus"]
  BY <1>4 DEF Processes, Services, Needed
<1> QED  BY <1>1, <1>3, <1>4, <1>5, <1>6, <1>7, <1>8, <1>9 DEF StartInv

\* The steps of the contracts, once the first one is there.
LEMMA WorkKeepsStart ==
  ASSUME VerdictInv, StartInv, stage' # "launch", (Accepting("execution") /\ ContractStep) \/ Decide \/ AuthorityWork
  PROVE  StartInv'
<1>1. UNCHANGED <<life, capabilities>>
  BY DEF ContractStep, Take, PropagateDone, Ask, AskFails, Hear, WaitTimesOut, Execute, Forward, KeepRest,
         Decide, AuthorityWork, ReplaySubmit, TrustVerify, Answer
<1>2. /\ inbox \in [Services \cup {"reply"} -> Seq(Mail)] /\ peer \in Authorities
      /\ \A s \in Authorities \cup {"reply"} : s # "execution" /\ s # "consensus"
      /\ "execution" \in Services /\ "consensus" \in Services
  BY DEF VerdictInv, MailOK, ServicesTypeOK, Authorities, Services, Needed
<1>3. Evidence' => Evidence
  <2>1. CASE ContractStep \/ Decide
    BY <2>1 DEF ContractStep, Take, PropagateDone, Ask, AskFails, Hear, WaitTimesOut, Execute, Forward, Ready,
                Decide, Evidence, AtWork
  <2>2. CASE AuthorityWork
    <3>1. inbox'["execution"] = inbox["execution"] /\ inbox'["consensus"] = inbox["consensus"]
      BY <1>2, <2>2 DEF AuthorityWork, ReplaySubmit, TrustVerify, Answer, Consumed, Authorities
    <3>2. UNCHANGED <<execVars, log>>
      BY <2>2 DEF AuthorityWork, ReplaySubmit, TrustVerify, Answer
    <3> QED  BY <3>1, <3>2 DEF Evidence, execVars
  <2> QED  BY <2>1, <2>2
<1>4. (inbox["consensus"] # << >> \/ log # << >>)' =>
         inbox["consensus"] # << >> \/ log # << >> \/ Accepting("consensus")
  <2>1. CASE PropagateDone \/ Forward
    BY <1>2, <2>1 DEF PropagateDone, Forward, Consumed, KeepRest, Services, Needed
  <2>2. CASE Take \/ Ask \/ AskFails \/ Hear \/ WaitTimesOut \/ Execute
    <3>1. inbox'["consensus"] = inbox["consensus"]
      <4>1. CASE Take \/ AskFails \/ Hear \/ WaitTimesOut \/ Execute
        BY <1>2, <4>1 DEF Take, Consumed, AskFails, Hear, CloseReply, WaitTimesOut, Execute
      <4>2. CASE Ask
        BY <1>2, <4>2 DEF Ask
      <4> QED  BY <2>2, <4>1, <4>2
    <3>2. log' = log
      BY <2>2 DEF Take, Ask, AskFails, Hear, WaitTimesOut, Execute, KeepRest
    <3> QED  BY <3>1, <3>2
  <2>3. CASE AuthorityWork
    BY <1>2, <2>3 DEF AuthorityWork, ReplaySubmit, TrustVerify, Answer, Consumed, Authorities
  <2>4. CASE Decide
    BY <2>4 DEF Decide, Ready
  <2> QED  BY <2>1, <2>2, <2>3, <2>4 DEF ContractStep
<1> QED  BY <1>1, <1>3, <1>4 DEF StartInv, Accepting

LEMMA RunningKeepsStart ==
  ASSUME VerdictInv, StartInv, stage' # "launch", Running PROVE StartInv'
<1>1. ASSUME NEW s \in Services, ServiceStep(s) PROVE StartInv'
  <2>1. s \in Processes
    BY DEF Processes
  <2> QED  BY <1>1, <2>1, RegisterKeepsStart, ListenKeepsStart, ExitKeepsStart
           DEF ServiceStep, BreakOnDone, BreakOnSignal, Accepting, Alive
<1>2. CASE GiveUpDiscovery
  BY <1>2, ExitKeepsStart DEF GiveUpDiscovery, Alive, Processes, Services
<1> QED  BY <1>1, <1>2, ProducerKeepsStart, WorkKeepsStart DEF Running, ExecutionStep

LEMMA OutcomesStay ==
  ASSUME VerdictInv, StartInv, Running, log # << >> PROVE log' # << >>
<1>1. ASSUME NEW s \in Services, Listen(s) PROVE log' # << >>
  BY <1>1 DEF Listen, StartInv
<1>2. CASE Decide
  <2>1. log \in Seq(Outcome)
    BY DEF VerdictInv, ServicesTypeOK
  <2> QED  BY <1>2, <2>1 DEF Decide
<1>3. CASE ~ Decide /\ ~ \E s \in Services : Listen(s)
  BY <1>3 DEF Running, ServiceStep, Register, BreakOnDone, BreakOnSignal, ExecutionStep, GiveUpDiscovery,
     ContractStep, Take, PropagateDone, Ask, AskFails, Hear, WaitTimesOut, Execute, Forward, KeepRest,
     ProducerStep, ProducerSends, ProducerFails, AuthorityWork, ReplaySubmit, TrustVerify, Answer
<1> QED  BY <1>1, <1>2, <1>3

LEMMA ProcessNextKeeps ==
  ASSUME PortsOnly, SentOnce, OrchestratorInv, ProcessNext PROVE OrchestratorInv'
<1>1. Running /\ stage # "launch" /\ UNCHANGED orchestratorOwnVars
  BY DEF ProcessNext
<1>2. VerdictInv' /\ OrderInv' /\ StartInv'
  BY <1>1, RunningKeeps, RunningKeepsOrder, RunningKeepsStart DEF OrchestratorInv, orchestratorOwnVars
<1>3. OwnTypeOK'
  BY <1>1 DEF OrchestratorInv, OwnTypeOK, orchestratorOwnVars
<1>4. script' = script
  BY <1>1 DEF Running, ServiceStep, Register, Listen, BreakOnDone, BreakOnSignal, ExecutionStep, GiveUpDiscovery,
     ContractStep, Take, PropagateDone, Ask, AskFails, Hear, WaitTimesOut, Execute, Forward, KeepRest, setupVars,
     ProducerStep, ProducerSends, ProducerFails, AuthorityWork, ReplaySubmit, TrustVerify, Answer, Decide
<1>5. EarnedInv'
  BY <1>1, <1>4, OutcomesStay DEF OrchestratorInv, EarnedInv, OfScript, orchestratorOwnVars
<1> QED  BY <1>2, <1>3, <1>5 DEF OrchestratorInv

\* A process may be told to stop, and nothing else happens to it.
LEMMA ToldToStop ==
  ASSUME OrchestratorInv, stage' # "launch", shutdown' \subseteq Processes,
         UNCHANGED <<setupVars, life, capabilities, inbox, replyBound, authVars, execVars, log, faults>>
  PROVE  VerdictInv' /\ OrderInv' /\ StartInv'
<1>1. VerdictInv /\ OrderInv /\ StartInv /\ ServicesTypeOK
  BY DEF OrchestratorInv, VerdictInv
<1>2. VerdictInv'
  BY <1>1, StillStep DEF ServicesTypeOK, Alive
<1>3. OrderInv'
  BY <1>1, FewerKeeps DEF setupVars, execVars, ServicesTypeOK, AtWork
<1>4. StartInv'
  BY <1>1 DEF StartInv, Evidence, Accepting, execVars
<1> QED  BY <1>2, <1>3, <1>4

LEMMA LaunchKeeps == ASSUME OrchestratorInv, Launch PROVE OrchestratorInv'
<1>1. VerdictInv /\ OrderInv /\ StartInv /\ OwnTypeOK /\ EarnedInv /\ ServicesTypeOK
  BY DEF OrchestratorInv, VerdictInv
<1>2. /\ life' = [p \in Processes |-> IF p = crashStage THEN "crashed" ELSE life[p]]
      /\ stage = "launch" /\ stage' = "monitor"
      /\ UNCHANGED <<setupVars, capabilities, shutdown, inbox, replyBound, authVars, execVars, log, faults,
                     crashStage, probed, pipelineOk, crashes, next, summary>>
  BY DEF Launch
<1>3. \A p \in Processes : life'[p] = life[p] \/ life'[p] = "crashed"
  BY <1>2
<1>4. life' \in [Processes -> {"launched", "registered", "listening", "stopped", "killed", "crashed"}]
  BY <1>1, <1>2 DEF ServicesTypeOK
<1>5. (Alive("execution")' => Alive("execution")) /\ (Accepting("execution")' => Accepting("execution"))
  BY <1>3 DEF Alive, Accepting, Processes, Services
<1>6. VerdictInv'
  BY <1>1, <1>2, <1>4, <1>5, StillStep DEF ServicesTypeOK
<1>7. OrderInv'
  <2>1. life'["producer"] = "launched" => life["producer"] = "launched"
    BY <1>3 DEF Processes
  <2> QED  BY <1>1, <1>2, <2>1, FewerKeeps DEF setupVars, execVars, ServicesTypeOK, AtWork
<1>8. StartInv'
  BY <1>1, <1>2, <1>5 DEF StartInv, Evidence, execVars
<1>9. OwnTypeOK' /\ EarnedInv'
  BY <1>1, <1>2 DEF OwnTypeOK, EarnedInv
<1> QED  BY <1>6, <1>7, <1>8, <1>9 DEF OrchestratorInv

LEMMA MonitorKeeps == ASSUME OrchestratorInv, Monitor PROVE OrchestratorInv'
<1>1. StartInv /\ OwnTypeOK /\ EarnedInv /\ ServicesTypeOK
  BY DEF OrchestratorInv, VerdictInv
<1>2. UNCHANGED <<setupVars, life, capabilities, inbox, replyBound, authVars, execVars, log, faults,
                  crashStage, next, summary>>
  BY DEF Monitor, OutcomeSeen, TimeIsUp, BreakOff, QueryHealth, SeeExitCode, SeeAlive, KeepMonitored, servicesVars
<1>3. stage # "launch" /\ stage' # "launch"
  BY <1>1 DEF EarnedInv, Monitor, OutcomeSeen, TimeIsUp, BreakOff, QueryHealth, SeeExitCode, SeeAlive, StopMonitoring
<1>4. OutcomeSeen \/ TimeIsUp \/ BreakOff =>
         /\ pipelineOk' \in BOOLEAN /\ crashes' = crashes /\ (crashes # {} => ~ pipelineOk')
         /\ pipelineOk' => log # << >>
  <2>1. CASE OutcomeSeen
    BY <1>1, <2>1 DEF OutcomeSeen, StopMonitoring, OwnTypeOK
  <2>2. CASE TimeIsUp
    BY <1>1, <2>2 DEF TimeIsUp, StopMonitoring, OwnTypeOK
  <2>3. CASE BreakOff
    BY <1>1, <2>3 DEF BreakOff, OwnTypeOK
  <2> QED  BY <2>1, <2>2, <2>3
<1>5. OwnTypeOK' /\ shutdown' \subseteq Processes
  <2> USE <1>1, <1>2 DEF OwnTypeOK, ServicesTypeOK, KeepMonitored, servicesVars
  <2>1. CASE OutcomeSeen \/ TimeIsUp \/ BreakOff
    <3>1. pipelineOk' \in BOOLEAN /\ crashes' = crashes /\ (crashes # {} => ~ pipelineOk')
      BY <2>1, <1>4 DEF Monitor
    <3>2. stage' = "terminate" /\ probed' = probed
      BY <2>1 DEF OutcomeSeen, TimeIsUp, BreakOff, StopMonitoring
    <3> QED  BY <2>1, <3>1, <3>2 DEF OutcomeSeen, TimeIsUp, BreakOff
  <2>2. CASE QueryHealth
    BY <2>2 DEF QueryHealth, Blame, Processes
  <2>3. ASSUME NEW p \in Processes, SeeExitCode(p) PROVE OwnTypeOK' /\ shutdown' \subseteq Processes
    BY <2>3 DEF SeeExitCode, Blame
  <2>4. ASSUME NEW p \in Processes, SeeAlive(p) PROVE OwnTypeOK' /\ shutdown' \subseteq Processes
    BY <2>4 DEF SeeAlive, Processes
  <2> QED  BY <2>1, <2>2, <2>3, <2>4 DEF Monitor
<1>6. VerdictInv' /\ OrderInv' /\ StartInv'
  BY <1>2, <1>3, <1>5, ToldToStop
<1>7. /\ stage' \in {"terminate", "join", "done"} /\ pipelineOk' => log # << >>
      /\ summary.ok => stage' = "done" /\ pipelineOk'
  <2>1. CASE OutcomeSeen \/ TimeIsUp \/ BreakOff
    <3>1. stage = "monitor"
      BY <2>1 DEF OutcomeSeen, TimeIsUp, BreakOff
    <3>2. ~ summary.ok
      BY <1>1, <3>1 DEF EarnedInv
    <3> QED  BY <1>4, <2>1, <3>2
  <2>2. CASE QueryHealth
    <3>1. stage = "monitor" /\ stage' = "monitor"
      BY <1>1, <2>2 DEF EarnedInv, QueryHealth
    <3> QED  BY <1>1, <3>1 DEF EarnedInv
  <2>3. ASSUME NEW p \in Processes, SeeExitCode(p) \/ SeeAlive(p) PROVE stage' = "monitor" /\ stage = "monitor"
    BY <2>3 DEF SeeExitCode, SeeAlive, KeepMonitored
  <2> QED  BY <1>1, <2>1, <2>2, <2>3 DEF EarnedInv, Monitor
<1>8. EarnedInv'
  <2>1. probed' # None => stage' = "monitor"
    BY <1>1 DEF EarnedInv, Monitor, OutcomeSeen, TimeIsUp, BreakOff, QueryHealth, SeeExitCode, SeeAlive
  <2> QED  BY <1>1, <1>2, <1>7, <2>1 DEF EarnedInv, OfScript, setupVars
<1> QED  BY <1>5, <1>6, <1>8 DEF OrchestratorInv

LEMMA Placed == \A i \in 1..Len(Order) : Order[i] \in Processes
  BY DEF Order, Processes, Services, Needed

LEMMA TerminateKeeps == ASSUME OrchestratorInv, Terminate \/ Joined PROVE OrchestratorInv'
<1>1. OwnTypeOK /\ EarnedInv /\ ServicesTypeOK
  BY DEF OrchestratorInv, VerdictInv
<1>2. UNCHANGED <<setupVars, life, capabilities, inbox, replyBound, authVars, execVars, log, faults, summary,
                  crashStage, probed, pipelineOk, crashes>>
  BY DEF Terminate, Joined, KeepTerminated, servicesVars
<1>3. /\ stage \in {"terminate", "join"} /\ stage' \in {"terminate", "join"}
      /\ next' \in 1..Len(Order) + 1 /\ (stage' = "join" => next' <= Len(Order))
  <2>1. Len(Order) \in Nat
    BY DEF Order
  <2> QED  BY <1>1, <2>1 DEF Terminate, Joined, OwnTypeOK
<1>4. shutdown' \subseteq Processes
  <2>1. next \in 1..Len(Order) => Order[next] \in Processes
    BY Placed
  <2>2. Len(Order) \in Nat
    BY DEF Order
  <2> QED  BY <1>1, <2>1, <2>2 DEF Terminate, Joined, OwnTypeOK, ServicesTypeOK, servicesVars
<1>5. VerdictInv' /\ OrderInv' /\ StartInv'
  BY <1>2, <1>3, <1>4, ToldToStop
<1>6. OwnTypeOK' /\ EarnedInv'
  BY <1>1, <1>2, <1>3 DEF OwnTypeOK, EarnedInv
<1> QED  BY <1>5, <1>6 DEF OrchestratorInv

LEMMA KillKeeps == ASSUME OrchestratorInv, Kill PROVE OrchestratorInv'
<1> DEFINE p == Order[next]
<1>1. VerdictInv /\ OrderInv /\ StartInv /\ OwnTypeOK /\ EarnedInv /\ ServicesTypeOK /\ MailOK
  BY DEF OrchestratorInv, VerdictInv
<1>2. p \in Processes /\ next \in 1..Len(Order) /\ Len(Order) \in Nat
  <2>1. Len(Order) \in Nat
    BY DEF Order
  <2> QED  BY <1>1, <2>1, Placed DEF Kill, OwnTypeOK
<1>3. /\ Alive(p) /\ Exit(p, "killed") /\ stage = "join" /\ stage' = "terminate" /\ next' = next + 1
      /\ UNCHANGED <<setupVars, capabilities, shutdown, accepted, submitted, execVars, log, faults, summary,
                     crashStage, probed, pipelineOk, crashes>>
  BY DEF Kill, KeepTerminated
<1> HIDE DEF p
<1>4. VerdictInv'
  BY <1>1, <1>2, <1>3, ExitKeeps
<1>5. StartInv'
  BY <1>1, <1>2, <1>3, ExitKeepsStart
<1>6. OrderInv'
  <2>1. \A l \in Behind : inbox'[l] \in {inbox[l], << >>}
    BY <1>1, <1>3 DEF Exit, MailOK, Behind, Services, Needed
  <2>2. life'["producer"] = "launched" => life["producer"] = "launched"
    BY <1>1, <1>3 DEF Exit, ServicesTypeOK, Processes
  <2> QED  BY <1>1, <1>3, <2>1, <2>2, FewerKeeps DEF setupVars, execVars, ServicesTypeOK, AtWork
<1>7. OwnTypeOK' /\ EarnedInv'
  BY <1>1, <1>2, <1>3 DEF OwnTypeOK, EarnedInv, OfScript, setupVars
<1> QED  BY <1>4, <1>5, <1>6, <1>7 DEF OrchestratorInv

LEMMA SummariseKeeps == ASSUME OrchestratorInv, Summarise PROVE OrchestratorInv'
<1>1. OwnTypeOK /\ EarnedInv /\ ServicesTypeOK /\ MailOK /\ SentInv
  BY DEF OrchestratorInv, VerdictInv, OrderInv
<1>2. /\ stage = "terminate" /\ stage' = "done"
      /\ UNCHANGED <<servicesVars, next, crashStage, probed, pipelineOk, crashes>>
      /\ summary' = [ok |-> pipelineOk /\ crashes = {}, result |-> IF log = << >> THEN None ELSE log[Len(log)].of]
  BY DEF Summarise, KeepTerminated
<1>3. VerdictInv' /\ OrderInv' /\ StartInv'
  BY <1>1, <1>2, ToldToStop DEF servicesVars, ServicesTypeOK
<1>4. log # << >> => log[Len(log)].of \in Contracts /\ OfScript(log[Len(log)].of)
  <2>1. log # << >> => Len(log) \in DOMAIN log
    BY <1>1 DEF ServicesTypeOK
  <2> QED  BY <1>1, <2>1, ToldOf DEF SentInv
<1>5. OwnTypeOK'
  <2>1. summary'.ok \in BOOLEAN /\ summary'.result \in Contracts \cup {None}
    BY <1>1, <1>2, <1>4 DEF OwnTypeOK
  <2>2. summary' \in [ok : BOOLEAN, result : Contracts \cup {None}]
    BY <1>2, <2>1
  <2> QED  BY <1>1, <1>2, <2>2 DEF OwnTypeOK
<1>6. EarnedInv'
  <2>1. summary'.ok => pipelineOk /\ log # << >> /\ OfScript(summary'.result)
    BY <1>1, <1>2, <1>4 DEF EarnedInv
  <2>2. UNCHANGED <<script, log>>
    BY <1>2 DEF servicesVars, setupVars
  <2> QED  BY <1>1, <1>2, <2>1, <2>2 DEF EarnedInv, OfScript
<1> QED  BY <1>3, <1>5, <1>6 DEF OrchestratorInv

LEMMA OrchestratorInitOK == OrchestratorInit => OrchestratorInv
<1> SUFFICES ASSUME OrchestratorInit PROVE OrchestratorInv
  OBVIOUS
<1>1. ServicesInit /\ VerdictInv /\ OrderInv
  BY ServicesInitOK, OrderInit DEF OrchestratorInit
<1>2. StartInv
  BY <1>1 DEF OrchestratorInit, ServicesInit, StartInv, Evidence, Accepting, AtWork, Processes, Services, Needed
<1>3. OwnTypeOK /\ EarnedInv
  BY OrchestratorAssumption DEF OrchestratorInit, OwnTypeOK, EarnedInv, NoSummary, Order
<1> QED  BY <1>1, <1>2, <1>3 DEF OrchestratorInv

LEMMA OrchestratorIdles == ASSUME OrchestratorInv, UNCHANGED orchestratorVars PROVE OrchestratorInv'
<1>1. VerdictInv' /\ OrderInv'
  BY StutterKeeps, QuietStepsKeep DEF OrchestratorInv, orchestratorVars
<1>2. StartInv' /\ OwnTypeOK' /\ EarnedInv'
  BY DEF OrchestratorInv, StartInv, Evidence, Accepting, OwnTypeOK, EarnedInv, OfScript,
         orchestratorVars, orchestratorOwnVars, servicesVars, setupVars, execVars
<1> QED  BY <1>1, <1>2 DEF OrchestratorInv

LEMMA OrchestratorInvariant ==
  ASSUME PortsOnly, SentOnce PROVE OrchestratorSpec => []OrchestratorInv
<1>1. OrchestratorInv /\ [OrchestratorNext]_orchestratorVars => OrchestratorInv'
  BY ProcessNextKeeps, LaunchKeeps, MonitorKeeps, TerminateKeeps, KillKeeps, SummariseKeeps, OrchestratorIdles
     DEF OrchestratorNext, Orchestrate
<1> QED  BY <1>1, OrchestratorInitOK, PTL DEF OrchestratorSpec

\* Where an address cannot be bound twice and no contract is sent twice, the services keep to
\* their types in the hands of the orchestrator too, and it blames processes only in a run that
\* is not ok.
THEOREM OrchestratorTypeCorrect == ASSUME PortsOnly, SentOnce PROVE OrchestratorSpec => []OrchestratorTypeOK
<1>1. OrchestratorInv => OrchestratorTypeOK
  BY DEF OrchestratorInv, VerdictInv, OwnTypeOK, OrchestratorTypeOK
<1> QED  BY <1>1, OrchestratorInvariant, PTL

LEMMA EarnedFollows == ASSUME OneContract, OrchestratorInv PROVE OkIsEarned
<1> SUFFICES ASSUME summary.ok PROVE OkIsEarned
  BY DEF OkIsEarned
<1>1. VerdictInv /\ OrderInv /\ StartInv /\ EarnedInv /\ ServicesTypeOK /\ MailOK /\ SentInv
  BY DEF OrchestratorInv, VerdictInv, OrderInv
<1>2. log # << >> /\ OfScript(summary.result)
  BY <1>1 DEF EarnedInv
<1>3. \A p \in Processes : life[p] # "crashed"
  BY <1>1, <1>2 DEF StartInv, Evidence, Processes
<1>4. \A c, d : OfScript(c) /\ OfScript(d) => c = d
  <2>1. script \in Seq(Contracts) /\ Len(script) <= 1
    BY <1>1, ServicesAssumption DEF ServicesTypeOK, OneContract
  <2> QED  BY <2>1 DEF OfScript
<1>5. \A c : OfScript(c) => Answered(c)
  <2>1. 1 \in DOMAIN log
    BY <1>1, <1>2 DEF ServicesTypeOK
  <2>2. OfScript(log[1].of)
    BY <1>1, <2>1, ToldOf DEF SentInv
  <2> QED  BY <1>4, <2>1, <2>2 DEF Answered
<1>6. \A i \in DOMAIN ledger : Answered(ledger[i].of)
  BY <1>1, <1>5, Recorded DEF SentInv
<1> QED  BY <1>2, <1>3, <1>5, <1>6 DEF OkIsEarned, OfScript

\* Where an address cannot be bound twice and the producer sends one contract, a run reported
\* as ok had no crashed process, its result is the outcome of the contract sent, and nothing
\* was executed without an outcome.
THEOREM OkIsDeserved == ASSUME PortsOnly, OneContract PROVE OrchestratorSpec => []OkIsEarned
<1>1. SentOnce
  BY OneIsDistinct
<1>2. OrchestratorInv => OkIsEarned
  BY EarnedFollows
<1> QED  BY <1>1, <1>2, OrchestratorInvariant, PTL

-----------------------------------------------------------------------------
(* What the runtime promises, step by step.                                *)

Contracted == [i \in DOMAIN ledger |-> ledger[i].of]
Agreed     == {log[m].of : m \in {n \in DOMAIN log : log[n].reached}}

\* Consensus opens the outcome file as it starts, and has not written to it before.
LogInv == log # << >> => life["consensus"] \notin {"launched", "registered"}

LEMMA LogKept == ASSUME VerdictInv, LogInv, Running PROVE LogInv'
<1>1. DOMAIN life = Processes /\ "consensus" \in Processes /\ "consensus" # "producer"
  BY LifeIsTyped DEF Processes, Services, Needed
<1>2. ASSUME NEW p, NEW how \in {"stopped", "killed"}, Exit(p, how), log' = log PROVE LogInv'
  BY <1>1, <1>2 DEF Exit, LogInv
<1>3. ASSUME NEW s \in Services, ServiceStep(s) PROVE LogInv'
  BY <1>1, <1>2, <1>3 DEF ServiceStep, Register, Listen, BreakOnDone, BreakOnSignal, LogInv
<1>4. CASE GiveUpDiscovery
  BY <1>2, <1>4 DEF GiveUpDiscovery
<1>5. CASE ProducerStep
  BY <1>1, <1>5 DEF ProducerStep, ProducerSends, ProducerFails, LogInv
<1>6. CASE ContractStep \/ AuthorityWork
  BY <1>6 DEF ContractStep, Take, PropagateDone, Ask, AskFails, Hear, WaitTimesOut, Execute, Forward, KeepRest,
              AuthorityWork, ReplaySubmit, TrustVerify, Answer, LogInv
<1>7. CASE Decide
  BY <1>7 DEF Decide, Ready, Accepting, LogInv
<1> QED  BY <1>3, <1>4, <1>5, <1>6, <1>7 DEF Running, ExecutionStep

LEMMA ExecuteIsOne ==
  ASSUME VerdictInv, Execute
  PROVE  \E c \in Contracts : Lifecycle!Execute(c)
<1> DEFINE n == Len(ledger)
<1>1. ledger \in Seq(Entry) /\ current \in Contracts /\ pc = "execute"
  BY DEF VerdictInv, ServicesTypeOK, MailOK, Execute, AtWork
<1>2. /\ UNCHANGED <<accepted, log>>
      /\ ledger' = Append(ledger, [of |-> current, verdictOf |-> verdictOf])
  BY DEF Execute, KeepRest, authVars
<1>3. Admitted(current)
  BY <1>1 DEF VerdictInv, ClearedOK
<1>4. /\ n \in Nat /\ DOMAIN ledger = 1..n /\ DOMAIN ledger' = 1..n + 1
      /\ ledger'[n + 1].of = current /\ \A i \in 1..n : ledger'[i] = ledger[i]
  BY <1>1, <1>2
<1>5. Contracted \in Seq(Contracts) /\ Len(Contracted) = n
  <2>1. \A i \in 1..n : ledger[i].of \in Contracts
    BY <1>4, Recorded DEF VerdictInv
  <2>2. Contracted \in [1..n -> Contracts]
    BY <1>4, <2>1 DEF Contracted
  <2>3. \A k \in Nat : \A f \in [1..k -> Contracts] : f \in Seq(Contracts) /\ Len(f) = k
    OBVIOUS
  <2> HIDE DEF n
  <2> QED  BY <1>4, <2>2, <2>3
<1>6. Contracted' = Append(Contracted, current)
  <2>1. /\ Append(Contracted, current) \in Seq(Contracts) /\ Len(Append(Contracted, current)) = n + 1
        /\ Append(Contracted, current)[n + 1] = current
        /\ \A i \in 1..n : Append(Contracted, current)[i] = Contracted[i]
    BY <1>1, <1>5, AppendProperties
  <2>2. Contracted' = [i \in 1..n + 1 |-> ledger'[i].of]
    BY <1>4 DEF Contracted
  <2>3. \A i \in 1..n + 1 : ledger'[i].of = Append(Contracted, current)[i]
    <3>1. \A i \in 1..n : Contracted[i] = ledger[i].of
      BY <1>4 DEF Contracted
    <3>2. \A i \in 1..n + 1 : i \in 1..n \/ i = n + 1
      BY <1>4
    <3> HIDE DEF n
    <3> QED  BY <1>4, <2>1, <3>1, <3>2
  <2>4. \A k \in Nat : \A s \in Seq(Contracts) : Len(s) = k => s = [i \in 1..k |-> s[i]]
    OBVIOUS
  <2> HIDE DEF n
  <2> DEFINE a == Append(Contracted, current)
  <2>5. a \in Seq(Contracts) /\ Len(a) = n + 1 /\ n + 1 \in Nat /\ \A i \in 1..n + 1 : ledger'[i].of = a[i]
    BY <1>4, <2>1, <2>3
  <2> HIDE DEF a
  <2>6. a = [i \in 1..n + 1 |-> a[i]]
    BY <2>4, <2>5
  <2>7. [i \in 1..n + 1 |-> ledger'[i].of] = [i \in 1..n + 1 |-> a[i]]
    BY <2>5
  <2>8. Contracted' = a
    BY <2>2, <2>6, <2>7, Zenon
  <2> QED  BY <2>8 DEF a
<1>7. PICK c \in Contracts : c = current
  BY <1>1
<1>8. Lifecycle!Execute(c)
  <2>1. \A i \in DOMAIN Contracted : Id[Contracted[i]] # Id[c]
    BY <1>3, <1>7 DEF Admitted, Contracted
  <2>2. Id[c] \in accepted /\ Agreed' = Agreed
    BY <1>2, <1>3, <1>7 DEF Admitted, Agreed
  <2> QED  BY <1>2, <1>6, <1>7, <2>1, <2>2 DEF Lifecycle!Execute, Contracted, Agreed
<1> QED  BY <1>8

\* Agreement is announced when the outcome is logged: outcomes follow the ledger.
LEMMA DecideAnnounces ==
  ASSUME VerdictInv, OutcomesFollowLedger', Decide
  PROVE  (\E c \in Contracts : Lifecycle!Announce(c)) \/ UNCHANGED <<accepted, Contracted, Agreed>>
<1> DEFINE told == Head(inbox["consensus"])
           o    == [of |-> told.of, reached |-> told.ok]
           n    == Len(log)
<1>1. /\ log \in Seq(Outcome) /\ UNCHANGED <<accepted, ledger>> /\ log' = Append(log, o)
  BY DEF VerdictInv, ServicesTypeOK, Decide, authVars, execVars
<1>2. o \in Outcome
  <2>1. inbox["consensus"] \in Seq(Mail) /\ inbox["consensus"] # << >> /\ told.type = "EXECUTION_RESULT"
    BY DEF VerdictInv, MailOK, Decide, Ready, Services, Needed
  <2>2. told \in Mail
    BY <2>1
  <2> QED  BY <2>1, <2>2 DEF Mail, Message, Outcome
<1> HIDE DEF o
<1>3. /\ n \in Nat /\ DOMAIN log = 1..n /\ DOMAIN log' = 1..n + 1
      /\ log'[n + 1] = o /\ \A i \in 1..n : log'[i] = log[i]
  BY <1>1, <1>2
<1> HIDE DEF n
<1>4. Agreed' = IF o.reached THEN Agreed \cup {o.of} ELSE Agreed
  <2>1. \A i \in DOMAIN log' : i \in DOMAIN log \/ i = n + 1
    BY <1>3
  <2> QED  BY <1>3, <2>1 DEF Agreed
<1>5. Contracted' = Contracted
  BY <1>1 DEF Contracted
<1>6. CASE o.reached
  <2>1. PICK c \in Contracts : c = o.of
    BY <1>2 DEF Outcome
  <2>2. c \notin Weak /\ {i \in DOMAIN ledger : ledger[i].of = c} # {}
    BY <1>1, <1>3, <1>6, <2>1 DEF OutcomesFollowLedger
  <2>3. ASSUME NEW d \in Agreed,
               NEW i \in DOMAIN ledger, ledger[i].of = d, NEW j \in DOMAIN ledger, ledger[j].of = c
        PROVE  i < j
    <3>1. PICK m \in DOMAIN log : log[m].of = d
      BY DEF Agreed
    <3>2. m \in DOMAIN log' /\ n + 1 \in DOMAIN log' /\ m < n + 1 /\ log'[m].of = d /\ log'[n + 1].of = c
      BY <1>3, <2>1, <3>1
    <3> QED  BY <1>1, <2>3, <3>2 DEF OutcomesFollowLedger
  <2>4. Lifecycle!Announce(c)
    <3>1. Lifecycle!Places(c) = {i \in DOMAIN ledger : ledger[i].of = c}
      BY DEF Lifecycle!Places
    <3>2. \A d \in Agreed : \A i \in Lifecycle!Places(d), j \in Lifecycle!Places(c) : i < j
      BY <2>3 DEF Lifecycle!Places
    <3>3. Lifecycle!Announce(c) <=>
            /\ Lifecycle!Places(c) # {} /\ c \notin Weak
            /\ \A d \in Agreed : \A i \in Lifecycle!Places(d), j \in Lifecycle!Places(c) : i < j
            /\ Agreed' = Agreed \cup {c} /\ UNCHANGED <<accepted, Contracted>>
      BY DEF Lifecycle!Announce, Agreed, Contracted
    <3> QED  BY <1>1, <1>4, <1>5, <1>6, <2>1, <2>2, <3>1, <3>2, <3>3
  <2> QED  BY <2>4
<1> QED  BY <1>1, <1>4, <1>5, <1>6

LEMMA LifecycleStep ==
  ASSUME VerdictInv, OutcomesFollowLedger', LogInv, Running
  PROVE  [Lifecycle!LifecycleNext]_(Lifecycle!lifecycleVars)
<1> SUFFICES Lifecycle!LifecycleNext \/ UNCHANGED <<accepted, Contracted, Agreed>>
  BY DEF Lifecycle!lifecycleVars, Contracted, Agreed
<1>1. CASE ReplaySubmit
  <2> DEFINE c == Head(inbox["replay"]).of
  <2>1. /\ UNCHANGED <<Contracted, Agreed>>
        /\ accepted' = accepted \/ accepted' = accepted \cup {Id[c]}
    BY <1>1 DEF ReplaySubmit, Judge, execVars, Contracted, Agreed
  <2>2. c \in Contracts
    <3>1. /\ inbox["replay"] \in Seq(Mail) /\ inbox["replay"] # << >>
          /\ Head(inbox["replay"]).type = "question"
      BY <1>1 DEF VerdictInv, MailOK, ReplaySubmit, Ready, Services, Needed
    <3>2. Head(inbox["replay"]) \in Mail
      BY <3>1
    <3> QED  BY <3>1, <3>2 DEF Mail
  <2> HIDE DEF c
  <2>3. accepted' = accepted \cup {Id[c]} => Lifecycle!Admit(c)
    BY <2>1 DEF Lifecycle!Admit, Contracted, Agreed
  <2> QED  BY <2>1, <2>2, <2>3 DEF Lifecycle!LifecycleNext
<1>2. CASE Execute
  BY <1>2, ExecuteIsOne DEF Lifecycle!LifecycleNext
<1>3. CASE Decide
  BY <1>3, DecideAnnounces DEF Lifecycle!LifecycleNext
<1>4. ASSUME NEW s \in Services, ServiceStep(s) PROVE UNCHANGED <<accepted, Contracted, Agreed>>
  <2>1. UNCHANGED <<accepted, ledger, log>>
    BY <1>4 DEF ServiceStep, Register, Listen, BreakOnDone, BreakOnSignal, authVars, execVars, LogInv
  <2> QED  BY <2>1 DEF Contracted, Agreed
<1>5. CASE Running /\ ~ ReplaySubmit /\ ~ Execute /\ ~ Decide /\ ~ \E s \in Services : ServiceStep(s)
  <2>1. UNCHANGED <<accepted, ledger, log>>
    BY <1>5 DEF Running, ExecutionStep, GiveUpDiscovery, ContractStep, Take, PropagateDone, Ask, AskFails, Hear,
       WaitTimesOut, Forward, NextContract, KeepRest, ProducerStep, ProducerSends, ProducerFails, AuthorityWork,
       TrustVerify, Answer, authVars, execVars
  <2> QED  BY <2>1 DEF Contracted, Agreed
<1> QED  BY <1>1, <1>2, <1>3, <1>4, <1>5

LEMMA LifecycleIdles ==
  ASSUME UNCHANGED <<accepted, ledger, log>> PROVE UNCHANGED Lifecycle!lifecycleVars
  BY DEF Lifecycle!lifecycleVars

LEMMA LifecycleBegins == ServicesInit => Lifecycle!LifecycleInit
  BY DEF ServicesInit, Lifecycle!LifecycleInit

\* Where an address cannot be bound twice and no contract is sent twice, the ledger and the
\* outcome file are one history that only grows: what ContractLifecycle promises, step by step.
THEOREM ServicesImplementLifecycle == ASSUME PortsOnly, SentOnce PROVE ServicesSpec => ServicesKeepLifecycle
<1>1. ServicesInit => LogInv
  BY DEF ServicesInit, LogInv
<1>2. LogInv /\ VerdictInv /\ [ServicesNext]_servicesVars => LogInv'
  <2> SUFFICES ASSUME LogInv, VerdictInv, [ServicesNext]_servicesVars PROVE LogInv'
    OBVIOUS
  <2>1. CASE \E s \in Services : Signal(s)
    BY <2>1 DEF Signal, LogInv
  <2>2. CASE UNCHANGED servicesVars
    BY <2>2 DEF servicesVars, LogInv
  <2> QED  BY <2>1, <2>2, LogKept DEF ServicesNext
<1>3. VerdictInv /\ LogInv /\ OutcomesFollowLedger' /\ [ServicesNext]_servicesVars
         => [Lifecycle!LifecycleNext]_(Lifecycle!lifecycleVars)
  <2>1. CASE Running
    BY <2>1, LifecycleStep
  <2>2. CASE \E s \in Services : Signal(s)
    BY <2>2, LifecycleIdles DEF Signal, authVars, execVars
  <2>3. CASE UNCHANGED servicesVars
    BY <2>3, LifecycleIdles DEF servicesVars, authVars, execVars
  <2> QED  BY <2>1, <2>2, <2>3 DEF ServicesNext
<1> QED  BY <1>1, <1>2, <1>3, LifecycleBegins, OrderInvariant, OutcomesInOrder, PTL
         DEF ServicesSpec, ServicesKeepLifecycle, Lifecycle!LifecycleSpec

\* It is so as well in the hands of the orchestrator, whichever process it fails, stops or kills.
THEOREM OrchestratorImplementsLifecycle ==
  ASSUME PortsOnly, SentOnce PROVE OrchestratorSpec => ServicesKeepLifecycle
<1>1. OrchestratorInit => Lifecycle!LifecycleInit
  BY LifecycleBegins DEF OrchestratorInit
<1>2. OrchestratorInv => OutcomesFollowLedger
  BY OrderFollows DEF OrchestratorInv
<1>3. OrchestratorInv /\ OutcomesFollowLedger' /\ [OrchestratorNext]_orchestratorVars
         => [Lifecycle!LifecycleNext]_(Lifecycle!lifecycleVars)
  <2> SUFFICES ASSUME OrchestratorInv, OutcomesFollowLedger', [OrchestratorNext]_orchestratorVars
               PROVE  [Lifecycle!LifecycleNext]_(Lifecycle!lifecycleVars)
    OBVIOUS
  <2>1. CASE ProcessNext
    BY <2>1, LifecycleStep DEF ProcessNext, OrchestratorInv, StartInv, LogInv
  <2>2. CASE Orchestrate \/ UNCHANGED orchestratorVars
    <3>1. UNCHANGED <<accepted, ledger, log>>
      BY <2>2 DEF Orchestrate, Launch, Monitor, OutcomeSeen, TimeIsUp, BreakOff, QueryHealth, SeeExitCode, SeeAlive,
           StopMonitoring, KeepMonitored, Terminate, Joined, Kill, Summarise, servicesVars, authVars, execVars,
           orchestratorVars
    <3> QED  BY <3>1, LifecycleIdles
  <2> QED  BY <2>1, <2>2 DEF OrchestratorNext
<1> QED  BY <1>1, <1>2, <1>3, OrchestratorInvariant, PTL
         DEF OrchestratorSpec, ServicesKeepLifecycle, Lifecycle!LifecycleSpec
=============================================================================
