# Verification of the QCG runtime

TLA+ models of the Quantum Communication Gateway: the producers and the quantum channel in front of
the gateways, the replay authority and its durable registry behind them, producer trust, consensus,
governed execution, the distributed services over their transports with the orchestrator that runs
them, the three-process pipeline, the integration harness, and the records all of them keep. TLC
checks the models on small instances; TLAPS proves their safety properties for every value of the
constants.

`PROJECT.json` is the index: which lines each definition models, what each run checks, which
changes of a definition break each property, the hazards and where they bite.

## 1. Inventory

### The core: who may execute what, and once

| Component | State | Operations | Hard behaviour | What makes it correct |
|---|---|---|---|---|
| **Replay registry** `replay_registry.py` | `_entries`, `_sequence_counter`, one lock, a JSON file replaced through a `.tmp` | `submit`, `reset`, `_persist`, `_load` | two threads between check and assignment; a write that fails with memory changed; a crash between any two steps; a damaged file | a message is accepted once, numbers only grow, an answered acceptance survives a restart, the lock always comes back |
| **Replay authority** `canonical_replay_authority.py` | the registry, and `_all_verdicts`, `_lineage` written after the lock has gone | `submit`, `lookup`, `lineage`, `sequence_status`, `verification_report`, `reset` | records stored in another order than their numbers; reports in between | lineage is the acceptance log; reports do not contradict the registry |
| **Gateways** `gateway.py`, `hybrid_gateway.py` | a token bucket each, the shared authority, a capacity | `send` with `Receiver.receive`, `transmit` with `industrial_endpoint`, `Receiver.reset` | capacity check, eviction and submission are three calls; exceptions at any of them | one ACK per message and memory; an ACK is durable; every request answered |
| **Producer trust** `producer_verification.py` | producers with key and types, revoked keys, a JSON file whose write errors are swallowed | `register`, `revoke_key`, `_load`, `_save`, `verify` in four checks; first contact in the trust service | keys replaced or revoked between two checks of one call; failed saves; damaged files | a revoked key does not register, pass or, once saved, come back |
| **Consensus engine** `consensus_simulation.py` | nodes, attestations of one call | `run_consensus` | faulty and missing nodes, ties, rounding | agreement only on an honest hash with the quorum behind it; dissenters named with the right reason |
| **Distributed services** `runtime_services.py`, `transport.py`, `capability_registry.py` | five processes, their sockets and queues, the capability table, the shutdown event, the evidence ledger and the outcome file | register, discover, the receive loops, question and answer, DONE, signals | answers that come after the timeout, reply listeners left open, peers that end, one-connection receivers | executed at most once and on its own verdict; outcomes follow the ledger; every loop ends |
| **Orchestrator** `service_orchestrator.py` | the process table, `crashes`, `pipeline_ok` | launch, monitor, terminate, summarise | a process that ends between two looks at it; dependencies stopped before dependents | it always returns, leaves nothing running, and calls ok only what is ok |
| **Process pipeline** `process_runner.py`, `producer_process.py`, `execution_process.py`, `consensus_process.py`, `network_ipc.py` | three processes, one connection between each two, the runner's process list and exit codes | boot, put, get, heartbeat, terminate, summarise | a stage killed or failing at any step; the end of a stream read as DONE; sends that fail in silence; a poll that comes before the boot | the runner returns; a run it calls ok brought its proof; agreement is reported on executed contracts alone |

### Around the core

| Component | State | Operations | Hard behaviour | What makes it correct |
|---|---|---|---|---|
| **Producers** `quantum_producer.py`, `translation_layer.py`, `adapters.py`, `gateway.py`, `degraded_runtime.py` | none | encode, transmit, translate, adapt, produce, choose a posture | a reading that mismatches; a message with blanks; a tie of two contracts | what failed its verification is not acknowledged; the posture agrees with the gateways |
| **Governed nodes** `runtime_core.py`, `execution_contract.py`, `governance.py`, `distributed_simulation.py` | violations, bounded; a hash chain for each node | `validate_contract`, `execute`, `enforce`, the run over all nodes | layer and core validate against different settings; nodes that are set differently | whatever is halted is noted; agreement on two hashes is agreement on every entry |
| **Integration harness** `integration_harness.py`, `web_server.py` | replay registry, trust registry, counters | `process_incoming_contract` in six phases | a phase that fails after an earlier one has written; a producer that comes back with another key | COMPLETED is given once per trace, on a signature of the producer's key |
| **Replay enforcer** `replay_enforcer.py` | a dict with times, a counter, one lock | `submit`, `_evict`, `reset` | a clock read before a wait for the lock; the limit reached with nothing expired | what is accepted again had been dropped |
| **Trace store** `observability.py` | a bounded deque, a counter, one lock | `record`, `query`, `reconstruct_replay`, export, `clear` | copies that grow old; dropped entries; numbers across a clear | numbers tell the recordings; a reconstruction is the recorded path |
| **Transport** `transport.py` | a socket, a breaker, a receiver's queue and its one connection | `put`, `get`, `connect`, `close` | frames cut by a timeout, dead sockets, one connection a life | what is heard was written, once and in order |
| **Capability registry** `capability_registry.py` | a table in memory | register, discover, stop, start; the end of its process | an answer that is lost though the table was written; a table that outlives the server | discovery tells the last registration |
| **Audit trail** `audit_trail.py` | entries and a Merkle tree updated in place | `append`, proofs, `verify_integrity` | padding at odd levels; entries changed behind its back, and appends after that | the tree is the one built anew; a proof verifies for its leaf alone; nothing passes that was not appended |
| **Evidence ledger** `evidence_ledger.py`, `execution_record.py`, `provenance_api.py` | records and a head | `append`, `verify_chain`, lineage, certificate | altered records, looked up by id; a link that may be left out | a certificate states what was appended; an alteration shows |
| **Custody** `trust_chain.py`, `replay_bundle.py`, `provenance.py`, `node_identity.py`, `ecosystem_participation.py` | keys, handoffs, a bundle with a stored verdict | sign, hand off, verify, assemble | a node that starts again with a new key; fields changed or stripped after signing; a verdict that outlives its bundle | what verifies was signed, by every holder in turn |

Not modelled: the numerical quantum modules (floating point and a simulator, no state between calls);
`distributed_runner.py` (a sequential script over the pipeline); declarations and doctrines (tables, and
checks of one object against them, that no service calls); proof scripts; configuration; tests and
deployment files. `PROJECT.json` gives the reason for each, and for what the partly modelled ones leave out.

### How they interact

The gateways call one authority object (it is injected; sharing it is what their constructors
allow), which calls its registry; those are function calls between threads of one process that
share the registry's lock and nothing else. The services talk over connections: the producer finds
execution through the capability registry and sends contracts and DONE; execution binds a reply
listener, asks replay, binds another, asks trust, executes on the runtime core, appends to its
ledger, and sends the result to consensus, which writes the outcome file that the orchestrator
watches. The orchestrator sees its processes only through `is_alive`, exit codes, a health query
and that file. The harness calls a replay registry, the trust registry, the core and the consensus
engine one after the other, for one request at a time. Audit trail, ledger, trace store and bundle are
written by these and read by auditors; no decision about a contract reads them.

## 2. Modules

| Module | Models | How it corresponds to the code |
|---|---|---|
| `ReplayLedger` | the promise of the registry | acceptances are appended, no message twice, numbers grow; `GiveUp` starts a new ledger |
| `ContractLifecycle` | the promise of the programs that run contracts | a trace id is admitted, a contract executed under an admitted id and no id twice, agreement announced in the order of execution; nothing is taken back. `Services` (with and without `Orchestrator`) and `Pipeline` refine it |
| `ReplayRegistry` | `replay_registry.py` | one thread step per point at which another thread, an I/O error or a crash can come: clock, lock, lookup, assignment, `.tmp` write, rename, return. `entries[m]` is the sequence number of `m` in the dict, 0 if it has none. Refines `ReplayLedger` (`KeepsLedger`) |
| `ReplayAuthority` | `canonical_replay_authority.py` over `ReplayRegistry` | the two unlocked dict writes are steps; an insertion-ordered dict is a sequence; a restart starts with empty dicts and a loaded registry; the registry may be emptied over its head, as `Receiver` does |
| `Producers` | channel, translation, adapters, producers, posture | functions of a transmission or a classical result; confidences in twentieths; a uuid5 is the tuple of its parts |
| `Gateways` | both gateways over `ReplayAuthority` and `Producers` | a request goes through its token bucket, capacity check, eviction, submission and delivery, each a step, with every step of the authority and registry below it interleaved |
| `ProducerTrust` | `producer_verification.py` and `runtime_services.py:339-354` | each locked method is a step, each check of `verify` another; a signature verifies when the contract's signer is the key read |
| `Consensus` | `consensus_simulation.py` | the loop over the nodes in list order, one vote a step, then the count; hashes are values for honest, faulty and empty |
| `Governance` | core, contract validation, governance layer, node simulation | a contract's way through a node; a ledger's hash is the sequence of what it hashes |
| `Harness` | `integration_harness.py`, `web_server.py`, over the three above | a request is one step: the endpoint is a coroutine without an await. The write of the replay registry may fail, which is answered ERROR with the trace id used |
| `Services` | `runtime_services.py`, `transport.py`, capability lookup | one action per point at which a loop can be overtaken: receive, ask, hear, time out, execute, forward, answer, break. A connection puts its messages and, except over HTTP, a Done for its end into the listener's inbox. Refines `ContractLifecycle` (`ServicesKeepLifecycle`): admitted is what the replay service has accepted, executed the evidence ledger, announced the agreements in the outcome file |
| `Orchestrator` | `service_orchestrator.py` over `Services` | every step of a service (`ProcessNext`) interleaves with every step of `run_distributed_pipeline` |
| `Pipeline` | `process_runner.py`, the three process modules, `network_ipc.py` | a stage boots, takes a message, puts what it has to put, closes and exits; `Exit` ends its connection, which the receiver reads as Done. The runner polls a snapshot of the live processes one by one. Refines `ContractLifecycle` (`PipelineKeepsLifecycle`): announced are the proofs that have come to the runner |
| `SocketTransport` | one sender and one receiver of `transport.py` | bytes as lengths and bodies on a wire; breaker, dead socket, timeouts inside a frame. ZeroMQ without its library is its TCP fallback: its first `put` connects and then fails on a socket it does not have |
| `ReplayEnforcer`, `TraceStore`, `CapabilityRegistry` | the files of these names | what runs under a lock is a step; what is read in front of it is kept by the thread |
| `AuditTrail`, `EvidenceLedger`, `Custody` | chains, trees, signatures | a digest is what it is made of, so equal digests are of equal things. The ledger has no lock and one writer, the execution service, which takes the head and appends at once (`runtime_services.py:606-610`): a call is one step |
| `MC*` | | the instances: messages, contracts, scripts, requests, symmetry |
| `*Proofs` | | the theorems, section 5 |

Definitions introduced by a comment that begins with "Mutant" are alternatives to the definition
that follows. No specification uses them; each stands for a plausible bug and shows, when put in
place of the definition it varies, that a property can fail.

What the models take from the environment: a write fails or not, a process dies at any step, a file
is damaged, a message is slow, a signal arrives, time passes, a record is changed behind a component's
back. Each is an action or an alternative of one, bounded by a constant or chosen by the run. What they
leave out everywhere: wording of logs and answers, metrics, health payloads, timestamps beyond their
order against a window.

Simplifications to know of. `Services` lets a dependency be late only as a fault, so a run without
faults is one in which timeouts are longer than the work they wait for. It answers a verified contract
with agreement in one step; that the engine does so is what `Consensus` shows. Every sender of the
services is made for one message and fails once at most, so the breaker, which opens after five
failures of one sender, never refuses anything there; `SocketTransport` has it. In `Orchestrator` the
capability registry's process is taken as up. `Consensus` computes with fractions where the
code compares a floating-point quotient and takes the ceiling of a floating-point product. The comparison is
exact all the same, since the quotient is rounded as the threshold is. The product may come out above a whole
number, and `quorum_size` one too high: computed for every threshold of up to three decimals above one half,
that happens first with 25 nodes (0.56), and the engines here have three or four. Digests, uuids and signatures do not collide. With noise
the simulator may give any counts; without, it gives what the circuit computes.

## 3. Runs

"pass" runs find no error; "violation" runs end with a counterexample to something the repository
says of the code. `verification` and `records` explore several modules that share no state in one run:
each behaviour is about one of them, chosen in the initial state, so their state spaces add up and are
not multiplied.

| Run | Instance | Shows |
|---|---|---|
| `replay` | 2 threads, 2 messages, fresh or stale; failing writes, crashes, damage, resets | `AcceptedOnceInOrder`, `AcceptedIsDurable`, `NumberingDense`, the refinement of `ReplayLedger`, and `AccountIsTheRegistrys`: lineage, lookup and reports of the authority tell what the registry decided |
| `gateways` | 2 threads, messages as the producers make them, through both gateways, clean, noisy and invalid; capacity 1, burst 1 with a refill, one receiver reset, failing writes | `AckedOncePerMemory` (with the durability of an ACK), `EveryRequestAnswered` |
| `verification` | trust: 2 producers, 2 keys, a thread that registers on contact, one that verifies, 2 administrative calls, 2 faults. Consensus: 5 nodes, any faulty, any missing, two calls. Nodes: 3, four settings, seven contracts in batches of 2. Harness: 8 requests, 4 handled | `RevokedNotRegistered`, `PassedUnrevoked`, `RevocationSurvives`; `NeverOnFaulty`, `QuorumDecides`, `DissentersNamed`; `HaltsAreNoted`, `AgreementIsOnEveryResult`; `CompletedIsEarned` |
| `records` | enforcer, traces, transport, capabilities, audit, ledger, custody, each at its limit | `AcceptedOnceUnlessDropped`; `NumberedByRecording`, `ReconstructsRecordedPath`; `HeardAsWritten`; `DiscoversTheLatest`; `TreeTellsTheTrail`; `CertifiedAsAppended`, `AlterationsShow`; `CustodyWasHandedOn`, `VerifiedIsAsSigned` |
| `services` | scripts of one or two contracts: good, another good one, retried, stale, untrusted, weak; TCP and HTTP; two faults | `ExecutedOnOwnVerdict`, `OutcomesFollowLedger`, `Served`, `LoopsEnd`, the refinement of `ContractLifecycle` |
| `orchestrator` | one contract, good or stale; a crash of any service or none; TCP and HTTP | `OkIsEarned`, `RunEnds` |
| `pipeline` | one contract, two, one sent twice, a refused and a weak one; a crash of any stage or none; a registry write that raises | `OkHasProof`, `PipelineEnds`, the refinement of `ContractLifecycle` |
| `corrupted` | one thread, one of each producer's requests, no capacity limit met | a reading that failed its verification is acknowledged |
| `eviction` | one thread, the producers' requests, capacity 2 | "evicting oldest" clears everything |
| `unjudged_uds` | the services over UDS | a late answer about one contract is taken for the verdict on the next |
| `normal_run` | the pipeline without a crash, within its time | the first poll takes a process that is still starting for a dead one and terminates it |
| `half_open` | one TCP sender, a breaker that opens at the second failure | the first message after the recovery time opens it again though the receiver is back |

**Why the bounds suffice.** The registry's races are between two threads: the lock makes a third
wait like the second. Of two messages one can be in the file, in memory alone or in flight while the
other is accepted, refused or fails; they are interchangeable. The age takes one value on each side of
the TTL. One capacity below the number of messages makes the eviction run. The requests of `gateways`
reach every answer of both entries. Two contracts on a connection are what it takes for a late answer to
meet the next question, and for two outcomes to come in the wrong order; a third would meet the same listener again. Two faults allow a fault and a second
one while the first is being handled. Five nodes are more than any caller in the code makes (three to
four), with one to spare for a faulty and a missing one at once. The contracts of `trust` include two
producers that share a key, one that changes its key, and one signed with another key than it carries. The
limits in `records` are the smallest at which a limit is met with something to lose: two of three entries,
three artifacts in a cache of three, a breaker at two failures. Audit trees are compared with the rebuilt
one for 0 to 18 leaves, which passes each shape of padding over five levels and the first of a sixth; six
entries are enough for a trail of four levels that is altered and goes on. The wire carries
TCP, UDS, HTTP, gRPC and ZeroMQ; NATS is a wrapper of TCP as gRPC is, whose first `put` connects as that of TCP
does. The proofs of section 5 need none of these bounds: what remains theirs alone is liveness.

**Fairness.** A thread inside a gateway call keeps running (weak fairness of its steps); the token buckets
bound the calls, so nobody is kept from the lock for ever; no caller is made to call. In `Services` each
loop runs in a process of its own and is weakly fair by itself; its timers are part of it, so a wait ends in
an answer or a timeout. No fairness is put on faults and signals. In `Orchestrator` the loop reads the clock
in each round, so among endlessly many rounds the time is up in one: strong fairness of the three actions
that leave the loop. `join(timeout=2)` ends by itself; `Kill` is possible exactly where the code may wait
longer than the two seconds. In `Pipeline` each process is weakly fair; the runner reads the clock once a
round, hence strong fairness of `TimeoutExceeded`. A sender may give up on a listener that is not bound,
whatever the reason, since it tries for ten seconds only. `SocketSpec`, which has no fairness of its own,
refutes an action property alone.

**Deadlock** is checked except where a system comes to its end: the services, the orchestrator and the
pipeline stop, and what the modules of `verification` and `records` do is bounded in number.

## 4. Disagreements between the code and what is said of it

The violation runs show five; each is quoted in `PROJECT.json` under `findings`. Others met on the way,
described here.

Replay and gateways:

- `canonical_replay_authority.py:202` takes the last key of `_lineage` for the last sequence number,
  where `lineage()` (193-194) sorts: after two concurrent submissions whose unlocked writes swap, the
  status names an earlier number. `ReportCounts` states what remains true.
- `docs/failure_doctrine.md:86` promises no partial state after a gateway error; an entry made before the
  write failed (`replay_registry.py:135`) stays in memory, so the retry is answered as a replay. Line 34 says
  of a rejected translation that no replay entry is created: `gateway.py:197` submits before it looks at the
  status.
- The message id that `send` is given for a transmission and the trace id `transmit` computes for the same one
  are made of different parts (`gateway.py:64`, `translation_layer.py:56-58`): a shared authority does not see
  that it is one message.
- The channel encodes the stripped message, the translation verifies it with its blanks
  (`models.py:16-23`, `hybrid_gateway.py:140-142`): `"PING "` is read correctly and rejected.
- The superdense circuit returns its two bits mirrored, so without noise exactly the messages of bits 00 and 11
  decode (`CleanMismatchIsAcknowledged`).
- Identifiers leave out part of what they identify: a classical trace id omits the metadata
  (`adapters.py:201`), a quantum one shots and mode, so results that differ only there are refused as replays.
- The header of `degraded_runtime.py` (75-78) holds every action above noise 0.5; the code does so only when the
  status is not OK (`PostureAgreesWithAck`).

Services, orchestrator, pipeline and transport:

- After a timed-out question over TCP or HTTP the reply port stays bound and every further contract
  fails at its bind: safe, but no service until a restart.
- Over TCP and UDS a receiver accepts one connection in its life and returns its end as DONE
  (`transport.py:143-155`), at which every service loop breaks: the second contract of a producer gets no
  outcome, and does over HTTP, though the transports are meant to be replaceable (`transport.py:2-3`).
  `Served` states what each transport gives.
- `FAILURE_RECOVERY_GUIDE.md:9-11` relies on the circuit breaker: only the TCP sender has one, and the services
  make a new sender for each message, so theirs never opens. The UDS sender keeps a dead socket. The HTTP
  sender retries a `URLError` alone: a late answer raises `TimeoutError` and is not retried.
- A service that ends normally between `is_alive()` and the health query (`service_orchestrator.py:160-164`)
  is recorded as crashed with -1, and fails a run whose outcome was reached. The orchestrator terminates
  dependencies before the services that depend on them.
- `review_packets/PHASE3_REVIEW_PACKET.md:162` says a producer crash gives `crashes={"producer":1}`: execution
  waits for a connection that does not come, and it and consensus are terminated when the time is up and
  reported as well. `producer_process.py:18` says the runner detects the absence of DONE; it does not look
  for it.

Trust, execution and harness:

- "Revoked permanently" (`producer_verification.py:142`) does not survive a restart when the save was
  swallowed (114). `RevocationSurvives` is the part that holds. A producer met for the first time is
  registered with the key it sends, where `docs/ECOSYSTEM_INTEGRATION.md:15` says that it "MUST register".
- `runtime_core.py:100-101` describes a per-instance replay guard that the code has no longer; line 115 says
  "Never raises", but a confidence that is not a number raises `TypeError`.
- A layer whose allowed types or versions are wider than those of `config` lets a contract through that the core
  then halts, and no violation is recorded for it.
- The harness answers COMPLETED without looking at the consensus result (`integration_harness.py:125-137`). A
  payload that carries `issued_at` beside the fields of a contract is refused as malformed or stale.

Records:

- The execution graph (`provenance_api.py:98-104`) compares an execution hash with a chain hash, so every parent
  is GENESIS. The hash stored by the execution service is the digest of the execution id, so that
  `verify_execution` fails for all of them.
- `audit_trail.py:5` calls any deletion detectable. `_rebuild_tree` counts the leaves by the length of the list
  (242): delete the second of two entries, append another, and the padding it takes off (249) is the leaf of the
  deleted one. List and tree agree again, the numbers are
  contiguous, and `verify_integrity` passes. `TreeTellsTheTrail` says what holds up to an append by
  a list of another length (`miscounted`), and that even after it nothing passes that was never appended.
- `audit_trail.py:149-151` promises that any edit changes the root; an edit of `event_data` does not, since the
  leaf holds `event_hash` and nothing computes it again (`TreeTellsTheTrail` states what is covered).
- A reconstruction is called valid over what the deque still holds (`observability.py:118-131`).
- The verdict stored in a bundle stays PASS after a change until the next `verify()`; `VerifiedIsAsSigned` says what
  it is still worth. A contract that was stripped of a signature or of its producer is UNVERIFIED, as one that was never
  signed (`provenance.py:75`): only VERIFIED says something of what was signed.

## 5. Proofs

Eight modules prove 57 theorems listed in `PROJECT.json` and the lemmas they rest on: every invariant, every
action property and every refinement the passing runs check, and two invariants that the runs check only as part of
the refinement of `ContractLifecycle` (`ExecutedOnce`, `ProofIsBacked`). Where there is state,
each theorem follows from an inductive invariant with a name, one step or one lemma for each action. The
assumptions are those of the modules on their constants, and four that are hypotheses of the theorems that
need them:

| Hypothesis | Says | Why |
|---|---|---|
| `PortsOnly` | no UDS among the transports | `UDSReceiver` unlinks the path and binds again, so an old question's answer can reach the next listener: run `unjudged_uds` shows that the verdict properties fail there. TCP and HTTP, which bind a port, cannot |
| `SentOnce` | no script of the producer has a contract twice | a name for each sending: a contract sent again is another member of `Contracts` with the same trace id (`retry` in the run), so that the outcome file can be compared with the script |
| `OneContract` | a script has one contract at most | `OkIsEarned`: what `run_producer_service` does, and what `run_distributed_pipeline` runs |
| `OneIdPerName` | two capabilities have one id exactly if they have one name | `DiscoversTheLatest`: each service of `runtime_services.py` registers under an id and a name of its own |

**Registry and authority** (`ReplayRegistryProofs`). `RegistryInv` adds to the type invariant: the thread that holds
the lock is the one inside the critical section (`LockDiscipline`); calls carry messages
(`CallsCarryMessages`); memory, file and a write under way hold every acceptance (`HoldsGrants`,
`WriteInProgress`); acceptances increase (`GrantsIncrease`). The strengthening is needed because the
promise is made at the return of a call and kept by a write two steps before: between them only the
thread's private state says that file and memory agree. From it follow type correctness,
`AcceptedOnceInOrder`, `AcceptedIsDurable`, the refinement of `ReplayLedger` and `NumberingDense`, for any
number of threads and messages, any TTL and any combination of faults. Since the authority and the gateways run
nothing but the registry, the refinement holds under them too (`AuthorityImplementsLedger`; `GatewaysImplementLedger`, for one life of the
process of the gateways, which have neither restart nor damage).

The authority only runs the registry (`AuthorityUsesTheRegistry`), so all of this holds under it. `AccountInv` is
about what it writes after the lock has gone. While the registry has not been emptied over its head:
the records issued have increasing numbers, and each stands in `entries` (`IssuedOK`); a verdict names the number
the registry has (`VerdictsOK`); the lineage holds issued records alone, a message once, and an issued record it
does not hold is still carried by the thread whose answer is VALID (`LineageOK`, `ThreadOK`, `StageOK`). Hence
`AccountIsTheRegistrys`: sorted, lineage is the acceptance log without what is still being carried. The sorted
arrangement is stated as the sequence of those elements in that order; that there is one, and one only, is a lemma.

**Gateways** (`GatewaysProofs`). Each step of a gateway is a step of the registry or leaves it alone
(`GatewaysUseTheRegistry`), so `RegistryInv` holds behind the gateways. `GatewaysInv` adds where the registry
call of a thread stands while its gateway call waits (`Carries`); for each message, that the ACKs given and the
submissions that may still be answered VALID are together no more than the clearings, plus one if memory holds the
message (`Counted`); and that before the first clearing memory holds what the file holds and the file what
is or will be acknowledged (`Durable`). The count needs the pending submissions: an ACK is given two steps after
the lock has gone, and a clearing may come in between. Then `AckedOncePerMemory` holds for any finite set of threads,
any requests, capacity, bucket size, failing writes and resets. Three theorems without state relate the circuit,
the translation, the adapters, the posture and the gateways' answers, for every message and every threshold:
`CleanMismatchIsAcknowledged`, `HybridLeadsWithTheBetter`, `PostureAgreesWithAck`.

**Services and orchestrator** (`ServicesProofs`). `VerdictInv` says of the reply listener what makes an answer the right
one (`ReplyOK`): it is bound only where none is, and while it is bound there is at most one question under way or
one answer to it, and both are about the contract in hand. A late answer thus finds the listener it was meant for,
which execution has left open, and execution cannot bind another. With what the connections carry (`MailOK`) and
what the authority has cleared (`ClearedOK`), `ExecutedOnOwnVerdict` and `ExecutedOnce` follow under `PortsOnly`, for one run of the services: a
service that has crashed or ended does not start again in it.
`OrderInv` follows the contracts from the producer's script over the inboxes to the outcome file: in each place, and
from one place to the next, they stand in the order of the script. This gives `OutcomesFollowLedger` under `PortsOnly`
and `SentOnce`. The refinement of `ContractLifecycle` (`ServicesImplementLifecycle`, `OrchestratorImplementsLifecycle`)
takes each step in turn: only the replay service admits, only `Execute` executes, and its id is an admitted one that
the ledger does not hold yet (`ExecutedOnce` after the step); only `Decide` announces, and what it logs is
executed, not weak, and later in the ledger than all agreements logged before (`OutcomesFollowLedger` after the
step). The outcome file is emptied when consensus starts; `LogInv` says that nothing has been written by then. The
orchestrator's `OkIsEarned` needs in addition that nothing is sent in a run with a process that
crashed at its start (`StartInv`), that the loop is left without a complaint only for an outcome (`EarnedInv`), and
`OneContract`.

**Trust, harness, nodes** (`VerificationProofs`). `TrustInv` consists of `MemoryOK` (types, no revoked key registered in
memory or file) and `CallsOK` (what a call has read at each of its steps). The argument for
`PassedUnrevoked`: the revoked set only grows in a process's life, so a key not in it when looked up was
not in it when the call began; a restart ends all calls. `RevocationSurvives` is an action property from the same
invariant. `HarnessInv` says what a completed flow leaves behind: its trace id in the replay registry for good
(`LeftOK`), its key registered for its producer unless it has been revoked since (`Earned`), a counter that counts
(`CountedOK`). `NetworkInv` says that after q rounds and r nodes the first r nodes have met q + 1 contracts and the
others q (`TurnIs`), and gives each node's ledger and violations as a function of these contracts and the node's settings
(`NodeOK`). Then `HaltsAreNoted`, up to the bound on the violations; and `AgreementIsOnEveryResult`, since a
hash is the chain of all entries before it.

**Consensus** (`ConsensusProofs`). The lemmas `QuorumIsThreshold` (the ceiling and the comparison of the
percentage agree for every count), `TwoQuorums` and `UniqueAgreement` (two sets that meet the threshold
share a node, so the order in which a tie is broken never decides) need only that the threshold lies above
one half and is at most one, which `config.validate` enforces. `LoopInvariant` says what the attestations are
at each place of the loop. From these follow `NeverOnFaulty`, `QuorumDecides` and `DissentersNamed` for
every finite set of nodes, every threshold and every contract.

**Pipeline** (`PipelineProofs`). `PipelineInv`: every message in every outbox and inbox, and the one the runner
reports, claims no more than has been executed (`BackedMessage`), and the replay authority knows every
executed contract. A success is claimed first by the step that executes; all other steps move or lose
messages. From it follows `ProofIsBacked` for any contracts, scripts, crashes and faults. `OkHasProof` needs that
nothing is lost on the way, which is `WayInv`: while no stage has been lost, each contract is accepted, under way to
execution or still to be sent (`StreamOK`); of all that is under way, what is nearest to the runner is about the
first contract (`FirstOK`); a stage goes through only after the end of its stream, and its listener is there until
then (`StartsOK`, `EndOK`). So when the exit codes say that all three went through, everything has come.
The refinement of `ContractLifecycle` (`PipelineImplementsLifecycle`) needs `OrderOK`: along the way from the execution
process to the runner (two outboxes, two inboxes) the messages that claim a success stand in the order of
their executions, within each queue and from one queue to the next. A stage puts an answer only when it has nothing
left to put, and an answer claims no more than the message it answers; a queue that loses its end, or all of it, stays
in order. So a proof that arrives is of a later execution than all that have arrived. Unlike `OkHasProof` it holds
in every run, whatever was lost.

**Records** (`RecordsProofs`), a section for each part.
- Enforcer: an artifact that was accepted is in the cache or was dropped from it (`EnforcerInv`).
- Trace store: an entry that waits has no number and the counter is the number of the recordings (`TraceInv`,
  with `KeptIsSuffix`: what an append to a full deque leaves). `PathInv`: a reader's copy is the end of what had been
  recorded at its time; stage and number put its entries of a trace into one order, which is that of the recorded path.
- Ledger: each record was appended on the head of its time and the hashes are those of the appended records
  (`ChainKept`), whatever became of the list; so a record that differs from what was appended no longer has the hash
  stored for its place, and a certificate tells whether it does (`CertificatesTell`).
- Custody: every handoff made was the next one of the route, and a link of the chain is one of them but for its
  destination (`ChainOK`); contract and bundle carry the signatures that were made over what was signed, or, the contract,
  none (`ContractOK`, `BundleOK`); a stored PASS was given to the bundle as it was signed (`ReportOK`). The route visits no node twice.
- Capability registry: the dict has one entry for each id and holds the last valid payload of each
  (`EntriesKept`).
- Transport: for each connection, what was written is what was read, what is half read and what is on the wire, in this
  order (`ConnsOK`), and where in a frame the reader stands (`GetOK`). After a timeout inside a frame the
  statement weakens, as `HeardAsWritten` does, to no message made up, repeated or out of turn.

**Audit trail** (`AuditTrailProofs`). The model builds a tree level by level in recursive functions; the proofs hold for
any number of leaves. `Tower` says of a list of levels that each is made of the one below, up to a root;
a tree has one tower (`TreeHasTower`, `TreeOfTower`). From level to level: the update in place of
`append` makes the tower of the longer list (`RenewalsClimb`, `WithLeafIs`); joining a leaf with the
siblings of its proof gives the nodes above it (`ProofLeads`); equal nodes at one level have equal nodes below
them (`AboveTells`), so a root tells its distinct leaves (`RootTells`). What would be an induction over the levels is
written as an argument about the least level at which the statement fails. `AuditInv`: until an append has
counted by a list of another length, the tree is that of the entries as they were appended, and these stand in the
trail with their number; and at any time no leaf of the tree is of an entry that append has not made. From it
`TreeTellsTheTrail`, at every length and for any number of changes behind the trail's back.

**The parts together.** The runs `verification` and `records` explore several modules in one state space.
`VerificationRunsItsParts` and `RecordsRunsItsParts` say that a history of such a run is a history of each part's own
specification, so that what is proved of a part holds in it: in `verification` of the trust layer only where the
harness is not the one explored, because the harness works on the same registry, and then of the harness. From
these and the type theorems of the parts follow `VerificationTypeOK` and `RecordsTypeOK`.

**Model-checked only.** All liveness (`EveryRequestAnswered`,
`Served`, `LoopsEnd`, `RunEnds`, `PipelineEnds`): fairness and ENABLED are outside the prover. Over UDS nothing is
proved of the services. The prover does not know `SelectSeq` and `SortSeq`; `Query`, `Lineage` and `Chain` are
therefore defined by the set of what is kept and the one arrangement in order, and lemmas (`SortedOrder`, `Sorting`)
show that there is such a one.

## 6. Order of the work, and what is left

By importance: what may execute, on whose word, and once (`ReplayLedger` to `Gateways`, `ProducerTrust`, `Consensus`,
`Services`); the programs that run it (`Orchestrator`, `Pipeline`); what stands in front and around (`Producers`,
`Governance`, `Harness`); what is kept of it (the modules of `records`).

Left: `SocketTransport` is explored on its own. `Services` keeps its coarser connections, since frames multiply its
states beyond what can be explored, and the step from one to the other is argued in section 2, not proved.
