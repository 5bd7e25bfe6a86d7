-------------------------- MODULE VerificationProofs --------------------------
(***************************************************************************)
(* Theorems about the producer registry and its vetting calls, the         *)
(* integration harness and the simulated network, for any producers, keys, *)
(* contracts and threads, any faults, and any requests, revocations and    *)
(* settings.                                                               *)
(*                                                                         *)
(* The registry's invariant has two parts: what its own critical sections  *)
(* keep (MemoryOK), and what a call has read so far (CallsOK).             *)
(*                                                                         *)
(* The harness's remembers what the histories leave behind in the          *)
(* registries: the trace id of every fresh request is in the replay        *)
(* authority's memory, and the key of a completed flow is the one its      *)
(* producer is registered with, unless it has been revoked since.          *)
(*                                                                         *)
(* Then the simulated network, whose nodes take the contracts in turn:     *)
(* after q rounds and r nodes of the next one, the first r nodes have met  *)
(* q + 1 contracts and the others q, each under its own settings; an       *)
(* entry's hash is the chain of all entries up to it; and a log is what    *)
(* its layer last noted, up to its bound.                                  *)
(*                                                                         *)
(* Last, these and the consensus engine as one run explores them: a        *)
(* history of the four together is one of each.                            *)
(***************************************************************************)
EXTENDS MCVerification, ConsensusProofs

-----------------------------------------------------------------------------
(* The producer registry and its callers.                                  *)

Registries == [Producers -> Entries]

\* Memory and file hold no revoked key, and agree unless a save or the file failed.
MemoryOK ==
    /\ registry \in Registries /\ revoked \subseteq Keys
    /\ file \in [registry : Registries, revoked : SUBSET Keys]
    /\ lost \in BOOLEAN /\ admin \in 0..MaxAdmin /\ faults \in 0..MaxFaults
    /\ RevokedNotRegistered
    /\ ~ lost => file = [registry |-> registry, revoked |-> revoked]

Steps == Ended \cup {"vet", "register", "compare", "identity", "key", "revocation", "types"}

\* A call under way has a contract; revocations it must heed are still in force.
VettingOK(t) ==
    /\ step[t] # "idle" => contract[t] \in Contracts
    /\ revokedBefore[t] \subseteq revoked
    /\ step[t] \in {"types", "passed"} =>
          keyRead[t] = contract[t].signer /\ keyRead[t] \notin revokedBefore[t]

CallsOK ==
    /\ step \in [Threads -> Steps]
    /\ contract \in [Threads -> Contracts \cup {NoContract}]
    /\ keyRead \in [Threads -> Keys \cup {Nothing}]
    /\ revokedBefore \in [Threads -> SUBSET Keys]
    /\ \A t \in Threads : VettingOK(t)

-----------------------------------------------------------------------------
(* The registry.                                                           *)

\* The entry of a producer that has none is no key's entry.
LEMMA EntryKeys ==
    /\ NoEntry \in Entries /\ NoEntry.key = Nothing
    /\ \A k \in Keys, ts \in SUBSET Types :
          [key |-> k, types |-> ts] \in Entries
    /\ \A e \in Entries : e.key \in Keys \cup {Nothing}
  BY DEF NoEntry, Entries

LEMMA MemoryInit == ASSUME TrustInit PROVE MemoryOK
<1>1. /\ registry = Unknown /\ revoked = {} /\ file = [registry |-> Unknown, revoked |-> {}]
      /\ lost = FALSE /\ admin = 0 /\ faults = 0
  BY DEF TrustInit, EmptyFile
<1>2. Unknown \in Registries
  BY EntryKeys DEF Unknown, Registries
<1>3. file \in [registry : Registries, revoked : SUBSET Keys]
  BY <1>1, <1>2
<1>4. RevokedNotRegistered
  BY <1>1 DEF RevokedNotRegistered
<1>5. lost \in BOOLEAN /\ admin \in 0..MaxAdmin /\ faults \in 0..MaxFaults
  <2>1. lost \in BOOLEAN  BY <1>1
  <2>2. MaxAdmin \in Nat /\ MaxFaults \in Nat  BY TrustAssumption
  <2> QED  BY <1>1, <2>1, <2>2
<1>6. file = [registry |-> registry, revoked |-> revoked]
  BY <1>1
<1>7. registry \in Registries /\ revoked \subseteq Keys
  BY <1>1, <1>2
<1> QED  BY <1>3, <1>4, <1>5, <1>6, <1>7 DEF MemoryOK

\* A critical section that leaves no revoked key registered, and saves, keeps the invariant.
LEMMA SaveKeeps ==
  ASSUME MemoryOK, Save, registry' \in Registries, revoked' \subseteq Keys,
         \A p \in Producers : registry'[p].key \notin revoked', admin' \in 0..MaxAdmin
  PROVE  MemoryOK'
<1>1. CASE /\ file' = [registry |-> registry', revoked |-> revoked']
           /\ lost' = FALSE /\ UNCHANGED faults
  BY <1>1 DEF MemoryOK, RevokedNotRegistered, PublicKey
<1>2. CASE UNCHANGED file /\ lost' = TRUE /\ Fault
  BY <1>2, TrustAssumption DEF MemoryOK, RevokedNotRegistered, PublicKey, Fault
<1> QED  BY <1>1, <1>2 DEF Save

LEMMA EnterKeeps ==
  ASSUME MemoryOK, NEW p \in Producers, NEW k \in Keys, NEW ts \in SUBSET Types,
         Enter(p, k, ts), admin' \in 0..MaxAdmin
  PROVE  MemoryOK' /\ revoked' = revoked
<1>1. /\ registry' = [registry EXCEPT ![p] = [key |-> k, types |-> ts]]
      /\ revoked' = revoked /\ k \notin revoked /\ Save
  BY DEF Enter, IsRevoked
<1>2. registry' \in Registries
  BY <1>1, EntryKeys DEF MemoryOK, Registries
<1>3. \A q \in Producers : registry'[q].key \notin revoked'
  BY <1>1 DEF MemoryOK, RevokedNotRegistered, PublicKey, Registries
<1> QED  BY <1>1, <1>2, <1>3, SaveKeeps DEF MemoryOK

LEMMA RevocationKeeps ==
  ASSUME MemoryOK, NEW k \in Keys, Revoke(k)
  PROVE  MemoryOK' /\ revoked' = revoked \cup {k}
<1>1. /\ registry' = [p \in Producers |-> IF PublicKey(p) = k THEN NoEntry ELSE registry[p]]
      /\ revoked' = revoked \cup {k} /\ Save /\ admin' \in 0..MaxAdmin
  BY TrustAssumption DEF Revoke, MemoryOK
<1>2. registry' \in Registries
  BY <1>1, EntryKeys DEF MemoryOK, Registries
<1>3. \A p \in Producers : registry'[p].key \notin revoked'
  BY <1>1, EntryKeys, TrustAssumption DEF MemoryOK, RevokedNotRegistered, PublicKey
<1> QED  BY <1>1, <1>2, <1>3, SaveKeeps DEF MemoryOK

LEMMA DamageKeeps == ASSUME MemoryOK, FileDamaged PROVE MemoryOK'
<1>1. PICK intact \in SUBSET Producers :
         file' = [registry |-> [p \in Producers |-> IF p \in intact THEN file.registry[p] ELSE NoEntry],
                  revoked  |-> {}]
  BY DEF FileDamaged
<1>2. file'.registry \in Registries /\ file'.revoked = {}
  BY <1>1, EntryKeys DEF MemoryOK, Registries
<1> QED  BY <1>1, <1>2, TrustAssumption
         DEF FileDamaged, MemoryOK, Fault, RevokedNotRegistered, PublicKey

LEMMA RestartKeeps == ASSUME MemoryOK, Restart PROVE MemoryOK'
<1>1. /\ registry' = file.registry /\ revoked' = file.revoked /\ lost' = FALSE
      /\ file' = file /\ admin' = admin /\ faults' \in 0..MaxFaults
  BY TrustAssumption DEF Restart, Load, Fault, MemoryOK
<1>2. /\ file.registry \in Registries /\ file.revoked \subseteq Keys
      /\ file = [registry |-> file.registry, revoked |-> file.revoked]
  BY DEF MemoryOK
<1>3. RevokedNotRegistered'
  BY <1>1 DEF MemoryOK, RevokedNotRegistered, PublicKey
<1>4. ~ lost' => file' = [registry |-> registry', revoked |-> revoked']
  BY <1>1, <1>2
<1> QED  BY <1>1, <1>2, <1>3, <1>4 DEF MemoryOK

\* A step of a call that does not register leaves the registry as it is.
LEMMA ReadersKeep == ASSUME MemoryOK, KeepRegistry PROVE MemoryOK' /\ revoked' = revoked
  BY DEF MemoryOK, KeepRegistry, RevokedNotRegistered, PublicKey

-----------------------------------------------------------------------------
(* The calls.                                                              *)

LEMMA CallsInit == TrustInit => CallsOK
  BY DEF TrustInit, CallsOK, VettingOK, Steps, Ended

\* A call that moves on with its contract keeps the invariant if its new step is earned.
LEMMA MoveKeeps ==
  ASSUME CallsOK, NEW t \in Threads, NEW l \in Steps, step[t] # "idle", Goto(t, l),
         UNCHANGED <<contract, revokedBefore, revoked>>, keyRead' \in [Threads -> Keys \cup {Nothing}],
         \A u \in Threads \ {t} : keyRead'[u] = keyRead[u],
         l \in {"types", "passed"} =>
            keyRead'[t] = contract[t].signer /\ keyRead'[t] \notin revokedBefore[t]
  PROVE  CallsOK'
<1>1. step' \in [Threads -> Steps] /\ \A u \in Threads : step'[u] = IF u = t THEN l ELSE step[u]
  BY DEF CallsOK, Goto
<1>2. ASSUME NEW u \in Threads PROVE VettingOK(u)'
  BY <1>1 DEF CallsOK, VettingOK
<1> QED  BY <1>1, <1>2 DEF CallsOK

\* Calls do not notice what happens to the registry, as revocations only add up.
LEMMA OthersKeep == ASSUME CallsOK, UNCHANGED callVars, revoked \subseteq revoked' PROVE CallsOK'
  BY DEF CallsOK, VettingOK, callVars

LEMMA BeginKeeps ==
  ASSUME MemoryOK, CallsOK, NEW t \in Threads, NEW c \in Contracts, Begin(t, c)
  PROVE  CallsOK'
<1>1. /\ step' = [step EXCEPT ![t] = IF t \in Vetters THEN "vet" ELSE "identity"]
      /\ contract' = [contract EXCEPT ![t] = c] /\ keyRead' = [keyRead EXCEPT ![t] = Nothing]
      /\ revokedBefore' = [revokedBefore EXCEPT ![t] = revoked] /\ revoked' = revoked
  BY DEF Begin, Goto, KeepRegistry
<1>2. revoked \in SUBSET Keys
  BY DEF MemoryOK
<1>3. /\ step' \in [Threads -> Steps] /\ contract' \in [Threads -> Contracts \cup {NoContract}]
      /\ keyRead' \in [Threads -> Keys \cup {Nothing}] /\ revokedBefore' \in [Threads -> SUBSET Keys]
  BY <1>1, <1>2 DEF CallsOK, Steps
<1>4. ASSUME NEW u \in Threads PROVE VettingOK(u)'
  BY <1>1 DEF CallsOK, VettingOK
<1> QED  BY <1>3, <1>4 DEF CallsOK

LEMMA RestartForgetsCalls == ASSUME Restart PROVE CallsOK'
  BY DEF Restart, CallsOK, VettingOK, Steps, Ended

LEMMA StepKeeps ==
  ASSUME MemoryOK, CallsOK, NEW t \in Threads, TrustStep(t)
  PROVE  MemoryOK' /\ CallsOK' /\ revoked' = revoked
<1>1. \A l : OnlyStep(t, l) => /\ KeepRegistry /\ Goto(t, l) /\ UNCHANGED <<contract, keyRead, revokedBefore>>
  BY DEF OnlyStep
<1>2. keyRead \in [Threads -> Keys \cup {Nothing}]
  BY DEF CallsOK
\* A step to one of the labels that need no key.
<1>3. ASSUME NEW l \in Steps \ {"types", "passed"}, step[t] # "idle", OnlyStep(t, l)
      PROVE  MemoryOK' /\ CallsOK' /\ revoked' = revoked
  BY <1>1, <1>2, <1>3, ReadersKeep, MoveKeeps
<1> USE DEF Steps, Ended
<1>4. CASE Vet(t)           BY <1>3, <1>4 DEF Vet
<1>5. CASE RegisterOnContact(t)
  <2>1. step[t] = "register" /\ contract[t] \in Contracts
    BY <1>5 DEF RegisterOnContact, CallsOK, VettingOK
  <2>2. /\ contract[t].producer \in Producers /\ contract[t].key \in Keys
        /\ {contract[t].type} \in SUBSET Types
    BY <2>1, TrustAssumption
  <2>3. CASE /\ Enter(contract[t].producer, contract[t].key, {contract[t].type}) /\ Goto(t, "identity")
             /\ UNCHANGED <<contract, keyRead, revokedBefore, admin>>
    <3>1. MemoryOK' /\ revoked' = revoked
      BY <2>2, <2>3, EnterKeeps DEF MemoryOK
    <3> QED  BY <1>2, <2>1, <2>3, <3>1, MoveKeeps
  <2>4. CASE Refuse(t)
    BY <1>3, <2>1, <2>4 DEF Refuse
  <2> QED  BY <1>5, <2>3, <2>4 DEF RegisterOnContact
<1>6. CASE CompareKey(t)    BY <1>3, <1>6 DEF CompareKey
<1>7. CASE CheckIdentity(t) BY <1>3, <1>7 DEF CheckIdentity
<1>8. CASE ReadKey(t)
  <2>1. step[t] = "key" /\ contract[t] \in Contracts
    BY <1>8 DEF ReadKey, CallsOK, VettingOK
  <2>2. PublicKey(contract[t].producer) \in Keys \cup {Nothing}
    BY <2>1, EntryKeys, TrustAssumption DEF PublicKey, MemoryOK, Registries
  <2>3. /\ Goto(t, "revocation") /\ KeepRegistry /\ UNCHANGED <<contract, revokedBefore>>
        /\ keyRead' = [keyRead EXCEPT ![t] = PublicKey(contract[t].producer)]
    BY <1>8 DEF ReadKey
  <2>4. MemoryOK' /\ revoked' = revoked
    BY <2>3, ReadersKeep
  <2>5. keyRead' \in [Threads -> Keys \cup {Nothing}] /\ \A u \in Threads \ {t} : keyRead'[u] = keyRead[u]
    BY <1>2, <2>2, <2>3
  <2> QED  BY <2>1, <2>3, <2>4, <2>5, MoveKeeps
<1>9. CASE CheckRevocation(t)
  <2>1. CASE keyRead[t] \notin revoked /\ keyRead[t] = contract[t].signer
    <3>1. step[t] = "revocation" /\ OnlyStep(t, "types")
      BY <1>9, <2>1 DEF CheckRevocation, IsRevoked
    <3>2. keyRead[t] \notin revokedBefore[t]
      BY <2>1 DEF CallsOK, VettingOK
    <3>3. MemoryOK' /\ revoked' = revoked
      BY <1>1, <3>1, ReadersKeep
    <3> QED  BY <1>1, <1>2, <2>1, <3>1, <3>2, <3>3, MoveKeeps
  <2>2. CASE ~ (keyRead[t] \notin revoked /\ keyRead[t] = contract[t].signer)
    BY <1>3, <1>9, <2>2 DEF CheckRevocation, IsRevoked
  <2> QED  BY <2>1, <2>2
<1>10. CASE CheckTypes(t)
  <2>1. CASE contract[t].type \in AllowedTypes(contract[t].producer)
    <3>1. step[t] = "types" /\ OnlyStep(t, "passed")
      BY <1>10, <2>1 DEF CheckTypes
    <3>2. keyRead[t] = contract[t].signer /\ keyRead[t] \notin revokedBefore[t]
      BY <3>1 DEF CallsOK, VettingOK
    <3>3. MemoryOK' /\ revoked' = revoked
      BY <1>1, <3>1, ReadersKeep
    <3> QED  BY <1>1, <1>2, <3>1, <3>2, <3>3, MoveKeeps
  <2>2. CASE contract[t].type \notin AllowedTypes(contract[t].producer)
    BY <1>3, <1>10, <2>2 DEF CheckTypes
  <2> QED  BY <2>1, <2>2
<1> QED  BY <1>4, <1>5, <1>6, <1>7, <1>8, <1>9, <1>10 DEF TrustStep

-----------------------------------------------------------------------------
(* The theorems.                                                           *)

TrustInv == MemoryOK /\ CallsOK

\* One step, and what it does to the revoked keys.
LEMMA TrustInvNext ==
  ASSUME TrustInv, [TrustNext]_trustVars
  PROVE  TrustInv' /\ (~ lost => revoked \subseteq revoked')
<1> USE DEF TrustInv
<1>1. ASSUME NEW t \in Threads, TrustStep(t) PROVE TrustInv' /\ revoked' = revoked
  BY <1>1, StepKeeps
<1>2. ASSUME NEW t \in Threads, NEW c \in Contracts, Begin(t, c) PROVE TrustInv' /\ revoked' = revoked
  <2>1. KeepRegistry  BY <1>2 DEF Begin
  <2> QED  BY <1>2, <2>1, BeginKeeps, ReadersKeep
<1>3. ASSUME NEW k \in Keys, Revoke(k) PROVE TrustInv' /\ revoked \subseteq revoked'
  <2>1. UNCHANGED callVars  BY <1>3 DEF Revoke
  <2> QED  BY <1>3, <2>1, RevocationKeeps, OthersKeep
<1>4. ASSUME NEW k \in Keys, NEW p \in Producers, NEW ts \in SUBSET Types, Register(p, k, ts)
      PROVE  TrustInv' /\ revoked' = revoked
  <2>1. UNCHANGED callVars /\ Enter(p, k, ts) /\ admin' \in 0..MaxAdmin
    BY <1>4, TrustAssumption DEF Register, MemoryOK
  <2> QED  BY <2>1, EnterKeeps, OthersKeep
<1>5. CASE Restart
  <2>1. ~ lost => revoked' = revoked
    BY <1>5 DEF Restart, Load, MemoryOK
  <2> QED  BY <1>5, <2>1, RestartKeeps, RestartForgetsCalls
<1>6. CASE FileDamaged
  <2>1. UNCHANGED callVars /\ revoked' = revoked  BY <1>6 DEF FileDamaged
  <2> QED  BY <1>6, <2>1, DamageKeeps, OthersKeep
<1>7. CASE UNCHANGED trustVars
  <2>1. KeepRegistry /\ UNCHANGED callVars  BY <1>7 DEF trustVars, KeepRegistry, callVars
  <2> QED  BY <2>1, ReadersKeep, OthersKeep
<1> QED  BY <1>1, <1>2, <1>3, <1>4, <1>5, <1>6, <1>7 DEF TrustNext

\* The inductive invariant holds in every reachable state.
LEMMA TrustInvariant == TrustSpec => []TrustInv
<1>1. TrustInit => TrustInv  BY MemoryInit, CallsInit DEF TrustInv
<1>2. TrustInv /\ [TrustNext]_trustVars => TrustInv'  BY TrustInvNext
<1> QED  BY <1>1, <1>2, PTL DEF TrustSpec

\* The state keeps its form, and no call passes its signature check without a key.
THEOREM TrustTypeCorrect == TrustSpec => []TrustTypeOK
<1>1. TrustInv => TrustTypeOK
  <2> SUFFICES ASSUME TrustInv PROVE TrustTypeOK  OBVIOUS
  <2>1. ASSUME NEW t \in Threads, step[t] \in {"types", "passed"} PROVE keyRead[t] # Nothing
    BY <2>1, TrustAssumption DEF TrustInv, CallsOK, VettingOK
  <2> QED  BY <2>1 DEF TrustInv, MemoryOK, CallsOK, TrustTypeOK, Registries, Steps, Ended
<1> QED  BY <1>1, TrustInvariant, PTL

\* No registered producer uses a revoked key, in memory or in the file.
THEOREM RevokedStaysOut == TrustSpec => []RevokedNotRegistered
<1>1. TrustInv => RevokedNotRegistered  BY DEF TrustInv, MemoryOK
<1> QED  BY <1>1, TrustInvariant, PTL

\* A passed contract carries a signature by a key not revoked when its call began.
THEOREM PassesUnrevoked == TrustSpec => []PassedUnrevoked
<1>1. TrustInv => PassedUnrevoked  BY DEF TrustInv, CallsOK, VettingOK, PassedUnrevoked
<1> QED  BY <1>1, TrustInvariant, PTL

\* A revocation outlives the process as long as the saves work and the file is whole.
THEOREM RevocationOutlivesProcess == TrustSpec => RevocationSurvives
<1>1. TrustInv /\ [TrustNext]_trustVars => [~ lost => revoked \subseteq revoked']_trustVars
  BY TrustInvNext
<1> QED  BY <1>1, TrustInvariant, PTL DEF TrustSpec, RevocationSurvives

-----------------------------------------------------------------------------
(* The vote among honest nodes.                                            *)

\* Where all nodes run the same contract they agree, unless its provenance fails.
LEMMA HonestVote ==
  ASSUME NEW k \in {"sound", "tampered"}
  PROVE  Reached([n \in Nodes |-> Process(k)]) <=> k = "sound"
<1> DEFINE att == [n \in Nodes |-> Process(k)]
<1>1. PICK nobody : nobody \notin Nodes
  BY NoSetContainsEverything
<1>2. k \in Kinds
  BY DEF Kinds
<1>3. Attested(att, k, nobody) /\ DOMAIN att = Nodes \ {nobody} /\ Nodes \ {nobody, nobody} = Nodes
  BY <1>1 DEF Attested
<1>4. CASE k = "sound"
  <2>1. N * ThresholdDen >= ThresholdNum * N
    <3>1. N \in Nat /\ ThresholdNum \in Nat /\ ThresholdDen \in Nat /\ ThresholdNum <= ThresholdDen
      BY NodesCounted, ConsensusAssumption
    <3>2. \A a, b, c \in Nat : a <= b => c * b >= a * c
      OBVIOUS
    <3> QED  BY <3>1, <3>2
  <2>2. Cardinality(Nodes) >= QuorumSize
    BY <2>1, NodesCounted, QuorumIsThreshold DEF MeetsThreshold, N
  <2>3. Reached(att)
    <3> HIDE DEF att
    <3> QED  BY <1>2, <1>3, <1>4, <2>2, HonestMajority
  <2> QED  BY <1>4, <2>3
<1>5. CASE k = "tampered"
  <2>1. Counted(att) = {}
    <3> HIDE DEF att
    <3> QED  BY <1>2, <1>3, <1>5, CountedAre
  <2>2. ~ Reached(att)
    BY <2>1 DEF Reached, Majority
  <2> QED  BY <1>5, <2>2
<1> QED  BY <1>4, <1>5

LEMMA AgreedBySigner == \A q \in Requests : Agreed(q) <=> q.key = q.signer
<1> SUFFICES ASSUME NEW q \in Requests PROVE Agreed(q) <=> q.key = q.signer
  OBVIOUS
<1> DEFINE k == IF q.key = q.signer THEN "sound" ELSE "tampered"
<1>1. Agreed(q) = Reached([n \in Nodes |-> Process(k)])
  BY DEF Agreed
<1>2. k \in {"sound", "tampered"} /\ (k = "sound" <=> q.key = q.signer)
  OBVIOUS
<1> HIDE DEF k
<1> QED  BY <1>1, <1>2, HonestVote

-----------------------------------------------------------------------------
(* One request.                                                            *)

\* The statuses of a flow, and what a completed one has passed.
LEMMA FlowIs ==
  ASSUME NEW q \in Requests, NEW entry, NEW saved \in BOOLEAN
  PROVE  /\ Flow(q, entry, saved).status \in {"HALTED", "ERROR", "COMPLETED"}
         /\ Flow(q, entry, saved).status = "COMPLETED" =>
               /\ ReplayStatus(q) = "VALID" /\ Trusted(q, entry)
               /\ Flow(q, entry, saved).agreed = Agreed(q) /\ Flow(q, entry, saved).stage = "consensus"
         /\ Flow(q, entry, saved).stage \in {"trust", "execution", "consensus"} => entry # NoEntry
  BY DEF Flow

LEMMA ReplayStatusIs ==
  \A q \in Requests : /\ ReplayStatus(q) = "VALID" => q.fresh /\ q.trace \notin seen
                      /\ q.fresh /\ ReplayStatus(q) # "VALID" => q.trace \in seen
  BY HarnessAssumption DEF ReplayStatus

-----------------------------------------------------------------------------
(* The invariant.                                                          *)

FlowEntry == [request : Requests, replay : {"STALE", "DUPLICATE", "VALID"}, revoked : SUBSET Keys,
              status : {"HALTED", "ERROR", "COMPLETED"}, agreed : BOOLEAN]

FormOK ==
    /\ DOMAIN registry = Producers /\ revoked \subseteq Keys
    /\ flows \in Seq(FlowEntry) /\ Len(flows) <= MaxFlows

\* What is left of every flow so far.
LeftOK ==
    \A j \in DOMAIN flows :
        LET q == flows[j].request IN
        /\ flows[j].revoked \subseteq revoked
        /\ q.fresh => q.trace \in seen
        /\ flows[j].status = "COMPLETED" => PublicKey(q.producer) = q.signer \/ q.signer \in revoked

\* What a completed flow had: the first part of CompletedIsEarned, for one flow.
Earned(i) ==
    LET q == flows[i].request IN
    /\ flows[i].replay = "VALID"
    /\ \A j \in 1..(i - 1) : ~ (flows[j].request.trace = q.trace /\ flows[j].request.fresh)
    /\ q.signer \notin flows[i].revoked
    /\ flows[i].agreed <=> q.key = q.signer
    /\ \A j \in Completed : j < i /\ flows[j].request.producer = q.producer =>
          \/ flows[j].request.signer = q.signer
          \/ flows[j].request.signer \in flows[i].revoked

CountedOK ==
    /\ IsFiniteSet(Completed) /\ Cardinality(Completed) <= Len(flows)
    /\ counted = [processed |-> Len(flows), errors |-> Len(flows) - Cardinality(Completed)]

HarnessInv == FormOK /\ LeftOK /\ (\A i \in Completed : Earned(i)) /\ CountedOK

LEMMA HarnessInvInit == TrustInit /\ HarnessInit => HarnessInv
<1> SUFFICES ASSUME TrustInit, HarnessInit PROVE HarnessInv
  OBVIOUS
<1>1. flows = << >> /\ Completed = {}
  BY DEF HarnessInit, Completed
<1>2. FormOK
  BY <1>1, HarnessAssumption DEF TrustInit, Unknown, FormOK
<1>3. CountedOK
  BY <1>1, FS_EmptySet DEF HarnessInit, CountedOK
<1> QED  BY <1>1, <1>2, <1>3 DEF HarnessInv, LeftOK

LEMMA FlowsTyped ==
  ASSUME FormOK, NEW j \in DOMAIN flows
  PROVE  /\ flows[j] \in FlowEntry /\ flows[j].request \in Requests
         /\ flows[j].request.producer \in Producers /\ flows[j].request.signer \in Keys
         /\ DOMAIN flows = 1..Len(flows) /\ Len(flows) \in Nat
<1>1. flows[j] \in FlowEntry /\ DOMAIN flows = 1..Len(flows) /\ Len(flows) \in Nat
  BY DEF FormOK
<1>2. flows[j].request \in Requests
  BY <1>1 DEF FlowEntry
<1> QED  BY <1>1, <1>2, HarnessAssumption

\* Nothing about the flows themselves changes as long as there is none more.
LEMMA SameFlows ==
  ASSUME flows' = flows
  PROVE  Completed' = Completed /\ \A i : Earned(i) => Earned(i)'
  BY DEF Completed, Earned

LEMMA RevokeKeeps == ASSUME HarnessInv, NEW k \in Keys, RevokeAtHarness(k) PROVE HarnessInv'
<1>1. /\ revoked' = revoked \cup {k} /\ UNCHANGED <<seen, flows, counted>>
      /\ registry' = [p \in Producers |-> IF PublicKey(p) = k THEN NoEntry ELSE registry[p]]
  BY DEF RevokeAtHarness, Revoke, harnessVars
<1>2. FormOK'
  BY <1>1 DEF HarnessInv, FormOK
<1>3. LeftOK'
  <2>1. \A j \in DOMAIN flows : flows[j].request.producer \in Producers
    BY FlowsTyped DEF HarnessInv
  <2> QED  BY <1>1, <2>1 DEF HarnessInv, LeftOK, PublicKey
<1>4. Completed' = Completed /\ \A i \in Completed' : Earned(i)'
  BY <1>1, SameFlows DEF HarnessInv
<1>5. CountedOK'
  BY <1>1, <1>4 DEF HarnessInv, CountedOK
<1> QED  BY <1>2, <1>3, <1>4, <1>5 DEF HarnessInv

\* What the handling of a request does, the way to its outcome left out.
LEMMA RequestHandled ==
  ASSUME HarnessInv, NEW q \in Requests, ProcessIncoming(q)
  PROVE  \E e, entry :
            /\ e \in FlowEntry
            /\ flows' = Append(flows, e) /\ e.request = q /\ e.replay = ReplayStatus(q) /\ e.revoked = revoked
            /\ e.status = "COMPLETED" => /\ ReplayStatus(q) = "VALID" /\ Trusted(q, entry) /\ e.agreed = Agreed(q)
                                         /\ registry' = [registry EXCEPT ![q.producer] = entry]
            /\ entry = RegisteredOrMet(q)
            /\ registry' = registry \/ registry' = [registry EXCEPT ![q.producer] = entry]
            /\ seen \subseteq seen' /\ (ReplayStatus(q) = "VALID" => q.trace \in seen')
            /\ revoked' = revoked /\ Len(flows) < MaxFlows
            /\ counted' = [processed |-> counted.processed + 1,
                           errors |-> counted.errors + (IF e.status = "COMPLETED" THEN 0 ELSE 1)]
<1> DEFINE entry == RegisteredOrMet(q)
<1>0. PICK saved \in BOOLEAN :
         LET flow == Flow(q, entry, saved)
         IN  /\ registry' = (IF flow.stage \in {"trust", "execution", "consensus"}
                             THEN [registry EXCEPT ![q.producer] = entry] ELSE registry)
             /\ flows' = Append(flows, [request |-> q, replay |-> ReplayStatus(q), revoked |-> revoked,
                                        status |-> flow.status, agreed |-> flow.agreed])
             /\ counted' = [processed |-> counted.processed + 1,
                            errors |-> counted.errors + (IF flow.status = "COMPLETED" THEN 0 ELSE 1)]
  BY DEF ProcessIncoming
<1> DEFINE flow  == Flow(q, entry, saved)
           e     == [request |-> q, replay |-> ReplayStatus(q), revoked |-> revoked,
                     status |-> flow.status, agreed |-> flow.agreed]
<1>1. /\ flow.status \in {"HALTED", "ERROR", "COMPLETED"} /\ flow.agreed \in BOOLEAN
      /\ flow.status = "COMPLETED" => /\ ReplayStatus(q) = "VALID" /\ Trusted(q, entry)
                                      /\ flow.agreed = Agreed(q) /\ flow.stage = "consensus"
  <2>1. Agreed(q) \in BOOLEAN
    BY DEF Agreed, Reached
  <2> QED  BY <2>1, FlowIs DEF Flow
<1>2. /\ seen' = (IF ReplayStatus(q) = "VALID" THEN seen \cup {q.trace} ELSE seen)
      /\ registry' = (IF flow.stage \in {"trust", "execution", "consensus"}
                      THEN [registry EXCEPT ![q.producer] = entry] ELSE registry)
      /\ flows' = Append(flows, e) /\ revoked' = revoked /\ Len(flows) < MaxFlows
      /\ counted' = [processed |-> counted.processed + 1,
                     errors |-> counted.errors + (IF flow.status = "COMPLETED" THEN 0 ELSE 1)]
  BY <1>0 DEF ProcessIncoming
<1>3. ReplayStatus(q) \in {"STALE", "DUPLICATE", "VALID"} /\ revoked \subseteq Keys
  BY DEF ReplayStatus, HarnessInv, FormOK
<1> HIDE DEF flow, entry
<1>4. e \in FlowEntry
  BY <1>1, <1>3 DEF FlowEntry
<1>5. /\ e.request = q /\ e.replay = ReplayStatus(q) /\ e.revoked = revoked
      /\ e.status = flow.status /\ e.agreed = flow.agreed
  OBVIOUS
<1>6. entry = RegisteredOrMet(q)
  BY DEF entry
<1> HIDE DEF e
<1> QED  BY <1>1, <1>2, <1>4, <1>5, <1>6

LEMMA RequestKeeps == ASSUME HarnessInv, NEW q \in Requests, ProcessIncoming(q) PROVE HarnessInv'
<1>1. PICK e, entry :
            /\ e \in FlowEntry
            /\ flows' = Append(flows, e) /\ e.request = q /\ e.replay = ReplayStatus(q) /\ e.revoked = revoked
            /\ e.status = "COMPLETED" => /\ ReplayStatus(q) = "VALID" /\ Trusted(q, entry) /\ e.agreed = Agreed(q)
                                         /\ registry' = [registry EXCEPT ![q.producer] = entry]
            /\ entry = RegisteredOrMet(q)
            /\ registry' = registry \/ registry' = [registry EXCEPT ![q.producer] = entry]
            /\ seen \subseteq seen' /\ (ReplayStatus(q) = "VALID" => q.trace \in seen')
            /\ revoked' = revoked /\ Len(flows) < MaxFlows
            /\ counted' = [processed |-> counted.processed + 1,
                           errors |-> counted.errors + (IF e.status = "COMPLETED" THEN 0 ELSE 1)]
  BY RequestHandled
<1> DEFINE n == Len(flows)
<1>2. FormOK /\ LeftOK /\ CountedOK /\ \A i \in Completed : Earned(i)
  BY DEF HarnessInv
<1>3. /\ flows' \in Seq(FlowEntry) /\ n \in Nat /\ DOMAIN flows = 1..n /\ DOMAIN flows' = 1..n + 1
      /\ Len(flows') = n + 1 /\ flows'[n + 1] = e /\ \A j \in 1..n : flows'[j] = flows[j]
  BY <1>1, <1>2 DEF FormOK
<1> HIDE DEF n
<1>4. FormOK'
  <2>1. DOMAIN registry' = Producers
    BY <1>1, <1>2 DEF FormOK
  <2>2. MaxFlows \in Nat /\ n < MaxFlows
    BY <1>1, HarnessAssumption DEF n
  <2> QED  BY <1>1, <1>2, <1>3, <2>1, <2>2 DEF FormOK
\* Where the registry stood at a key that has not been revoked, it still stands.
<1>5. ASSUME NEW p \in Producers, NEW k \in Keys \ revoked, PublicKey(p) = k
      PROVE  PublicKey(p)' = k /\ (q.producer = p => entry.key = k)
  <2>1. registry[p] # NoEntry
    BY <1>5, TrustAssumption DEF PublicKey, NoEntry
  <2>2. q.producer = p => entry = registry[p]
    BY <1>1, <2>1 DEF RegisteredOrMet, IsRegistered
  <2> QED  BY <1>1, <1>2, <1>5, <2>2 DEF PublicKey, FormOK
<1>6. e.status = "COMPLETED" => PublicKey(q.producer)' = q.signer /\ q.signer \notin revoked /\ entry.key = q.signer
  BY <1>1, <1>2, HarnessAssumption DEF Trusted, IsRevoked, PublicKey, FormOK
<1>7. LeftOK'
  <2> SUFFICES ASSUME NEW j \in DOMAIN flows'
               PROVE  /\ flows'[j].revoked \subseteq revoked'
                      /\ flows'[j].request.fresh => flows'[j].request.trace \in seen'
                      /\ flows'[j].status = "COMPLETED" =>
                            \/ registry'[flows'[j].request.producer].key = flows'[j].request.signer
                            \/ flows'[j].request.signer \in revoked'
    BY DEF LeftOK, PublicKey
  <2>1. CASE j = n + 1
    <3>1. flows'[j] = e /\ registry'[q.producer].key = PublicKey(q.producer)'
      BY <1>3, <2>1 DEF PublicKey
    <3>2. q.fresh => q.trace \in seen'
      BY <1>1, ReplayStatusIs
    <3> QED  BY <1>1, <1>6, <3>1, <3>2
  <2>2. CASE j \in 1..n
    <3>1. flows[j].request.producer \in Producers /\ flows[j].request.signer \in Keys
      BY <1>2, <1>3, <2>2, FlowsTyped
    <3>2. /\ flows[j].revoked \subseteq revoked
          /\ flows[j].request.fresh => flows[j].request.trace \in seen
          /\ flows[j].status = "COMPLETED" => \/ PublicKey(flows[j].request.producer) = flows[j].request.signer
                                             \/ flows[j].request.signer \in revoked
      BY <1>2, <1>3, <2>2 DEF LeftOK
    <3>3. \A p \in Producers, k \in Keys \ revoked : PublicKey(p) = k => registry'[p].key = k
      BY <1>5 DEF PublicKey
    <3> QED  BY <1>1, <1>3, <2>2, <3>1, <3>2, <3>3
  <2> QED  BY <1>3, <2>1, <2>2
<1>8. Completed' = Completed \cup (IF e.status = "COMPLETED" THEN {n + 1} ELSE {}) /\ Completed \subseteq 1..n
  BY <1>3 DEF Completed
<1>9. ASSUME NEW i \in Completed' PROVE Earned(i)'
  <2>1. CASE i \in Completed
    <3>1. i \in 1..n /\ \A j \in 1..(i - 1) : j \in 1..n
      <4>1. i \in 1..n /\ n \in Nat
        BY <1>3, <1>8, <2>1
      <4> QED  BY <4>1
    <3>2. \A j \in Completed' : j < i => j \in Completed /\ j \in 1..n
      BY <1>3, <1>8, <3>1
    <3>3. Earned(i) /\ i \in DOMAIN flows
      BY <1>2, <1>3, <2>1, <3>1
    <3>4. /\ flows'[i] = flows[i] /\ \A j \in 1..(i - 1) : flows'[j] = flows[j]
          /\ \A j \in Completed' : j < i => flows'[j] = flows[j]
      BY <1>3, <3>1, <3>2
    <3> QED  BY <3>2, <3>3, <3>4 DEF Earned
  <2>2. CASE i \notin Completed
    <3>1. i = n + 1 /\ e.status = "COMPLETED" /\ flows'[i] = e
      BY <1>3, <1>8, <2>2
    <3>2. \A j \in 1..n : ~ (flows[j].request.trace = q.trace /\ flows[j].request.fresh)
      BY <1>1, <1>2, <1>3, <3>1, ReplayStatusIs DEF LeftOK
    <3>3. ASSUME NEW j \in Completed', j < i, flows'[j].request.producer = q.producer
          PROVE  flows'[j].request.signer = q.signer \/ flows'[j].request.signer \in e.revoked
      <4>1. j \in Completed /\ j \in 1..n /\ flows'[j] = flows[j] /\ flows[j].status = "COMPLETED"
        BY <1>3, <1>8, <3>1, <3>3 DEF Completed
      <4>2. flows[j].request.producer \in Producers /\ flows[j].request.signer \in Keys
        BY <1>2, <1>3, <4>1, FlowsTyped
      <4>3. PublicKey(q.producer) = flows[j].request.signer \/ flows[j].request.signer \in revoked
        BY <1>2, <1>3, <3>3, <4>1 DEF LeftOK
      <4> QED  BY <1>1, <1>5, <1>6, <3>1, <3>3, <4>1, <4>2, <4>3
    <3>4. e.agreed <=> q.key = q.signer
      BY <1>1, <3>1, AgreedBySigner
    <3>5. (i - 1) = n
      BY <1>3, <3>1
    <3>6. \A j \in 1..(i - 1) : ~ (flows'[j].request.trace = q.trace /\ flows'[j].request.fresh)
      BY <1>3, <3>2, <3>5
    <3>7. flows'[i].request = q /\ e.replay = "VALID" /\ q.signer \notin e.revoked
      BY <1>1, <1>6, <3>1
    <3> QED  BY <3>1, <3>3, <3>4, <3>6, <3>7 DEF Earned
  <2> QED  BY <2>1, <2>2
<1>10. CountedOK'
  <2>1. IsFiniteSet(Completed) /\ Cardinality(Completed) \in Nat /\ n + 1 \notin Completed
    BY <1>2, <1>3, <1>8, FS_CardinalityType DEF CountedOK
  <2>2. CASE e.status = "COMPLETED"
    <3>1. IsFiniteSet(Completed') /\ Cardinality(Completed') = Cardinality(Completed) + 1
      BY <1>8, <2>1, <2>2, FS_AddElement
    <3> QED  BY <1>1, <1>2, <1>3, <2>1, <2>2, <3>1 DEF CountedOK, n
  <2>3. CASE e.status # "COMPLETED"
    <3>1. Completed' = Completed
      BY <1>8, <2>3
    <3> QED  BY <1>1, <1>2, <1>3, <2>1, <2>3, <3>1 DEF CountedOK, n
  <2> QED  BY <2>2, <2>3
<1> QED  BY <1>4, <1>7, <1>9, <1>10 DEF HarnessInv

LEMMA HarnessInvariant == HarnessSpec => []HarnessInv
<1>1. HarnessInv /\ [HarnessNext]_<<trustVars, harnessVars>> => HarnessInv'
  <2> SUFFICES ASSUME HarnessInv, [HarnessNext]_<<trustVars, harnessVars>> PROVE HarnessInv'
    OBVIOUS
  <2>1. CASE UNCHANGED <<trustVars, harnessVars>>
    <3>1. flows' = flows /\ UNCHANGED <<registry, revoked, seen, counted>>
      BY <2>1 DEF trustVars, harnessVars
    <3>2. Completed' = Completed /\ \A i \in Completed' : Earned(i)'
      BY <3>1, SameFlows DEF HarnessInv
    <3> QED  BY <3>1, <3>2 DEF HarnessInv, FormOK, LeftOK, CountedOK, PublicKey
  <2> QED  BY <2>1, RequestKeeps, RevokeKeeps DEF HarnessNext
<1> QED  BY <1>1, HarnessInvInit, PTL DEF HarnessSpec

\* A flow completes once for a trace id and for the first fresh request with it, under the
\* producer's key of the time, which changes only by revocation; the nodes agree exactly if the
\* request came with the key that signed it; and the counters of /health add up.
THEOREM CompletedFlowsAreEarned == HarnessSpec => []CompletedIsEarned
<1>1. HarnessInv => CompletedIsEarned
  BY DEF HarnessInv, CompletedIsEarned, Earned, CountedOK
<1> QED  BY <1>1, HarnessInvariant, PTL

\* Type correctness of the harness: the counters stay within the requests handled.
THEOREM HarnessTypeCorrect == HarnessSpec => []HarnessTypeOK
<1>1. HarnessInv => HarnessTypeOK
  <2> SUFFICES ASSUME HarnessInv PROVE HarnessTypeOK
    OBVIOUS
  <2>1. Len(flows) \in 0..MaxFlows /\ Len(flows) - Cardinality(Completed) \in 0..MaxFlows
    BY HarnessAssumption, FS_CardinalityType DEF HarnessInv, FormOK, CountedOK
  <2>2. counted \in [processed : 0..MaxFlows, errors : 0..MaxFlows]
    BY <2>1 DEF HarnessInv, CountedOK
  <2>3. \A i \in DOMAIN flows : flows[i] \in FlowEntry
    BY DEF HarnessInv, FormOK
  <2> QED  BY <2>2, <2>3 DEF HarnessTypeOK, FlowEntry
<1> QED  BY <1>1, HarnessInvariant, PTL

-----------------------------------------------------------------------------
(* The layers of the simulated network: one contract.                      *)

OffenceName == {"UNAUTHORIZED_PRODUCER", "INVALID_CONTRACT", "CONTRACT_DOWNGRADE", "LOW_CONFIDENCE"}

\* No two results of a node have the same ack and the same runtime hash.
IsResult(r) == r = [ack |-> r.ack, hash |-> r.hash]

LEMMA Joined ==
  \A S : \A s, t \in Seq(S) : s \o t \in Seq(S) /\ (s \o t = << >> <=> s = << >> /\ t = << >>)
  OBVIOUS

LEMMA IfIs ==
  ASSUME NEW S, NEW o \in S, NEW b \in BOOLEAN
  PROVE  If(b, o) \in Seq(S) /\ (If(b, o) = << >> <=> ~ b)
  BY DEF If

LEMMA OffencesAre ==
  ASSUME NEW p \in Policies, NEW c \in Submitted
  PROVE  /\ Offences(p, c) \in Seq(OffenceName \ {"LOW_CONFIDENCE"})
         /\ Offences(p, c) = << >> <=> Valid(c, p.types, p.minimum)
<1> DEFINE S == OffenceName \ {"LOW_CONFIDENCE"}
           a == If(c.type \notin p.types, "UNAUTHORIZED_PRODUCER")
           b == If(c.version = Malformed, "INVALID_CONTRACT")
           d == If(c.version # Malformed /\ c.version < p.minimum, "CONTRACT_DOWNGRADE")
           e == If(~ Valid(c, p.types, p.minimum), "INVALID_CONTRACT")
<1>1. /\ a \in Seq(S) /\ b \in Seq(S) /\ d \in Seq(S) /\ e \in Seq(S)
      /\ (a = << >> <=> c.type \in p.types) /\ (b = << >> <=> c.version # Malformed)
      /\ (d = << >> <=> ~ (c.version # Malformed /\ c.version < p.minimum))
      /\ (e = << >> <=> Valid(c, p.types, p.minimum))
  <2>1. "UNAUTHORIZED_PRODUCER" \in S /\ "INVALID_CONTRACT" \in S /\ "CONTRACT_DOWNGRADE" \in S
    BY DEF OffenceName
  <2> HIDE DEF S
  <2>2. a \in Seq(S) /\ (a = << >> <=> c.type \in p.types)
    BY <2>1, IfIs
  <2>3. b \in Seq(S) /\ (b = << >> <=> c.version # Malformed)
    BY <2>1, IfIs
  <2>4. d \in Seq(S) /\ (d = << >> <=> ~ (c.version # Malformed /\ c.version < p.minimum))
    BY <2>1, IfIs
  <2>5. e \in Seq(S) /\ (e = << >> <=> Valid(c, p.types, p.minimum))
    BY <2>1, IfIs
  <2> QED  BY <2>2, <2>3, <2>4, <2>5
<1>2. Offences(p, c) = a \o b \o d \o e
  BY DEF Offences
<1>3. Valid(c, p.types, p.minimum) =>
         c.type \in p.types /\ c.version # Malformed /\ ~ (c.version < p.minimum)
  BY GovernanceAssumption DEF Valid
<1> HIDE DEF S, a, b, d, e
<1>4. a \o b \in Seq(S) /\ (a \o b = << >> <=> a = << >> /\ b = << >>)
  BY <1>1, Joined
<1>5. a \o b \o d \in Seq(S) /\ (a \o b \o d = << >> <=> a \o b = << >> /\ d = << >>)
  BY <1>1, <1>4, Joined
<1>6. a \o b \o d \o e \in Seq(S) /\ (a \o b \o d \o e = << >> <=> a \o b \o d = << >> /\ e = << >>)
  BY <1>1, <1>5, Joined
<1> QED  BY <1>1, <1>2, <1>3, <1>4, <1>5, <1>6 DEF S

\* What enforce returns for a contract, and what it notes.
LEMMA EnforceIs ==
  ASSUME NEW p \in Policies, NEW c \in Submitted
  PROVE  LET e == Enforce(p, c) IN
         /\ e.found \in Seq(OffenceName) /\ IsResult(e.result)
         /\ ~ Halted(e) => /\ Valid(c, ConfigTypes, ConfigMinimum)
                           /\ p.strict => Valid(c, p.types, p.minimum)
         /\ NoWider(p) => /\ Halted(e) => e.found # << >>
                          /\ p.strict /\ e.found # << >> => Halted(e)
<1> DEFINE o == Offences(p, c)
           low == If(Execute(c).ack = "HALT:LOW_CONFIDENCE", "LOW_CONFIDENCE")
<1>1. /\ o \in Seq(OffenceName \ {"LOW_CONFIDENCE"}) /\ o \in Seq(OffenceName)
      /\ o = << >> <=> Valid(c, p.types, p.minimum)
  BY OffencesAre
<1>2. low \in Seq(OffenceName) /\ (low = << >> <=> Execute(c).ack # "HALT:LOW_CONFIDENCE")
  BY IfIs DEF OffenceName
<1>3. /\ IsResult(Execute(c))
      /\ Execute(c).ack \in {"ACK:OK", "ACK:DEGRADED", "HALT:INVALID_CONTRACT", "HALT:LOW_CONFIDENCE"}
      /\ Execute(c).ack = "HALT:INVALID_CONTRACT" <=> ~ Valid(c, ConfigTypes, ConfigMinimum)
  BY DEF Execute, Result, IsResult
<1>4. NoWider(p) /\ Valid(c, p.types, p.minimum) => Valid(c, ConfigTypes, ConfigMinimum)
  BY GovernanceAssumption DEF NoWider, Valid
<1>5. CASE p.strict /\ o # << >>
  <2>1. o[1] \in OffenceName \ {"LOW_CONFIDENCE"} /\ <<o[1]>> \in Seq(OffenceName) /\ <<o[1]>> # << >>
    BY <1>1, <1>5
  <2>2. Enforce(p, c) = [result |-> Halt(o[1]), found |-> <<o[1]>>]
    BY <1>5 DEF Enforce
  <2>3. IsResult(Halt(o[1])) /\ Halt(o[1]).ack \notin {"ACK:OK", "ACK:DEGRADED"}
    BY <2>1 DEF Halt, HaltAck, OffenceName, IsResult
  <2> HIDE DEF o
  <2> QED  BY <2>1, <2>2, <2>3 DEF Halted
<1>6. CASE ~ (p.strict /\ o # << >>)
  <2>1. Enforce(p, c) = [result |-> Execute(c), found |-> o \o low]
    BY <1>6 DEF Enforce
  <2>2. o \o low \in Seq(OffenceName) /\ (o \o low = << >> <=> o = << >> /\ low = << >>)
    BY <1>1, <1>2, Joined
  <2> HIDE DEF o, low
  <2> QED  BY <1>1, <1>2, <1>3, <1>4, <1>6, <2>1, <2>2 DEF Halted
<1> QED  BY <1>5, <1>6

-----------------------------------------------------------------------------
(* The log of a layer.                                                     *)

Note == [trace : {c.trace : c \in Submitted}, type : OffenceName]

\* The log v holds the last of what was noted, f, as many as it may.
LastOf(v, f) ==
    /\ Len(v) <= MaxViolations /\ Len(v) <= Len(f) /\ (Len(v) = MaxViolations \/ Len(v) = Len(f))
    /\ \A i \in 1..Len(v) : v[i] = f[Len(f) - Len(v) + i]

LEMMA NewestIs ==
  ASSUME NEW v \in Seq(Note), NEW f \in Seq(Note), LastOf(v, f), NEW w \in Seq(Note)
  PROVE  Newest(v \o w) \in Seq(Note) /\ f \o w \in Seq(Note) /\ LastOf(Newest(v \o w), f \o w)
<1> DEFINE s == v \o w
           g == f \o w
           k == Len(s) - MaxViolations
<1>1. /\ Len(v) \in Nat /\ Len(w) \in Nat /\ Len(f) \in Nat /\ MaxViolations \in Nat /\ MaxViolations > 0
      /\ s \in Seq(Note) /\ Len(s) = Len(v) + Len(w)
      /\ g \in Seq(Note) /\ Len(g) = Len(f) + Len(w)
  BY GovernanceAssumption
<1>2. /\ \A i \in 1..Len(s) : s[i] = IF i <= Len(v) THEN v[i] ELSE w[i - Len(v)]
      /\ \A i \in 1..Len(g) : g[i] = IF i <= Len(f) THEN f[i] ELSE w[i - Len(f)]
  OBVIOUS
<1> HIDE DEF s, g
\* What was appended to the log is the end of what was appended to the record.
<1>3. \A i \in 1..Len(s) : s[i] = g[Len(g) - Len(s) + i]
  <2> SUFFICES ASSUME NEW i \in 1..Len(s) PROVE s[i] = g[Len(g) - Len(s) + i]
    OBVIOUS
  <2>1. CASE i <= Len(v)
    <3>1. v[i] = f[Len(f) - Len(v) + i]
      BY <1>1, <2>1 DEF LastOf
    <3> DEFINE j == Len(f) - Len(v) + i
    <3>2. Len(g) - Len(s) + i = j /\ j \in 1..Len(f) /\ j \in 1..Len(g) /\ j <= Len(f)
      BY <1>1, <2>1 DEF LastOf
    <3> HIDE DEF j
    <3>3. s[i] = v[i]
      BY <1>2, <2>1
    <3>4. g[j] = f[j]
      BY <1>2, <3>2
    <3> QED  BY <3>1, <3>2, <3>3, <3>4 DEF j
  <2>2. CASE i > Len(v)
    <3> DEFINE j == Len(f) + (i - Len(v))
    <3>1. Len(g) - Len(s) + i = j /\ j \in 1..Len(g) /\ ~ (j <= Len(f)) /\ j - Len(f) = i - Len(v)
          /\ ~ (i <= Len(v))
      BY <1>1, <2>2 DEF LastOf
    <3> HIDE DEF j
    <3>2. s[i] = w[i - Len(v)]
      BY <1>2, <3>1
    <3>3. g[j] = w[j - Len(f)]
      BY <1>2, <3>1
    <3> QED  BY <3>1, <3>2, <3>3
  <2> QED  BY <1>1, <2>1, <2>2
<1>4. CASE Len(s) <= MaxViolations
  <2>1. Newest(s) = s
    BY <1>1, <1>4 DEF Newest
  <2>2. Len(v) < MaxViolations \/ Len(w) = 0
    BY <1>1, <1>4
  <2>3. Len(s) = MaxViolations \/ Len(s) = Len(g)
    <3>1. Len(v) = MaxViolations \/ Len(v) = Len(f)
      BY DEF LastOf
    <3>2. \A a, b, c, m \in Nat : a + b <= m /\ (a = m \/ a = c) => a + b = m \/ a + b = c + b
      OBVIOUS
    <3>3. Len(v) + Len(w) <= MaxViolations
      BY <1>1, <1>4
    <3> QED  BY <1>1, <3>1, <3>2, <3>3
  <2>4. Len(s) <= Len(g)
    BY <1>1 DEF LastOf
  <2> QED  BY <1>1, <1>3, <1>4, <2>1, <2>3, <2>4 DEF LastOf, s, g
<1>5. CASE Len(s) > MaxViolations
  <2>1. k \in Nat /\ Newest(s) = SubSeq(s, k + 1, Len(s))
    BY <1>1, <1>5 DEF Newest
  <2> DEFINE t == SubSeq(s, k + 1, Len(s))
  <2>2. /\ t \in Seq(Note) /\ Len(t) = MaxViolations
        /\ \A i \in 1..MaxViolations : t[i] = s[k + i] /\ k + i \in 1..Len(s)
    BY <1>1, <1>5, <2>1
  <2> HIDE DEF t
  <2>3. Len(t) <= Len(g)
    BY <1>1, <1>5, <2>2 DEF LastOf
  <2>4. \A i \in 1..Len(t) : t[i] = g[Len(g) - Len(t) + i]
    <3> SUFFICES ASSUME NEW i \in 1..Len(t) PROVE t[i] = g[Len(g) - Len(t) + i]
      OBVIOUS
    <3>1. t[i] = s[k + i] /\ k + i \in 1..Len(s)
      BY <2>2
    <3>2. Len(g) - Len(s) + (k + i) = Len(g) - Len(t) + i
      BY <1>1, <2>2
    <3> QED  BY <1>3, <3>1, <3>2
  <2>5. LastOf(t, g)
    BY <1>1, <2>2, <2>3, <2>4 DEF LastOf
  <2> QED  BY <1>1, <2>1, <2>2, <2>5 DEF s, g, t
<1> QED  BY <1>1, <1>4, <1>5

LEMMA LastIsSuffix ==
  ASSUME NEW v \in Seq(Note), NEW f \in Seq(Note), LastOf(v, f)
  PROVE  IsSuffix(v, f)
<1> DEFINE rv == Reverse(v)
           rf == Reverse(f)
<1>1. Len(v) \in Nat /\ Len(f) \in Nat /\ Len(v) <= Len(f)
  BY DEF LastOf
<1>2. /\ rv \in Seq(Note) /\ Len(rv) = Len(v) /\ \A i \in 1..Len(v) : rv[i] = v[Len(v) - i + 1]
      /\ rf \in Seq(Note) /\ Len(rf) = Len(f) /\ \A i \in 1..Len(f) : rf[i] = f[Len(f) - i + 1]
  <2>1. \A s \in Seq(Note) : /\ Reverse(s) \in [1..Len(s) -> Note]
                             /\ \A i \in 1..Len(s) : Reverse(s)[i] = s[Len(s) - i + 1]
    BY DEF Reverse
  <2>2. \A j \in Nat : \A h \in [1..j -> Note] : h \in Seq(Note) /\ Len(h) = j
    OBVIOUS
  <2> QED  BY <1>1, <2>1, <2>2
<1> HIDE DEF rv, rf
<1>3. \A i \in 1..Len(v) : rv[i] = rf[i]
  <2> SUFFICES ASSUME NEW i \in 1..Len(v) PROVE rv[i] = rf[i]
    OBVIOUS
  <2>1. Len(v) - i + 1 \in 1..Len(v) /\ Len(f) - Len(v) + (Len(v) - i + 1) = Len(f) - i + 1 /\ i \in 1..Len(f)
    BY <1>1
  <2> QED  BY <1>2, <2>1 DEF LastOf
<1>4. SubSeq(rv, 1, Len(rv)) = SubSeq(rf, 1, Len(rv))
  <2>1. /\ SubSeq(rv, 1, Len(v)) \in Seq(Note) /\ Len(SubSeq(rv, 1, Len(v))) = Len(v)
        /\ \A i \in 1..Len(v) : SubSeq(rv, 1, Len(v))[i] = rv[i]
    BY <1>1, <1>2
  <2>2. /\ SubSeq(rf, 1, Len(v)) \in Seq(Note) /\ Len(SubSeq(rf, 1, Len(v))) = Len(v)
        /\ \A i \in 1..Len(v) : SubSeq(rf, 1, Len(v))[i] = rf[i]
    BY <1>1, <1>2
  <2>3. \A a, b \in Seq(Note) : Len(a) = Len(b) /\ (\A i \in 1..Len(a) : a[i] = b[i]) => a = b
    OBVIOUS
  <2> QED  BY <1>2, <1>3, <2>1, <2>2, <2>3
<1> QED  BY <1>1, <1>2, <1>4 DEF IsSuffix, IsPrefix, rv, rf

-----------------------------------------------------------------------------
(* The run over the nodes.                                                 *)

Places == Len(SimulatedNodes)

Outcome == {Enforce(p, c) : p \in Policies, c \in Submitted}

\* The entry of a ledger, and the hash that stands for the first i of them.
Link(c, r) == [trace |-> c.trace, payload |-> c.payload, hash |-> r.hash, ack |-> r.ack]
Links == {Link(c, e.result) : c \in Submitted, e \in Outcome}
Chain(n, i) == [j \in 1..i |-> Link(batch[j], outcomes[n][j].result)]

SettingsOK ==
    /\ policy \in [NodeIds -> Policies] /\ batch \in [1..BatchLength -> Submitted] /\ clears \in 0..Clears
    /\ outcomes \in [NodeIds -> Seq(Outcome)] /\ ledgers \in [NodeIds -> Seq(Seq(Links))]
    /\ violations \in [NodeIds -> Seq(Note)] /\ found \in [NodeIds -> Seq(Note)]

\* A node has met the contracts of the run in their order, each under its own settings.
NodeOK(n) ==
    /\ Len(ledgers[n]) = Len(outcomes[n]) /\ Len(outcomes[n]) <= BatchLength
    /\ \A i \in 1..Len(outcomes[n]) :
          outcomes[n][i] = Enforce(policy[n], batch[i]) /\ ledgers[n][i] = Chain(n, i)
    /\ LastOf(violations[n], found[n])

\* After q rounds and r nodes of the next one.
TurnIs(q, r) ==
    /\ processed = q * Places + r /\ q <= BatchLength /\ (q = BatchLength => r = 0)
    /\ \A i \in 1..Places : Len(outcomes[SimulatedNodes[i]]) = IF i <= r THEN q + 1 ELSE q

NetworkInv ==
    /\ SettingsOK
    /\ \A n \in NodeIds : NodeOK(n)
    /\ \E q \in Nat, r \in 0..(Places - 1) : TurnIs(q, r)

LEMMA NodesPlaced ==
  /\ Places \in Nat \ {0} /\ DOMAIN SimulatedNodes = 1..Places /\ BatchLength \in Nat \ {0}
  /\ \A i \in 1..Places : SimulatedNodes[i] \in NodeIds
  /\ \A n \in NodeIds : \E i \in 1..Places : n = SimulatedNodes[i]
  /\ \A i, j \in 1..Places : SimulatedNodes[i] = SimulatedNodes[j] => i = j
<1>1. SimulatedNodes \in Seq(NodeIds) /\ SimulatedNodes # << >> /\ IsInjective(SimulatedNodes)
      /\ BatchLength \in Nat \ {0}
  BY GovernanceAssumption DEF NodeIds
<1>2. Places \in Nat \ {0} /\ DOMAIN SimulatedNodes = 1..Places
  BY <1>1 DEF Places
<1> QED  BY <1>1, <1>2 DEF NodeIds, Range, IsInjective

LEMMA DivMod ==
  ASSUME NEW b \in Nat \ {0}, NEW q \in Nat, NEW r \in 0..(b - 1)
  PROVE  (q * b + r) \div b = q /\ (q * b + r) % b = r
<1> DEFINE x == q * b + r
           d == x \div b
           m == x % b
<1>1. x \in Nat
  OBVIOUS
<1>2. d \in Int /\ m \in 0..(b - 1) /\ x = d * b + m
  BY <1>1
<1> HIDE DEF d, m
<1>3. ASSUME d < q PROVE FALSE
  <2>1. d + 1 <= q
    BY <1>2, <1>3
  <2>2. (d + 1) * b <= q * b
    BY <2>1, <1>2
  <2>3. (d + 1) * b = d * b + b
    BY <1>2
  <2> QED  BY <1>2, <2>2, <2>3
<1>4. ASSUME d > q PROVE FALSE
  <2>1. q + 1 <= d
    BY <1>2, <1>4
  <2>2. (q + 1) * b <= d * b
    BY <2>1, <1>2
  <2>3. (q + 1) * b = q * b + b
    OBVIOUS
  <2> QED  BY <1>2, <2>2, <2>3
<1>5. d = q
  BY <1>2, <1>3, <1>4
<1>6. m = r
  BY <1>2, <1>5
<1> QED  BY <1>5, <1>6 DEF d, m

\* The number of calls says which contract is on its way and where.
LEMMA TurnTells ==
  ASSUME NEW q \in Nat, NEW r \in 0..(Places - 1), TurnIs(q, r)
  PROVE  /\ NodeAt(processed) = SimulatedNodes[r + 1] /\ ContractAt(processed) = batch[q + 1]
         /\ Finished <=> q = BatchLength
<1>1. processed % Places = r /\ processed \div Places = q
  BY NodesPlaced, DivMod DEF TurnIs
<1>2. NodeAt(processed) = SimulatedNodes[r + 1] /\ ContractAt(processed) = batch[q + 1]
  BY <1>1 DEF NodeAt, ContractAt, Places
<1>3. BatchLength * Places + 0 = BatchLength * Places /\ 0 \in 0..(Places - 1)
  BY NodesPlaced
<1>4. (BatchLength * Places + 0) \div Places = BatchLength
  BY <1>3, NodesPlaced, DivMod
<1>5. Finished => q = BatchLength
  BY <1>1, <1>3, <1>4 DEF Finished, Places
<1>6. q = BatchLength => Finished
  BY <1>3, NodesPlaced DEF TurnIs, Finished, Places
<1> QED  BY <1>2, <1>5, <1>6

\* The hash that is appended to a ledger stands for one entry more.
LEMMA ChainGrows ==
  ASSUME NEW S, NEW k \in Nat, NEW f \in [1..k -> S], NEW x \in S
  PROVE  Append(f, x) = [j \in 1..(k + 1) |-> IF j <= k THEN f[j] ELSE x]
<1>1. f \in Seq(S) /\ Len(f) = k
  OBVIOUS
<1>2. Append(f, x) \in Seq(S) /\ Len(Append(f, x)) = k + 1 /\ \A j \in 1..(k + 1) : Append(f, x)[j] = IF j <= k THEN f[j] ELSE x
  BY <1>1
<1> DEFINE g == [j \in 1..(k + 1) |-> IF j <= k THEN f[j] ELSE x]
<1>3. g \in [1..(k + 1) -> S] /\ \A j \in 1..(k + 1) : g[j] = IF j <= k THEN f[j] ELSE x
  OBVIOUS
<1>4. g \in Seq(S) /\ Len(g) = k + 1
  <2>1. \A n \in Nat : \A h \in [1..n -> S] : h \in Seq(S) /\ Len(h) = n
    OBVIOUS
  <2> HIDE DEF g
  <2> QED  BY <1>3, <2>1
<1>5. \A a, b \in Seq(S) : Len(a) = Len(b) /\ (\A i \in 1..Len(a) : a[i] = b[i]) => a = b
  OBVIOUS
<1> HIDE DEF g
<1>6. Append(f, x) = g
  BY <1>2, <1>3, <1>4, <1>5
<1> QED  BY <1>6 DEF g

LEMMA NetworkStarts == GovernanceInit => NetworkInv
<1> SUFFICES ASSUME GovernanceInit PROVE NetworkInv
  OBVIOUS
<1>1. /\ policy \in [NodeIds -> Policies] /\ batch \in [1..BatchLength -> Submitted]
      /\ processed = 0 /\ clears = 0 /\ Clears \in Nat
      /\ ledgers = [n \in NodeIds |-> << >>] /\ outcomes = [n \in NodeIds |-> << >>]
      /\ violations = [n \in NodeIds |-> << >>] /\ found = [n \in NodeIds |-> << >>]
  BY GovernanceAssumption DEF GovernanceInit
<1>2. << >> \in Seq(Outcome) /\ << >> \in Seq(Seq(Links)) /\ << >> \in Seq(Note)
  OBVIOUS
<1>3. SettingsOK
  BY <1>1, <1>2 DEF SettingsOK
<1>4. \A n \in NodeIds : NodeOK(n)
  <2> SUFFICES ASSUME NEW n \in NodeIds PROVE NodeOK(n)
    OBVIOUS
  <2>1. ledgers[n] = << >> /\ outcomes[n] = << >> /\ violations[n] = << >> /\ found[n] = << >>
    BY <1>1
  <2>2. BatchLength \in Nat /\ MaxViolations \in Nat
    BY GovernanceAssumption
  <2> QED  BY <2>1, <2>2 DEF NodeOK, LastOf
<1>5. TurnIs(0, 0)
  <2>1. \A i \in 1..Places : outcomes[SimulatedNodes[i]] = << >>
    BY <1>1, NodesPlaced
  <2>2. 0 * Places + 0 = 0 /\ 0 <= BatchLength
    BY NodesPlaced
  <2> QED  BY <1>1, <2>1, <2>2 DEF TurnIs
<1>6. 0 \in Nat /\ 0 \in 0..(Places - 1)
  BY NodesPlaced
<1> QED  BY <1>3, <1>4, <1>5, <1>6 DEF NetworkInv

LEMMA ClearKeepsNetwork ==
  ASSUME NetworkInv, NEW k \in NodeIds, ClearViolations(k)
  PROVE  NetworkInv'
<1>1. /\ UNCHANGED <<policy, batch, processed, ledgers, outcomes>>
      /\ violations' = [violations EXCEPT ![k] = << >>] /\ found' = [found EXCEPT ![k] = << >>]
      /\ clears' = clears + 1 /\ clears < Clears /\ Clears \in Nat
  BY GovernanceAssumption DEF ClearViolations
<1>2. SettingsOK
  BY DEF NetworkInv
<1>3. SettingsOK'
  <2>1. << >> \in Seq(Note)
    OBVIOUS
  <2> QED  BY <1>1, <1>2, <2>1 DEF SettingsOK
<1>4. \A n \in NodeIds : NodeOK(n)'
  <2> SUFFICES ASSUME NEW n \in NodeIds PROVE NodeOK(n)'
    OBVIOUS
  <2>1. NodeOK(n)
    BY DEF NetworkInv
  <2>2. \A i : Chain(n, i)' = Chain(n, i)
    BY <1>1 DEF Chain
  <2>3. LastOf(violations'[n], found'[n])
    <3>1. CASE n = k
      <4>1. violations'[n] = << >> /\ found'[n] = << >> /\ MaxViolations \in Nat
        BY <1>1, <1>2, <3>1, GovernanceAssumption DEF SettingsOK
      <4> QED  BY <4>1 DEF LastOf
    <3>2. CASE n # k
      <4>1. violations'[n] = violations[n] /\ found'[n] = found[n]
        BY <1>1, <1>2, <3>2 DEF SettingsOK
      <4> QED  BY <2>1, <4>1 DEF NodeOK
    <3> QED  BY <3>1, <3>2
  <2> QED  BY <1>1, <2>1, <2>2, <2>3 DEF NodeOK
<1>5. \E q \in Nat, r \in 0..(Places - 1) : TurnIs(q, r)'
  BY <1>1 DEF NetworkInv, TurnIs
<1> QED  BY <1>3, <1>4, <1>5 DEF NetworkInv

LEMMA EntryIs ==
  ASSUME SettingsOK, NEW n \in NodeIds, NodeOK(n), NEW q \in Nat, Len(outcomes[n]) = q,
         NEW c \in Submitted, NEW e \in Outcome
  PROVE  EntryHash(ledgers[n], c, e.result)
            = [j \in 1..(q + 1) |-> IF j <= q THEN Chain(n, q)[j] ELSE Link(c, e.result)]
<1> DEFINE before == IF ledgers[n] = << >> THEN << >> ELSE Last(ledgers[n])
<1>1. ledgers[n] \in Seq(Seq(Links)) /\ Len(ledgers[n]) = q
  BY DEF SettingsOK, NodeOK
<1>2. before = Chain(n, q)
  <2>1. CASE q = 0
    BY <1>1, <2>1 DEF Chain
  <2>2. CASE q # 0
    <3>1. ledgers[n] # << >> /\ Last(ledgers[n]) = ledgers[n][q] /\ q \in 1..Len(outcomes[n])
      BY <1>1, <2>2 DEF Last
    <3> QED  BY <3>1 DEF NodeOK
  <2> QED  BY <2>1, <2>2
<1>3. Link(c, e.result) \in Links
  BY DEF Links
<1>4. Chain(n, q) \in [1..q -> Links]
  <2> SUFFICES ASSUME NEW j \in 1..q PROVE Link(batch[j], outcomes[n][j].result) \in Links
    BY DEF Chain
  <2>1. j \in 1..BatchLength /\ outcomes[n] \in Seq(Outcome) /\ j \in 1..Len(outcomes[n])
    BY GovernanceAssumption DEF SettingsOK, NodeOK
  <2>2. \A s \in Seq(Outcome) : \A i \in 1..Len(s) : s[i] \in Outcome
    OBVIOUS
  <2>3. batch[j] \in Submitted /\ outcomes[n][j] \in Outcome
    <3>1. batch \in [1..BatchLength -> Submitted]
      BY DEF SettingsOK
    <3> QED  BY <2>1, <2>2, <3>1
  <2> QED  BY <2>3 DEF Links
<1>5. Append(Chain(n, q), Link(c, e.result))
        = [j \in 1..(q + 1) |-> IF j <= q THEN Chain(n, q)[j] ELSE Link(c, e.result)]
  BY <1>3, <1>4, ChainGrows
<1>6. EntryHash(ledgers[n], c, e.result) = Append(before, Link(c, e.result))
  BY DEF EntryHash, Link
<1> QED  BY <1>2, <1>5, <1>6

LEMMA ProcessKeepsNetwork ==
  ASSUME NetworkInv, ProcessContract
  PROVE  NetworkInv'
<1>1. PICK q \in Nat, r \in 0..(Places - 1) : TurnIs(q, r)
  BY DEF NetworkInv
<1>2. PICK n : n = SimulatedNodes[r + 1]
  OBVIOUS
<1>3. PICK c : c = batch[q + 1]
  OBVIOUS
<1>4. PICK e : e = Enforce(policy[n], c)
  OBVIOUS
<1>5. PICK w : w = [i \in DOMAIN e.found |-> [trace |-> c.trace, type |-> e.found[i]]]
  OBVIOUS
<1>6. PICK h : h = EntryHash(ledgers[n], c, e.result)
  OBVIOUS
<1>7. /\ processed' = processed + 1 /\ UNCHANGED <<policy, batch, clears>>
      /\ outcomes' = [outcomes EXCEPT ![n] = Append(@, e)]
      /\ ledgers' = [ledgers EXCEPT ![n] = Append(@, h)]
      /\ violations' = [violations EXCEPT ![n] = Newest(@ \o w)]
      /\ found' = [found EXCEPT ![n] = @ \o w]
      /\ q # BatchLength
  BY <1>1, <1>2, <1>3, <1>4, <1>5, <1>6, TurnTells DEF ProcessContract
<1>8. SettingsOK /\ NodeOK(n)
  <2>1. n \in NodeIds
    BY <1>2, NodesPlaced
  <2> QED  BY <2>1 DEF NetworkInv
<1>9. /\ n \in NodeIds /\ q \in 0..(BatchLength - 1) /\ c \in Submitted /\ policy[n] \in Policies
      /\ e \in Outcome /\ Len(outcomes[n]) = q
  <2>1. n \in NodeIds /\ r + 1 \in 1..Places
    BY <1>2, NodesPlaced
  <2>2. q <= BatchLength /\ BatchLength \in Nat /\ q # BatchLength
    BY <1>1, <1>7, GovernanceAssumption DEF TurnIs
  <2>3. q + 1 \in 1..BatchLength
    BY <2>2
  <2>4. c \in Submitted /\ policy[n] \in Policies
    BY <1>3, <1>8, <2>1, <2>3 DEF SettingsOK
  <2>5. e \in Outcome
    BY <1>4, <2>4 DEF Outcome
  <2>6. Len(outcomes[n]) = q
    <3>1. ~ (r + 1 <= r)
      OBVIOUS
    <3> QED  BY <1>1, <1>2, <2>1, <3>1 DEF TurnIs
  <2> QED  BY <2>1, <2>2, <2>4, <2>5, <2>6
<1>10. /\ outcomes[n] \in Seq(Outcome) /\ ledgers[n] \in Seq(Seq(Links)) /\ Len(ledgers[n]) = q
       /\ violations[n] \in Seq(Note) /\ found[n] \in Seq(Note)
  BY <1>8, <1>9 DEF SettingsOK, NodeOK
<1>11. w \in Seq(Note)
  <2>1. e.found \in Seq(OffenceName)
    BY <1>4, <1>9, EnforceIs
  <2>2. \A i \in 1..Len(e.found) : e.found[i] \in OffenceName
    BY <2>1
  <2>3. DOMAIN e.found = 1..Len(e.found) /\ Len(e.found) \in Nat
    BY <2>1
  <2>4. \A j \in Nat : \A g \in [1..j -> Note] : g \in Seq(Note) /\ Len(g) = j
    OBVIOUS
  <2>5. w \in [1..Len(e.found) -> Note]
    BY <1>5, <1>9, <2>2, <2>3 DEF Note
  <2> QED  BY <2>3, <2>4, <2>5
<1>12. /\ Newest(violations[n] \o w) \in Seq(Note) /\ found[n] \o w \in Seq(Note)
       /\ LastOf(Newest(violations[n] \o w), found[n] \o w)
  BY <1>8, <1>10, <1>11, NewestIs DEF NodeOK
<1>13. h = [j \in 1..(q + 1) |-> IF j <= q THEN Chain(n, q)[j] ELSE Link(c, e.result)]
  BY <1>6, <1>8, <1>9, EntryIs
<1>14. /\ outcomes'[n] = Append(outcomes[n], e) /\ ledgers'[n] = Append(ledgers[n], h)
       /\ violations'[n] = Newest(violations[n] \o w) /\ found'[n] = found[n] \o w
       /\ \A m \in NodeIds : m # n => /\ outcomes'[m] = outcomes[m] /\ ledgers'[m] = ledgers[m]
                                      /\ violations'[m] = violations[m] /\ found'[m] = found[m]
  BY <1>7, <1>8, <1>9 DEF SettingsOK
<1>15. h \in Seq(Links)
  <2>1. Link(c, e.result) \in Links
    BY <1>9 DEF Links
  <2>2. \A j \in 1..q : Chain(n, q)[j] \in Links
    <3> SUFFICES ASSUME NEW j \in 1..q PROVE Link(batch[j], outcomes[n][j].result) \in Links
      BY DEF Chain
    <3>1. batch[j] \in Submitted /\ outcomes[n][j] \in Outcome
      <4>1. j \in 1..BatchLength /\ j \in 1..Len(outcomes[n])
        BY <1>9, GovernanceAssumption
      <4>2. \A s \in Seq(Outcome) : \A i \in 1..Len(s) : s[i] \in Outcome
        OBVIOUS
      <4>3. batch \in [1..BatchLength -> Submitted]
        BY <1>8 DEF SettingsOK
      <4> QED  BY <1>10, <4>1, <4>2, <4>3
    <3> QED  BY <3>1 DEF Links
  <2>3. h \in [1..(q + 1) -> Links] /\ q + 1 \in Nat
    BY <1>9, <1>13, <2>1, <2>2
  <2>4. \A j \in Nat : \A g \in [1..j -> Links] : g \in Seq(Links)
    OBVIOUS
  <2> QED  BY <2>3, <2>4
<1>16. SettingsOK'
  <2>1. Append(outcomes[n], e) \in Seq(Outcome) /\ Append(ledgers[n], h) \in Seq(Seq(Links))
    BY <1>9, <1>10, <1>15
  <2> QED  BY <1>7, <1>8, <1>9, <1>12, <2>1, SMTT(30) DEF SettingsOK
<1>17. NodeOK(n)'
  <2>1. Len(outcomes'[n]) = q + 1 /\ Len(ledgers'[n]) = q + 1 /\ q + 1 <= BatchLength
    BY <1>9, <1>10, <1>14, GovernanceAssumption
  <2>2. \A i \in 1..q : outcomes'[n][i] = outcomes[n][i] /\ ledgers'[n][i] = ledgers[n][i]
    BY <1>9, <1>10, <1>14
  <2>3. outcomes'[n][q + 1] = e /\ ledgers'[n][q + 1] = h
    BY <1>9, <1>10, <1>14
  <2>4. \A i \in 1..q : Chain(n, i)' = Chain(n, i)
    <3> SUFFICES ASSUME NEW i \in 1..q PROVE Chain(n, i)' = Chain(n, i)
      OBVIOUS
    <3>1. \A j \in 1..i : j \in 1..q
      OBVIOUS
    <3>2. \A j \in 1..i : outcomes'[n][j] = outcomes[n][j]
      BY <2>2, <3>1
    <3>3. \A j \in 1..i : Link(batch'[j], outcomes'[n][j].result) = Link(batch[j], outcomes[n][j].result)
      BY <1>7, <3>2
    <3>4. Chain(n, i)' = [j \in 1..i |-> Link(batch'[j], outcomes'[n][j].result)]
      BY DEF Chain, Link
    <3> QED  BY <3>3, <3>4 DEF Chain
  <2>5. \A i \in 1..q : outcomes'[n][i] = Enforce(policy'[n], batch'[i]) /\ ledgers'[n][i] = Chain(n, i)'
    BY <1>7, <1>8, <1>9, <2>2, <2>4 DEF NodeOK
  <2>6. e = Enforce(policy'[n], batch'[q + 1])
    BY <1>3, <1>4, <1>7
  <2>7. h = Chain(n, q + 1)'
    <3>1. \A j \in 1..(q + 1) : Link(batch'[j], outcomes'[n][j].result)
                                   = IF j <= q THEN Chain(n, q)[j] ELSE Link(c, e.result)
      <4> SUFFICES ASSUME NEW j \in 1..(q + 1)
                   PROVE  Link(batch'[j], outcomes'[n][j].result)
                            = IF j <= q THEN Chain(n, q)[j] ELSE Link(c, e.result)
        OBVIOUS
      <4>1. CASE j <= q
        <5>1. j \in 1..q
          BY <4>1
        <5>2. Chain(n, q)[j] = Link(batch[j], outcomes[n][j].result)
          BY <5>1 DEF Chain
        <5> QED  BY <1>7, <2>2, <4>1, <5>1, <5>2
      <4>2. CASE ~ (j <= q)
        <5>1. j = q + 1
          BY <4>2
        <5>2. batch'[j] = c /\ outcomes'[n][j] = e
          BY <1>3, <1>7, <2>3, <5>1
        <5>3. Link(batch'[j], outcomes'[n][j].result) = Link(c, e.result)
          BY <5>2
        <5> HIDE DEF Chain
        <5> QED  BY <4>2, <5>3
      <4> QED  BY <4>1, <4>2
    <3>2. Chain(n, q + 1)' = [j \in 1..(q + 1) |-> Link(batch'[j], outcomes'[n][j].result)]
      BY DEF Chain, Link
    <3> QED  BY <1>13, <3>1, <3>2
  <2>8. \A i \in 1..(q + 1) : i \in 1..q \/ i = q + 1
    OBVIOUS
  <2>9. \A i \in 1..(q + 1) : outcomes'[n][i] = Enforce(policy'[n], batch'[i]) /\ ledgers'[n][i] = Chain(n, i)'
    BY <2>3, <2>5, <2>6, <2>7, <2>8
  <2>10. LastOf(violations'[n], found'[n])
    BY <1>12, <1>14
  <2> QED  BY <2>1, <2>9, <2>10 DEF NodeOK
<1>18. \A m \in NodeIds : NodeOK(m)'
  <2> SUFFICES ASSUME NEW m \in NodeIds, m # n PROVE NodeOK(m)'
    BY <1>17
  <2>1. NodeOK(m)
    BY DEF NetworkInv
  <2>2. outcomes'[m] = outcomes[m] /\ ledgers'[m] = ledgers[m]
        /\ violations'[m] = violations[m] /\ found'[m] = found[m]
    BY <1>14
  <2>3. \A i : Chain(m, i)' = Chain(m, i)
    BY <1>7, <2>2 DEF Chain
  <2> QED  BY <1>7, <2>1, <2>2, <2>3 DEF NodeOK
<1>19. \A i \in 1..Places : Len(outcomes'[SimulatedNodes[i]]) = IF i <= r + 1 THEN q + 1 ELSE q
  <2> SUFFICES ASSUME NEW i \in 1..Places
               PROVE  Len(outcomes'[SimulatedNodes[i]]) = IF i <= r + 1 THEN q + 1 ELSE q
    OBVIOUS
  <2>1. Len(outcomes[SimulatedNodes[i]]) = IF i <= r THEN q + 1 ELSE q
    BY <1>1 DEF TurnIs
  <2>2. CASE i = r + 1
    <3>1. outcomes'[SimulatedNodes[i]] = Append(outcomes[n], e)
      BY <1>2, <1>14, <2>2
    <3> QED  BY <1>9, <1>10, <2>2, <3>1
  <2>3. CASE i # r + 1
    <3>1. SimulatedNodes[i] # n /\ SimulatedNodes[i] \in NodeIds /\ r + 1 \in 1..Places
      BY <1>2, <2>3, NodesPlaced
    <3>2. outcomes'[SimulatedNodes[i]] = outcomes[SimulatedNodes[i]] /\ (i <= r + 1 <=> i <= r)
      BY <1>14, <2>3, <3>1
    <3> QED  BY <2>1, <3>2
  <2> QED  BY <2>2, <2>3
<1>20. \E qq \in Nat, rr \in 0..(Places - 1) : TurnIs(qq, rr)'
  <2>1. CASE r + 1 < Places
    <3>1. r + 1 \in 0..(Places - 1) /\ processed' = q * Places + (r + 1)
      <4>1. processed = q * Places + r /\ q * Places \in Nat
        BY <1>1, NodesPlaced DEF TurnIs
      <4> QED  BY <1>7, <2>1, <4>1, NodesPlaced
    <3>2. q <= BatchLength /\ q # BatchLength
      BY <1>9, GovernanceAssumption
    <3>3. TurnIs(q, r + 1)'
      BY <1>19, <3>1, <3>2 DEF TurnIs
    <3> QED  BY <3>1, <3>3
  <2>2. CASE ~ (r + 1 < Places)
    <3>1. r + 1 = Places /\ 0 \in 0..(Places - 1) /\ q + 1 \in Nat
      BY <2>2, NodesPlaced
    <3>2. processed' = (q + 1) * Places + 0
      <4>1. processed = q * Places + r /\ q * Places \in Nat
        BY <1>1, NodesPlaced DEF TurnIs
      <4>2. (q + 1) * Places = q * Places + Places
        BY NodesPlaced
      <4>3. (q + 1) * Places \in Nat
        BY NodesPlaced
      <4> QED  BY <1>7, <3>1, <4>1, <4>2, <4>3
    <3>3. \A i \in 1..Places : Len(outcomes'[SimulatedNodes[i]]) = IF i <= 0 THEN q + 1 + 1 ELSE q + 1
      <4>1. \A i \in 1..Places : i <= r + 1 /\ ~ (i <= 0)
        BY <3>1, NodesPlaced
      <4> QED  BY <1>19, <4>1
    <3>4. q + 1 <= BatchLength
      BY <1>9, GovernanceAssumption
    <3>5. TurnIs(q + 1, 0)'
      BY <3>2, <3>3, <3>4 DEF TurnIs
    <3> QED  BY <3>1, <3>5
  <2> QED  BY <2>1, <2>2
<1> QED  BY <1>16, <1>18, <1>20 DEF NetworkInv

LEMMA NetworkInvariant == GovernanceSpec => []NetworkInv
<1>1. NetworkInv /\ UNCHANGED governanceVars => NetworkInv'
  <2> SUFFICES ASSUME NetworkInv, UNCHANGED governanceVars PROVE NetworkInv'
    OBVIOUS
  <2>1. UNCHANGED <<policy, batch, processed, ledgers, violations, outcomes, found, clears>>
    BY DEF governanceVars
  <2>2. SettingsOK' /\ \E q \in Nat, r \in 0..(Places - 1) : TurnIs(q, r)'
    BY <2>1 DEF NetworkInv, SettingsOK, TurnIs
  <2>3. \A n \in NodeIds : NodeOK(n)'
    <3> SUFFICES ASSUME NEW n \in NodeIds PROVE NodeOK(n)'
      OBVIOUS
    <3>1. NodeOK(n) /\ \A i : Chain(n, i)' = Chain(n, i)
      BY <2>1 DEF NetworkInv, Chain
    <3> QED  BY <2>1, <3>1 DEF NodeOK, LastOf
  <2> QED  BY <2>2, <2>3 DEF NetworkInv
<1>2. NetworkInv /\ [GovernanceNext]_governanceVars => NetworkInv'
  BY <1>1, ClearKeepsNetwork, ProcessKeepsNetwork DEF GovernanceNext
<1> QED  BY <1>2, NetworkStarts, PTL DEF GovernanceSpec

\* However its layers are set, what the network keeps has the form it should have: a ledger
\* holds an entry per outcome, and a log no more than _MAX_VIOLATIONS (governance.py).
THEOREM NetworkTypeCorrect == GovernanceSpec => []GovernanceTypeOK
<1>1. NetworkInv => GovernanceTypeOK
  <2> SUFFICES ASSUME NetworkInv PROVE GovernanceTypeOK
    OBVIOUS
  <2>1. PICK q \in Nat, r \in 0..(Places - 1) : TurnIs(q, r)
    BY DEF NetworkInv
  <2>2. processed \in 0..(BatchLength * Places)
    <3>1. Places \in Nat \ {0} /\ BatchLength \in Nat /\ q <= BatchLength
          /\ (q = BatchLength => r = 0) /\ processed = q * Places + r
      BY <2>1, NodesPlaced DEF TurnIs
    <3>2. q * Places \in Nat /\ processed \in Nat
      BY <3>1
    <3>3. CASE q = BatchLength
      BY <3>1, <3>2, <3>3
    <3>4. CASE q # BatchLength
      <4>1. q + 1 <= BatchLength /\ (q + 1) * Places = q * Places + Places
        BY <3>1, <3>4
      <4>2. (q + 1) * Places <= BatchLength * Places
        BY <3>1, <4>1
      <4>3. BatchLength * Places \in Nat
        BY <3>1
      <4> QED  BY <3>1, <3>2, <4>1, <4>2, <4>3
    <3> QED  BY <3>3, <3>4
  <2>3. \A n \in NodeIds : Len(ledgers[n]) = Len(outcomes[n]) /\ Len(violations[n]) <= MaxViolations
    BY DEF NetworkInv, NodeOK, LastOf
  <2> QED  BY <2>2, <2>3 DEF GovernanceTypeOK, NetworkInv, SettingsOK, Places
<1> QED  BY <1>1, NetworkInvariant, PTL

\* However the layers are set and whatever contracts a run is given, no node acknowledges a
\* contract config forbids, a strict layer notes a violation for exactly the contracts it
\* halts, and a log ends with the newest of what its layer noted, up to its bound
\* (GovernanceLayer.enforce and _violations, governance.py).
THEOREM HaltsAreAlwaysNoted == GovernanceSpec => []HaltsAreNoted
<1>1. NetworkInv => HaltsAreNoted
  <2> SUFFICES ASSUME NetworkInv, NEW n \in NodeIds
               PROVE  /\ \A i \in DOMAIN outcomes[n] :
                            LET e == outcomes[n][i] IN
                            /\ ~ Halted(e) =>
                                  /\ Valid(batch[i], ConfigTypes, ConfigMinimum)
                                  /\ policy[n].strict => Valid(batch[i], policy[n].types, policy[n].minimum)
                            /\ NoWider(policy[n]) =>
                                  /\ Halted(e) => e.found # << >>
                                  /\ policy[n].strict /\ e.found # << >> => Halted(e)
                      /\ IsSuffix(violations[n], found[n])
                      /\ Len(violations[n]) = MaxViolations \/ violations[n] = found[n]
    BY DEF HaltsAreNoted
  <2>1. SettingsOK /\ NodeOK(n)
    BY DEF NetworkInv
  <2>2. /\ policy[n] \in Policies /\ violations[n] \in Seq(Note) /\ found[n] \in Seq(Note)
        /\ outcomes[n] \in Seq(Outcome) /\ LastOf(violations[n], found[n])
    BY <2>1 DEF SettingsOK, NodeOK
  <2>3. ASSUME NEW i \in DOMAIN outcomes[n]
        PROVE  LET e == outcomes[n][i] IN
               /\ ~ Halted(e) =>
                     /\ Valid(batch[i], ConfigTypes, ConfigMinimum)
                     /\ policy[n].strict => Valid(batch[i], policy[n].types, policy[n].minimum)
               /\ NoWider(policy[n]) =>
                     /\ Halted(e) => e.found # << >>
                     /\ policy[n].strict /\ e.found # << >> => Halted(e)
    <3>1. i \in 1..Len(outcomes[n]) /\ Len(outcomes[n]) \in Nat
      BY <2>2
    <3>2. i \in 1..BatchLength
      BY <2>1, <3>1, GovernanceAssumption DEF NodeOK
    <3>3. batch[i] \in Submitted
      BY <2>1, <3>2 DEF SettingsOK
    <3>4. outcomes[n][i] = Enforce(policy[n], batch[i])
      BY <2>1, <3>1 DEF NodeOK
    <3> QED  BY <2>2, <3>3, <3>4, EnforceIs
  <2>4. IsSuffix(violations[n], found[n])
    BY <2>2, LastIsSuffix
  <2>5. Len(violations[n]) = MaxViolations \/ violations[n] = found[n]
    <3>1. CASE Len(violations[n]) = Len(found[n])
      <4>1. \A i \in 1..Len(violations[n]) : Len(found[n]) - Len(violations[n]) + i = i
        BY <2>2, <3>1
      <4>2. \A i \in 1..Len(violations[n]) : violations[n][i] = found[n][i]
        BY <2>2, <4>1 DEF LastOf
      <4>3. \A a, b \in Seq(Note) : Len(a) = Len(b) /\ (\A i \in 1..Len(a) : a[i] = b[i]) => a = b
        OBVIOUS
      <4> QED  BY <2>2, <3>1, <4>2, <4>3
    <3> QED  BY <2>2, <3>1 DEF LastOf
  <2> QED  BY <2>3, <2>4, <2>5
<1> QED  BY <1>1, NetworkInvariant, PTL

\* Whatever the contracts and settings, the nodes' last hashes agree exactly when every node
\* came to the same result on every contract, and then their ledgers agree as a whole
\* (hash_agreement, ledger_agreement and passed, distributed_simulation.py).
THEOREM HashesTellResults == GovernanceSpec => []AgreementIsOnEveryResult
<1>1. NetworkInv => AgreementIsOnEveryResult
  <2> SUFFICES ASSUME NetworkInv, Finished
               PROVE  /\ HashAgreement <=> \A m, n \in NodeIds : \A i \in 1..BatchLength :
                                              outcomes[m][i].result = outcomes[n][i].result
                      /\ Passed <=> HashAgreement
    BY DEF AgreementIsOnEveryResult
  <2>1. PICK q \in Nat, r \in 0..(Places - 1) : TurnIs(q, r)
    BY DEF NetworkInv
  <2>2. BatchLength \in Nat \ {0}
    BY GovernanceAssumption
  <2>3. \A n \in NodeIds : Len(outcomes[n]) = BatchLength /\ Len(ledgers[n]) = BatchLength
    <3> SUFFICES ASSUME NEW n \in NodeIds
                 PROVE  Len(outcomes[n]) = BatchLength /\ Len(ledgers[n]) = BatchLength
      OBVIOUS
    <3>1. q = BatchLength /\ r = 0
      BY <2>1, TurnTells DEF TurnIs
    <3>2. PICK i \in 1..Places : n = SimulatedNodes[i]
      BY NodesPlaced
    <3>3. ~ (i <= 0)
      OBVIOUS
    <3>4. Len(outcomes[n]) = q
      BY <2>1, <3>1, <3>2, <3>3 DEF TurnIs
    <3> QED  BY <3>1, <3>4 DEF NetworkInv, NodeOK
  <2>4. \A n \in NodeIds : ledgers[n] \in Seq(Seq(Links)) /\ outcomes[n] \in Seq(Outcome)
    BY DEF NetworkInv, SettingsOK
  <2>5. \A n \in NodeIds : \A i \in 1..BatchLength : ledgers[n][i] = Chain(n, i)
    BY <2>3 DEF NetworkInv, NodeOK
  <2>6. \A n \in NodeIds : FinalHash(n) = Chain(n, BatchLength)
    <3> SUFFICES ASSUME NEW n \in NodeIds PROVE FinalHash(n) = Chain(n, BatchLength)
      OBVIOUS
    <3>1. ledgers[n] # << >> /\ Last(ledgers[n]) = ledgers[n][BatchLength] /\ BatchLength \in 1..BatchLength
      BY <2>2, <2>3, <2>4 DEF Last
    <3> QED  BY <2>5, <3>1 DEF FinalHash
  <2>7. \A n \in NodeIds : FinalHash(n) # << >>
    <3> SUFFICES ASSUME NEW n \in NodeIds PROVE FinalHash(n) # << >>
      OBVIOUS
    <3>1. 1 \in DOMAIN Chain(n, BatchLength) /\ DOMAIN << >> = {}
      BY <2>2 DEF Chain
    <3> QED  BY <2>6, <3>1
  \* Two chains are the same when their links are, and links when their results are.
  <2>8. \A n \in NodeIds : \A i \in 1..BatchLength : IsResult(outcomes[n][i].result)
    <3> SUFFICES ASSUME NEW n \in NodeIds, NEW i \in 1..BatchLength
                 PROVE  IsResult(outcomes[n][i].result)
      OBVIOUS
    <3>1. policy[n] \in Policies /\ batch[i] \in Submitted
      BY DEF NetworkInv, SettingsOK
    <3>2. outcomes[n][i] = Enforce(policy[n], batch[i])
      BY <2>3 DEF NetworkInv, NodeOK
    <3> QED  BY <3>1, <3>2, EnforceIs
  <2>9. \A c : \A x, y : IsResult(x) /\ IsResult(y) /\ Link(c, x) = Link(c, y) => x = y
    <3> SUFFICES ASSUME NEW c, NEW x, NEW y, IsResult(x), IsResult(y), Link(c, x) = Link(c, y)
                 PROVE  x = y
      OBVIOUS
    <3>1. x.hash = y.hash /\ x.ack = y.ack
      BY DEF Link
    <3> QED  BY <3>1 DEF IsResult
  <2>10. \A m, n \in NodeIds :
            FinalHash(m) = FinalHash(n) <=> \A i \in 1..BatchLength :
                                               outcomes[m][i].result = outcomes[n][i].result
    <3> SUFFICES ASSUME NEW m \in NodeIds, NEW n \in NodeIds
                 PROVE  Chain(m, BatchLength) = Chain(n, BatchLength)
                          <=> \A i \in 1..BatchLength : outcomes[m][i].result = outcomes[n][i].result
      BY <2>6
    <3>1. ASSUME Chain(m, BatchLength) = Chain(n, BatchLength), NEW i \in 1..BatchLength
          PROVE  outcomes[m][i].result = outcomes[n][i].result
      <4>1. Chain(m, BatchLength)[i] = Chain(n, BatchLength)[i]
        BY <3>1
      <4>2. Link(batch[i], outcomes[m][i].result) = Link(batch[i], outcomes[n][i].result)
        BY <4>1 DEF Chain
      <4> QED  BY <2>8, <2>9, <4>2
    <3>2. ASSUME \A i \in 1..BatchLength : outcomes[m][i].result = outcomes[n][i].result
          PROVE  Chain(m, BatchLength) = Chain(n, BatchLength)
      BY <3>2 DEF Chain
    <3> QED  BY <3>1, <3>2
  <2>11. HashAgreement <=> \A m, n \in NodeIds : \A i \in 1..BatchLength :
                              outcomes[m][i].result = outcomes[n][i].result
    BY <2>7, <2>10 DEF HashAgreement
  <2>12. HashAgreement => LedgerAgreement
    <3> SUFFICES ASSUME HashAgreement, NEW m \in NodeIds, NEW n \in NodeIds
                 PROVE  ledgers[m] = ledgers[n]
      BY DEF LedgerAgreement
    <3>1. \A i \in 1..BatchLength : outcomes[m][i].result = outcomes[n][i].result
      BY <2>11
    <3>2. \A i \in 1..BatchLength : Chain(m, i) = Chain(n, i)
      <4> SUFFICES ASSUME NEW i \in 1..BatchLength PROVE Chain(m, i) = Chain(n, i)
        OBVIOUS
      <4>1. \A j \in 1..i : j \in 1..BatchLength
        BY <2>2
      <4>2. \A j \in 1..i : outcomes[m][j].result = outcomes[n][j].result
        BY <3>1, <4>1
      <4> QED  BY <4>2 DEF Chain
    <3>3. \A i \in 1..BatchLength : ledgers[m][i] = ledgers[n][i]
      BY <2>5, <3>2
    <3>4. \A S : \A a, b \in Seq(S) : Len(a) = Len(b) /\ (\A i \in 1..Len(a) : a[i] = b[i]) => a = b
      OBVIOUS
    <3> QED  BY <2>3, <2>4, <3>3, <3>4
  <2> QED  BY <2>11, <2>12 DEF Passed
<1> QED  BY <1>1, NetworkInvariant, PTL

-----------------------------------------------------------------------------
(* The four parts together, as MCVerification explores them.               *)

\* A step of one part is no step of another; the harness is the one that uses the registry of
\* the trust layer as its own.
LEMMA StepOfAPart ==
  ASSUME [VerificationNext]_verificationVars
  PROVE  /\ subject' = subject
         /\ [ConsensusNext]_consensusVars /\ [GovernanceNext]_governanceVars
         /\ subject = "harness" => [HarnessNext]_<<trustVars, harnessVars>>
         /\ subject # "harness" => [TrustNext]_trustVars /\ UNCHANGED harnessVars
<1>1. CASE UNCHANGED verificationVars
  BY <1>1 DEF verificationVars
<1>2. CASE VerificationNext
  BY <1>2 DEF VerificationNext
<1> QED  BY <1>1, <1>2

\* A history of the four parts together is one of each part's own specification, but for the
\* fairness of the consensus engine, so what is proved of a part holds here: of the consensus
\* engine and the network always, of the trust layer unless the harness calls it, and of the
\* harness where it does.
THEOREM VerificationRunsItsParts ==
  VerificationSpec =>
    /\ ConsensusInit /\ [][ConsensusNext]_consensusVars
    /\ GovernanceSpec
    /\ subject = "harness" => HarnessSpec
    /\ subject # "harness" => TrustSpec
<1>1. VerificationInit => TrustInit /\ ConsensusInit /\ GovernanceInit /\ HarnessInit
  BY DEF VerificationInit
<1>2. [VerificationNext]_verificationVars => [ConsensusNext]_consensusVars /\ [GovernanceNext]_governanceVars
  BY StepOfAPart
<1>3. subject = "harness" /\ [VerificationNext]_verificationVars
        => [HarnessNext]_<<trustVars, harnessVars>> /\ (subject = "harness")'
  BY StepOfAPart
<1>4. subject # "harness" /\ [VerificationNext]_verificationVars
        => [TrustNext]_trustVars /\ (subject # "harness")'
  BY StepOfAPart
<1> QED
  BY <1>1, <1>2, <1>3, <1>4, PTL DEF VerificationSpec, GovernanceSpec, HarnessSpec, TrustSpec

\* Type correctness of the four parts in one history: the part that is explored keeps its form,
\* and so do those that wait.
THEOREM VerificationTypeCorrect == VerificationSpec => []VerificationTypeOK
<1> DEFINE Waits == subject # "harness" /\ HarnessInit
<1>1. VerificationSpec => []ConsensusTypeOK
  <2>1. LoopOK => ConsensusTypeOK
    BY DEF LoopOK
  <2> QED  BY <2>1, LoopInit, LoopNext, VerificationRunsItsParts, PTL
<1>2. VerificationSpec => []GovernanceTypeOK
  BY VerificationRunsItsParts, NetworkTypeCorrect, PTL
<1>3. VerificationSpec => (subject = "harness" => []HarnessTypeOK)
  BY VerificationRunsItsParts, HarnessTypeCorrect, PTL
<1>4. VerificationSpec => (subject # "harness" => []Waits)
  <2>1. VerificationInit => HarnessInit
    BY DEF VerificationInit
  <2>2. Waits /\ [VerificationNext]_verificationVars => Waits'
    BY StepOfAPart DEF HarnessInit, harnessVars
  <2> QED  BY <2>1, <2>2, PTL DEF VerificationSpec
<1>5. Waits => HarnessTypeOK
  BY HarnessAssumption DEF HarnessInit, HarnessTypeOK
<1>6. VerificationSpec => (subject # "harness" => []TrustTypeOK)
  BY VerificationRunsItsParts, TrustTypeCorrect, PTL
<1>7. VerificationSpec => (subject = "harness" => [](subject = "harness"))
  <2>1. subject = "harness" /\ [VerificationNext]_verificationVars => (subject = "harness")'
    BY StepOfAPart
  <2> QED  BY <2>1, PTL DEF VerificationSpec
<1>8. (subject = "harness" \/ TrustTypeOK) /\ ConsensusTypeOK /\ GovernanceTypeOK /\ HarnessTypeOK
        => VerificationTypeOK
  BY DEF VerificationTypeOK
<1>9. subject = "harness" \/ subject # "harness"
  OBVIOUS
<1> QED  BY <1>1, <1>2, <1>3, <1>4, <1>5, <1>6, <1>7, <1>8, <1>9, PTL
=============================================================================
