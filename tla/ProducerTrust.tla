---------------------------- MODULE ProducerTrust ----------------------------
(***************************************************************************)
(* ProducerRegistry and ProducerVerificationLayer                          *)
(* (producer_verification.py)                                              *)
(* as the trust service and the execution process use them: a producer met *)
(* for the first time is registered with the key it comes with, later its  *)
(* key is compared, then the contract is verified.                         *)
(* Each method of the registry holds its lock from end to end, a write of  *)
(* the file included; a vetting call is several such methods, and a key    *)
(* can be registered or revoked between any two of them.  _save swallows   *)
(* every exception.                                                        *)
(***************************************************************************)
EXTENDS Naturals, FiniteSets

CONSTANTS
    Producers, Keys, Types,
    Contracts,        \* what may be vetted: producer, type, the key it comes with and its signer
    Vetters,          \* threads that register on first contact, then verify
    Verifiers,        \* threads that call verify alone
    MaxAdmin,         \* bound: direct registrations and revocations
    MaxFaults         \* bound: failed saves, restarts and damage to the file

Threads == Vetters \cup Verifiers

Nothing == "nothing"    \* no key

ASSUME TrustAssumption ==
    /\ Nothing \notin Keys
    /\ Contracts \subseteq [producer : Producers, type : Types, key : Keys, signer : Keys]
    /\ Vetters \cap Verifiers = {}
    /\ MaxAdmin \in Nat /\ MaxFaults \in Nat

VARIABLES
    registry,      \* _registry: the entry of each registered producer
    revoked,       \* _revoked_keys
    file,          \* the registry and revoked keys a new process would load
    step,          \* where each thread is in its call
    contract,      \* the contract it vets
    keyRead,       \* the key verify has read
    revokedBefore, \* history: the keys revoked when its call began
    lost,          \* history: memory is not what the file says
    admin, faults  \* bounded counters

trustVars == <<registry, revoked, file, step, contract, keyRead, revokedBefore, lost, admin, faults>>
callVars  == <<step, contract, keyRead, revokedBefore>>

NoEntry    == [key |-> Nothing, types |-> {}]
Unknown    == [p \in Producers |-> NoEntry]
NoContract == [producer |-> Nothing, type |-> Nothing, key |-> Nothing, signer |-> Nothing]
EmptyFile  == [registry |-> Unknown, revoked |-> {}]

Ended == {"idle", "passed", "refused"}

TrustInit ==
    /\ registry = Unknown /\ revoked = {} /\ file = EmptyFile
    /\ step = [t \in Threads |-> "idle"]
    /\ contract = [t \in Threads |-> NoContract]
    /\ keyRead = [t \in Threads |-> Nothing]
    /\ revokedBefore = [t \in Threads |-> {}]
    /\ lost = FALSE /\ admin = 0 /\ faults = 0

Fault == faults < MaxFaults /\ faults' = faults + 1

-----------------------------------------------------------------------------
(* The registry: each operation is one critical section.                   *)

IsRegistered(p)  == registry[p] # NoEntry
PublicKey(p)     == registry[p].key
AllowedTypes(p)  == registry[p].types
IsRevoked(k)     == k \in revoked

\* The file is replaced as a whole or, an exception having been swallowed, not at all.
Save ==
    \/ file' = [registry |-> registry', revoked |-> revoked'] /\ lost' = FALSE /\ UNCHANGED faults
    \/ UNCHANGED file /\ lost' = TRUE /\ Fault

\* Mutant: a revoked key is registered like any other.
EnterUnchecked(p, k, types) ==
    /\ registry' = [registry EXCEPT ![p] = [key |-> k, types |-> types]]
    /\ UNCHANGED revoked /\ Save

\* register raises ValueError for a revoked key.
Enter(p, k, types) ==
    /\ ~ IsRevoked(k)
    /\ registry' = [registry EXCEPT ![p] = [key |-> k, types |-> types]]
    /\ UNCHANGED revoked /\ Save

Register(p, k, types) ==
    /\ admin < MaxAdmin /\ admin' = admin + 1
    /\ Enter(p, k, types)
    /\ UNCHANGED callVars

\* revoke_key evicts every producer that uses the key.
Revoke(k) ==
    /\ admin < MaxAdmin /\ admin' = admin + 1
    /\ revoked' = revoked \cup {k}
    /\ registry' = [p \in Producers |-> IF PublicKey(p) = k THEN NoEntry ELSE registry[p]]
    /\ Save /\ UNCHANGED callVars

\* Mutant: a new process loads the producers and forgets the revoked keys.
LoadProducersOnly == registry' = file.registry /\ revoked' = {}

Load == registry' = file.registry /\ revoked' = file.revoked

\* A new process on the same path; the calls of the old one are gone.
Restart ==
    /\ Fault /\ Load /\ lost' = FALSE
    /\ step' = [t \in Threads |-> "idle"]
    /\ contract' = [t \in Threads |-> NoContract]
    /\ keyRead' = [t \in Threads |-> Nothing]
    /\ revokedBefore' = [t \in Threads |-> {}]
    /\ UNCHANGED <<file, admin>>

\* Damage to the file: _load swallows the exception, so the entries before the damaged one
\* load, and the revoked keys, which come after all entries, do not.
FileDamaged ==
    /\ Fault /\ lost' = TRUE
    /\ \E intact \in SUBSET Producers :
          file' = [registry |-> [p \in Producers |-> IF p \in intact THEN file.registry[p] ELSE NoEntry],
                   revoked  |-> {}]
    /\ file' # file
    /\ UNCHANGED <<registry, revoked, callVars, admin>>

-----------------------------------------------------------------------------
(* A vetting call.                                                         *)

KeepRegistry == UNCHANGED <<registry, revoked, file, lost, admin, faults>>

Goto(t, label) == step' = [step EXCEPT ![t] = label]
OnlyStep(t, label) == Goto(t, label) /\ KeepRegistry /\ UNCHANGED <<contract, keyRead, revokedBefore>>
Refuse(t) == OnlyStep(t, "refused")

Begin(t, c) ==
    /\ step[t] \in Ended
    /\ Goto(t, IF t \in Vetters THEN "vet" ELSE "identity")
    /\ contract' = [contract EXCEPT ![t] = c]
    /\ keyRead' = [keyRead EXCEPT ![t] = Nothing]
    /\ revokedBefore' = [revokedBefore EXCEPT ![t] = revoked]
    /\ KeepRegistry

\* First contact, or a producer known already.
Vet(t) ==
    /\ step[t] = "vet"
    /\ OnlyStep(t, IF IsRegistered(contract[t].producer) THEN "compare" ELSE "register")

RegisterOnContact(t) ==
    /\ step[t] = "register"
    /\ LET c == contract[t] IN
       \/ /\ Enter(c.producer, c.key, {c.type}) /\ Goto(t, "identity")
          /\ UNCHANGED <<contract, keyRead, revokedBefore, admin>>
       \/ IsRevoked(c.key) /\ Refuse(t)

CompareKey(t) ==
    /\ step[t] = "compare"
    /\ OnlyStep(t, IF PublicKey(contract[t].producer) = contract[t].key THEN "identity" ELSE "refused")

CheckIdentity(t) ==
    /\ step[t] = "identity"
    /\ OnlyStep(t, IF IsRegistered(contract[t].producer) THEN "key" ELSE "refused")

\* The producer may have been evicted since: the key is then None.
ReadKey(t) ==
    /\ step[t] = "key" /\ Goto(t, "revocation")
    /\ keyRead' = [keyRead EXCEPT ![t] = PublicKey(contract[t].producer)]
    /\ KeepRegistry /\ UNCHANGED <<contract, revokedBefore>>

\* Mutant: the signature is verified under the key on the contract, not the one read.
CheckSignatureOfClaim(t) ==
    /\ step[t] = "revocation"
    /\ OnlyStep(t, IF ~ IsRevoked(keyRead[t]) /\ contract[t].key = contract[t].signer
                   THEN "types" ELSE "refused")

\* The revocation list, then the signatures under the key read; none verifies under None.
CheckRevocation(t) ==
    /\ step[t] = "revocation"
    /\ OnlyStep(t, IF ~ IsRevoked(keyRead[t]) /\ keyRead[t] = contract[t].signer
                   THEN "types" ELSE "refused")

CheckTypes(t) ==
    /\ step[t] = "types"
    /\ OnlyStep(t, IF contract[t].type \in AllowedTypes(contract[t].producer)
                   THEN "passed" ELSE "refused")

TrustStep(t) ==
    \/ Vet(t) \/ RegisterOnContact(t) \/ CompareKey(t)
    \/ CheckIdentity(t) \/ ReadKey(t) \/ CheckRevocation(t) \/ CheckTypes(t)

TrustNext ==
    \/ \E t \in Threads : TrustStep(t) \/ \E c \in Contracts : Begin(t, c)
    \/ \E k \in Keys : Revoke(k) \/ \E p \in Producers, ts \in SUBSET Types : Register(p, k, ts)
    \/ Restart \/ FileDamaged

TrustSpec == TrustInit /\ [][TrustNext]_trustVars

-----------------------------------------------------------------------------
(* Properties.                                                             *)

Entries == [key : Keys, types : SUBSET Types] \cup {NoEntry}

\* The state has its form, and a key has been read by every call that is past reading it.
TrustTypeOK ==
    /\ registry \in [Producers -> Entries] /\ revoked \subseteq Keys
    /\ file \in [registry : [Producers -> Entries], revoked : SUBSET Keys]
    /\ step \in [Threads -> Ended \cup {"vet", "register", "compare", "identity", "key",
                                        "revocation", "types"}]
    /\ contract \in [Threads -> Contracts \cup {NoContract}]
    /\ keyRead \in [Threads -> Keys \cup {Nothing}]
    /\ revokedBefore \in [Threads -> SUBSET Keys]
    /\ lost \in BOOLEAN /\ admin \in 0..MaxAdmin /\ faults \in 0..MaxFaults
    /\ \A t \in Threads : step[t] \in {"types", "passed"} => keyRead[t] # Nothing

\* No registered producer uses a revoked key, in memory or in the file.
RevokedNotRegistered ==
    \A p \in Producers : PublicKey(p) \notin revoked /\ file.registry[p].key \notin file.revoked

\* A contract that passed was signed with the key read for its producer, and no key whose
\* revocation was complete before the call passes, whatever happened during it.
PassedUnrevoked ==
    \A t \in Threads : step[t] \in {"types", "passed"} =>
        keyRead[t] = contract[t].signer /\ keyRead[t] \notin revokedBefore[t]

\* If every save worked and the file is whole, a revocation outlives the process.
RevocationSurvives == [][~ lost => revoked \subseteq revoked']_trustVars
=============================================================================
