---------------------------- MODULE ReplayEnforcer ----------------------------
(***************************************************************************)
(* ReplayEnforcer of replay_enforcer.py: an in-memory replay cache with a  *)
(* time to live and a size limit.  submit() reads the clock and refuses a  *)
(* stale artifact before it takes the lock; the look-up, the numbering,    *)
(* the insertion and the eviction run under the lock and are one step.     *)
(* The clock a call has read may be old by the time it gets the lock.      *)
(***************************************************************************)
EXTENDS Integers, FiniteSets, FiniteSetsExt, Functions

CONSTANTS
    Callers,             \* threads that call submit
    Artifacts,           \* artifact ids
    ArtifactTTL,         \* ttl_seconds
    EvictionThreshold,   \* _EVICTION_THRESHOLD
    LastTick,            \* bound: where the clock stops
    Submissions          \* bound: calls of submit that are accepted

ASSUME EnforcerAssumption ==
    /\ ArtifactTTL \in Nat /\ EvictionThreshold \in Nat \ {0}
    /\ LastTick \in Nat /\ Submissions \in Nat

VARIABLES
    clock,      \* time.monotonic()
    calls,      \* what each caller carries into the lock
    cache,      \* _cache: artifact -> its number and issue date
    numbered,   \* _sequence_counter
    accepted,   \* history: times each artifact was accepted since the last reset
    dropped     \* history: times each artifact was evicted since the last reset

enforcerVars == <<clock, calls, cache, numbered, accepted, dropped>>

NoCall == [artifact |-> "none", issued |-> 0, now |-> 0]
Call   == [artifact : Artifacts, issued : Nat, now : Nat]

EnforcerInit ==
    /\ clock = 0 /\ calls = [t \in Callers |-> NoCall]
    /\ cache = [a \in {} |-> NoCall] /\ numbered = 0
    /\ accepted = [a \in Artifacts |-> 0] /\ dropped = [a \in Artifacts |-> 0]

-----------------------------------------------------------------------------
(* Eviction.                                                               *)

\* sorted(..., key=issued_at) is stable, and the dict is in the order of the numbers.
Before(c, a, b) ==
    \/ c[a].issued < c[b].issued
    \/ c[a].issued = c[b].issued /\ c[a].number < c[b].number

Oldest(c, S, n) == {a \in S : Cardinality({b \in S : Before(c, b, a)}) < n}

Batch == IF EvictionThreshold \div 10 > 1 THEN EvictionThreshold \div 10 ELSE 1

Unexpired(c, now) == {a \in DOMAIN c : now - c[a].issued <= ArtifactTTL}

\* Which entries _evict_if_needed leaves.
Survivors(c, now) ==
    IF Cardinality(DOMAIN c) < EvictionThreshold THEN DOMAIN c
    ELSE IF Cardinality(Unexpired(c, now)) < EvictionThreshold THEN Unexpired(c, now)
    ELSE Unexpired(c, now) \ Oldest(c, Unexpired(c, now), Batch)

-----------------------------------------------------------------------------
(* The operations.                                                         *)

Tick == clock < LastTick /\ clock' = clock + 1
        /\ UNCHANGED <<calls, cache, numbered, accepted, dropped>>

\* submit up to the lock.  A stale artifact is answered without it.
SubmitArtifact(t, a, issued) ==
    /\ calls[t] = NoCall
    /\ clock - issued <= ArtifactTTL
    /\ calls' = [calls EXCEPT ![t] = [artifact |-> a, issued |-> issued, now |-> clock]]
    /\ UNCHANGED <<clock, cache, numbered, accepted, dropped>>

RejectDuplicate(t) ==
    /\ calls[t] # NoCall /\ calls[t].artifact \in DOMAIN cache
    /\ calls' = [calls EXCEPT ![t] = NoCall]
    /\ UNCHANGED <<clock, cache, numbered, accepted, dropped>>

Entered(t) ==
    [a \in DOMAIN cache \cup {calls[t].artifact} |->
        IF a = calls[t].artifact THEN [number |-> numbered + 1, issued |-> calls[t].issued]
        ELSE cache[a]]

\* Mutant: the look-up is left to the moment before the lock.
AcceptUnchecked(t) ==
    /\ calls[t] # NoCall /\ numbered < Submissions
    /\ numbered' = numbered + 1
    /\ cache' = Restrict(Entered(t), Survivors(Entered(t), calls[t].now))
    /\ accepted' = [accepted EXCEPT ![calls[t].artifact] = @ + 1]
    /\ dropped' = [a \in Artifacts |-> IF a \in DOMAIN Entered(t) \ DOMAIN cache'
                                       THEN dropped[a] + 1 ELSE dropped[a]]
    /\ calls' = [calls EXCEPT ![t] = NoCall]
    /\ UNCHANGED clock

Accept(t) ==
    /\ calls[t] # NoCall /\ calls[t].artifact \notin DOMAIN cache /\ numbered < Submissions
    /\ numbered' = numbered + 1
    /\ cache' = Restrict(Entered(t), Survivors(Entered(t), calls[t].now))
    /\ accepted' = [accepted EXCEPT ![calls[t].artifact] = @ + 1]
    /\ dropped' = [a \in Artifacts |-> IF a \in DOMAIN Entered(t) \ DOMAIN cache'
                                       THEN dropped[a] + 1 ELSE dropped[a]]
    /\ calls' = [calls EXCEPT ![t] = NoCall]
    /\ UNCHANGED clock

\* reset() takes the lock too; a call that waits for it finds an empty cache.
ResetEnforcer ==
    /\ numbered > 0
    /\ numbered' = 0 /\ cache' = [a \in {} |-> NoCall]
    /\ accepted' = [a \in Artifacts |-> 0] /\ dropped' = [a \in Artifacts |-> 0]
    /\ UNCHANGED <<clock, calls>>

EnforcerNext ==
    \/ Tick \/ ResetEnforcer
    \/ \E t \in Callers :
          \/ \E a \in Artifacts, issued \in 0..clock : SubmitArtifact(t, a, issued)
          \/ RejectDuplicate(t) \/ Accept(t)

EnforcerSpec == EnforcerInit /\ [][EnforcerNext]_enforcerVars
-----------------------------------------------------------------------------
(* What the enforcer must guarantee.                                       *)

EnforcerTypeOK ==
    /\ clock \in Nat /\ numbered \in Nat
    /\ calls \in [Callers -> Call \cup {NoCall}]
    /\ DOMAIN cache \subseteq Artifacts
    /\ \A a \in DOMAIN cache : cache[a] \in [number : Nat, issued : Nat]
    /\ accepted \in [Artifacts -> Nat] /\ dropped \in [Artifacts -> Nat]

\* "Each artifact_id is accepted exactly once within its TTL window" (line 43), as far as it
\* goes: an artifact is remembered exactly as often as it was accepted and not evicted, so
\* that it passes a second time only after the eviction has dropped it.  No two of the cached
\* numbers are the same, and whatever clock the callers carry into the lock, and however few
\* entries have expired by it, the cache stays below its limit.
AcceptedOnceUnlessDropped ==
    /\ \A a \in Artifacts : accepted[a] - dropped[a] = IF a \in DOMAIN cache THEN 1 ELSE 0
    /\ \A a, b \in DOMAIN cache : cache[a].number = cache[b].number => a = b
    /\ Cardinality(DOMAIN cache) < EvictionThreshold
=============================================================================
