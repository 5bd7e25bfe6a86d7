----------------------------- MODULE RecordsProofs -----------------------------
(***************************************************************************)
(* Theorems about the parts that keep, in memory, what happened to the     *)
(* contracts: the in-memory replay cache, the trace store, the evidence    *)
(* ledger, the chain of custody, the capability registry and the socket    *)
(* transport, for any threads, artifacts, traces, records, routes and      *)
(* limits.  They share no state, and each has a section of its own, but    *)
(* for the audit trail, which has a module.  Last, all of them as one run  *)
(* explores them: a history of the seven together is one of each.          *)
(***************************************************************************)
EXTENDS MCRecords, AuditTrailProofs, FiniteSetTheorems

-----------------------------------------------------------------------------
(* Sequences.                                                              *)

LEMMA Elements ==
  \A S : \A s \in Seq(S) : /\ DOMAIN s = 1..Len(s) /\ Len(s) \in Nat
                           /\ \A i \in DOMAIN s : s[i] \in S
  OBVIOUS

LEMMA Appending ==
  \A S : \A s \in Seq(S) : \A x \in S :
     /\ Append(s, x) \in Seq(S) /\ Len(Append(s, x)) = Len(s) + 1
     /\ Append(s, x)[Len(s) + 1] = x /\ \A i \in 1..Len(s) : Append(s, x)[i] = s[i]
  OBVIOUS

LEMMA Concatenating ==
  \A S : \A s, t \in Seq(S) :
     /\ s \o t \in Seq(S) /\ Len(s \o t) = Len(s) + Len(t)
     /\ \A i \in 1..Len(s) : (s \o t)[i] = s[i]
     /\ \A i \in 1..Len(t) : (s \o t)[Len(s) + i] = t[i]
  OBVIOUS

-----------------------------------------------------------------------------
(* The replay cache.                                                       *)

Cached(c) == \A a \in DOMAIN c : c[a] \in [number : Nat, issued : Nat]

-----------------------------------------------------------------------------
(* Eviction.                                                               *)

\* The sort of _evict_if_needed has a first element.
LEMMA SomeFirst ==
  ASSUME NEW c, Cached(c), NEW S \in SUBSET DOMAIN c, S # {}
  PROVE  \E a \in S : \A b \in S : ~ Before(c, b, a)
<1> DEFINE dates == {c[a].issued : a \in S}
<1>1. dates \in SUBSET Nat /\ dates # {}
  BY DEF Cached
<1>2. PICK d \in dates : \A e \in dates : d <= e
  BY <1>1, LeastNumber
<1> DEFINE first   == {a \in S : c[a].issued = d}
           numbers == {c[a].number : a \in first}
<1>3. numbers \in SUBSET Nat /\ numbers # {}
  BY <1>2 DEF Cached
<1>4. PICK n \in numbers : \A k \in numbers : n <= k
  BY <1>3, LeastNumber
<1>5. PICK a \in first : c[a].number = n
  BY <1>4
<1>6. ASSUME NEW b \in S PROVE ~ Before(c, b, a)
  <2>1. d <= c[b].issued /\ c[a].issued = d
    BY <1>2, <1>5
  <2>2. c[b].issued = d => c[a].number <= c[b].number
    BY <1>4, <1>5
  <2>3. /\ c[a].issued \in Nat /\ c[b].issued \in Nat
        /\ c[a].number \in Nat /\ c[b].number \in Nat
    BY <1>5 DEF Cached
  <2> QED  BY <2>1, <2>2, <2>3 DEF Before
<1> QED  BY <1>5, <1>6

\* Whatever the clock says, an eviction leaves fewer entries than the limit: if none has
\* expired, at least the oldest goes (lines 111-115).
LEMMA SurvivorsAreFew ==
  ASSUME NEW c, Cached(c), NEW now \in Nat, IsFiniteSet(DOMAIN c),
         Cardinality(DOMAIN c) <= EvictionThreshold
  PROVE  /\ Survivors(c, now) \subseteq DOMAIN c /\ IsFiniteSet(Survivors(c, now))
         /\ Cardinality(Survivors(c, now)) < EvictionThreshold
<1> DEFINE U == Unexpired(c, now)
<1>1. EvictionThreshold \in Nat \ {0} /\ Cardinality(DOMAIN c) \in Nat
  BY EnforcerAssumption, FS_CardinalityType
<1>2. U \subseteq DOMAIN c
  BY DEF Unexpired
<1>3. IsFiniteSet(U) /\ Cardinality(U) \in Nat /\ Cardinality(U) <= Cardinality(DOMAIN c)
  BY <1>2, FS_Subset, FS_CardinalityType
<1>a. CASE Cardinality(DOMAIN c) < EvictionThreshold
  BY <1>a DEF Survivors
<1>b. CASE ~ (Cardinality(DOMAIN c) < EvictionThreshold) /\ Cardinality(U) < EvictionThreshold
  BY <1>b, <1>2, <1>3 DEF Survivors
<1>c. CASE /\ ~ (Cardinality(DOMAIN c) < EvictionThreshold)
           /\ ~ (Cardinality(U) < EvictionThreshold)
  <2> DEFINE left == U \ Oldest(c, U, Batch)
  <2>1. Survivors(c, now) = left
    BY <1>c DEF Survivors
  <2>2. U # {}
    BY <1>c, <1>1, <1>3, FS_EmptySet
  <2>3. PICK a \in U : \A b \in U : ~ Before(c, b, a)
    BY <1>2, <2>2, SomeFirst
  <2>4. {b \in U : Before(c, b, a)} = {}
    BY <2>3
  <2>5. Cardinality({b \in U : Before(c, b, a)}) = 0
    BY <2>4, FS_EmptySet
  <2>6. 0 < Batch
    BY <1>1 DEF Batch
  <2>7. a \in Oldest(c, U, Batch)
    BY <2>3, <2>5, <2>6 DEF Oldest
  <2>8. left \subseteq U \ {a}
    BY <2>7
  <2>9. /\ IsFiniteSet(U \ {a}) /\ Cardinality(U \ {a}) = Cardinality(U) - 1
    BY <1>3, <2>3, FS_RemoveElement
  <2>10. /\ IsFiniteSet(left) /\ Cardinality(left) \in Nat
         /\ Cardinality(left) <= Cardinality(U \ {a})
    BY <2>8, <2>9, FS_Subset, FS_CardinalityType
  <2> QED  BY <2>1, <2>8, <2>9, <2>10, <1>1, <1>2, <1>3
<1> QED  BY <1>a, <1>b, <1>c

-----------------------------------------------------------------------------
(* The inductive invariant: the cached entries are finitely many and none  *)
(* has a number above the counter.                                         *)

NumbersUsed == \A a \in DOMAIN cache : cache[a].number <= numbered

EnforcerInv ==
    /\ EnforcerTypeOK
    /\ AcceptedOnceUnlessDropped
    /\ NumbersUsed
    /\ IsFiniteSet(DOMAIN cache)

LEMMA EnforcerInitial == EnforcerInit => EnforcerInv
<1> SUFFICES ASSUME EnforcerInit PROVE EnforcerInv
  OBVIOUS
<1>1. DOMAIN cache = {}
  BY DEF EnforcerInit
<1>2. IsFiniteSet(DOMAIN cache) /\ Cardinality(DOMAIN cache) = 0
  BY <1>1, FS_EmptySet
<1>3. EnforcerTypeOK
  BY <1>1 DEF EnforcerInit, EnforcerTypeOK
<1>4. AcceptedOnceUnlessDropped
  BY <1>1, <1>2, EnforcerAssumption DEF EnforcerInit, AcceptedOnceUnlessDropped
<1> QED  BY <1>1, <1>2, <1>3, <1>4 DEF EnforcerInv, NumbersUsed

\* What Accept makes of the cache before and after the eviction.
LEMMA EnteredCache ==
  ASSUME EnforcerInv, NEW t \in Callers, calls[t] \in Call,
         calls[t].artifact \notin DOMAIN cache
  PROVE  LET e == Entered(t) IN
         /\ DOMAIN e = DOMAIN cache \cup {calls[t].artifact}
         /\ e[calls[t].artifact] = [number |-> numbered + 1, issued |-> calls[t].issued]
         /\ \A a \in DOMAIN cache : e[a] = cache[a]
         /\ Cached(e) /\ IsFiniteSet(DOMAIN e)
         /\ Cardinality(DOMAIN e) <= EvictionThreshold
<1> DEFINE e == Entered(t)
<1>1. /\ DOMAIN e = DOMAIN cache \cup {calls[t].artifact}
      /\ e[calls[t].artifact] = [number |-> numbered + 1, issued |-> calls[t].issued]
      /\ \A a \in DOMAIN cache : e[a] = cache[a]
  BY DEF Entered
<1>2. numbered + 1 \in Nat /\ calls[t].issued \in Nat
  BY DEF EnforcerInv, EnforcerTypeOK, Call
<1>3. Cached(e)
  BY <1>1, <1>2 DEF Cached, EnforcerInv, EnforcerTypeOK
<1>4. IsFiniteSet(DOMAIN e) /\ Cardinality(DOMAIN e) = Cardinality(DOMAIN cache) + 1
  BY <1>1, FS_AddElement DEF EnforcerInv
<1>5. Cardinality(DOMAIN cache) \in Nat /\ Cardinality(DOMAIN cache) < EvictionThreshold
  BY FS_CardinalityType DEF EnforcerInv, AcceptedOnceUnlessDropped
<1>6. Cardinality(DOMAIN e) <= EvictionThreshold
  BY <1>4, <1>5, EnforcerAssumption
<1> QED  BY <1>1, <1>3, <1>4, <1>6

LEMMA AcceptKeeps ==
  ASSUME EnforcerInv, NEW t \in Callers, Accept(t)
  PROVE  EnforcerInv'
<1> DEFINE e    == Entered(t)
           new  == calls[t].artifact
           kept == Survivors(e, calls[t].now)
<1>1. calls[t] \in Call /\ new \in Artifacts /\ calls[t].now \in Nat /\ new \notin DOMAIN cache
  BY DEF Accept, EnforcerInv, EnforcerTypeOK, Call
<1>2. /\ DOMAIN e = DOMAIN cache \cup {new}
      /\ e[new] = [number |-> numbered + 1, issued |-> calls[t].issued]
      /\ \A a \in DOMAIN cache : e[a] = cache[a]
      /\ Cached(e) /\ IsFiniteSet(DOMAIN e)
      /\ Cardinality(DOMAIN e) <= EvictionThreshold
  BY <1>1, EnteredCache
<1>3. /\ kept \subseteq DOMAIN e /\ IsFiniteSet(kept)
      /\ Cardinality(kept) < EvictionThreshold
  BY <1>1, <1>2, SurvivorsAreFew
<1>4. cache' = [a \in kept |-> e[a]]
  BY DEF Accept, Restrict
<1>5. DOMAIN cache' = kept /\ \A a \in kept : cache'[a] = e[a]
  BY <1>4
<1>6. /\ accepted' = [accepted EXCEPT ![new] = @ + 1] /\ numbered' = numbered + 1
      /\ dropped' = [a \in Artifacts |-> IF a \in DOMAIN e \ DOMAIN cache'
                                         THEN dropped[a] + 1 ELSE dropped[a]]
      /\ calls' = [calls EXCEPT ![t] = NoCall] /\ clock' = clock
  BY DEF Accept
<1>7. /\ numbered \in Nat /\ accepted \in [Artifacts -> Nat] /\ dropped \in [Artifacts -> Nat]
      /\ calls \in [Callers -> Call \cup {NoCall}] /\ clock \in Nat
      /\ DOMAIN cache \subseteq Artifacts
  BY DEF EnforcerInv, EnforcerTypeOK
<1> HIDE DEF e, new, kept
<1>8. EnforcerTypeOK'
  <2>1. DOMAIN cache' \subseteq Artifacts
    BY <1>1, <1>2, <1>3, <1>5, <1>7
  <2>2. \A a \in DOMAIN cache' : cache'[a] \in [number : Nat, issued : Nat]
    BY <1>2, <1>3, <1>5 DEF Cached
  <2>3. accepted' \in [Artifacts -> Nat] /\ dropped' \in [Artifacts -> Nat]
    BY <1>1, <1>6, <1>7
  <2>4. calls' \in [Callers -> Call \cup {NoCall}] /\ clock' \in Nat /\ numbered' \in Nat
    BY <1>6, <1>7
  <2> QED  BY <2>1, <2>2, <2>3, <2>4 DEF EnforcerTypeOK
<1>9. NumbersUsed'
  <2> SUFFICES ASSUME NEW a \in DOMAIN cache' PROVE cache'[a].number <= numbered + 1
    BY <1>6 DEF NumbersUsed
  <2>1. CASE a = new
    BY <2>1, <1>2, <1>5, <1>7
  <2>2. CASE a \in DOMAIN cache
    <3>1. cache[a].number <= numbered /\ cache[a].number \in Nat
      BY <2>2 DEF EnforcerInv, NumbersUsed, EnforcerTypeOK
    <3> QED  BY <3>1, <2>2, <1>2, <1>5, <1>7
  <2> QED  BY <2>1, <2>2, <1>2, <1>3, <1>5
<1>10. AcceptedOnceUnlessDropped'
  <2>1. ASSUME NEW a \in Artifacts
        PROVE  accepted'[a] - dropped'[a] = IF a \in DOMAIN cache' THEN 1 ELSE 0
    <3>1. accepted[a] - dropped[a] = IF a \in DOMAIN cache THEN 1 ELSE 0
      BY DEF EnforcerInv, AcceptedOnceUnlessDropped
    <3>2. accepted[a] \in Nat /\ dropped[a] \in Nat
      BY <1>7
    <3>3. accepted'[a] = IF a = new THEN accepted[a] + 1 ELSE accepted[a]
      BY <1>6, <1>7
    <3>4. dropped'[a] = IF a \in DOMAIN e \ DOMAIN cache' THEN dropped[a] + 1 ELSE dropped[a]
      BY <1>6
    <3>5. DOMAIN cache' \subseteq DOMAIN e /\ (a \in DOMAIN e <=> a \in DOMAIN cache \/ a = new)
      BY <1>2, <1>3, <1>5
    <3>6. a = new => a \notin DOMAIN cache
      BY <1>1 DEF new
    <3> QED  BY <3>1, <3>2, <3>3, <3>4, <3>5, <3>6
  <2>2. ASSUME NEW a \in DOMAIN cache', NEW b \in DOMAIN cache',
               cache'[a].number = cache'[b].number
        PROVE  a = b
    <3>1. \A x \in DOMAIN cache : cache[x].number \in Nat /\ cache[x].number <= numbered
      BY DEF EnforcerInv, EnforcerTypeOK, NumbersUsed
    <3>2. \A x \in DOMAIN cache' :
             \/ x = new /\ cache'[x].number = numbered + 1
             \/ x \in DOMAIN cache /\ cache'[x].number = cache[x].number
      BY <1>2, <1>3, <1>5
    <3>3. \A x, y \in DOMAIN cache : cache[x].number = cache[y].number => x = y
      BY DEF EnforcerInv, AcceptedOnceUnlessDropped
    <3> QED  BY <2>2, <3>1, <3>2, <3>3, <1>7
  <2>3. Cardinality(DOMAIN cache') < EvictionThreshold
    BY <1>3, <1>5
  <2> QED  BY <2>1, <2>2, <2>3 DEF AcceptedOnceUnlessDropped
<1> QED  BY <1>3, <1>5, <1>8, <1>9, <1>10 DEF EnforcerInv

LEMMA ResetKeeps ==
  ASSUME EnforcerInv, ResetEnforcer
  PROVE  EnforcerInv'
<1>1. DOMAIN cache' = {}
  BY DEF ResetEnforcer
<1>2. IsFiniteSet(DOMAIN cache') /\ Cardinality(DOMAIN cache') = 0
  BY <1>1, FS_EmptySet
<1>3. EnforcerTypeOK'
  BY <1>1 DEF ResetEnforcer, EnforcerInv, EnforcerTypeOK
<1>4. AcceptedOnceUnlessDropped'
  BY <1>1, <1>2, EnforcerAssumption DEF ResetEnforcer, AcceptedOnceUnlessDropped
<1> QED  BY <1>1, <1>2, <1>3, <1>4 DEF EnforcerInv, NumbersUsed

\* The other steps leave the cache and its history alone.
LEMMA QuietKeeps ==
  ASSUME EnforcerInv, UNCHANGED <<cache, numbered, accepted, dropped>>, EnforcerTypeOK'
  PROVE  EnforcerInv'
  BY DEF EnforcerInv, AcceptedOnceUnlessDropped, NumbersUsed

LEMMA EnforcerStep ==
  ASSUME EnforcerInv, [EnforcerNext]_enforcerVars
  PROVE  EnforcerInv'
<1>1. CASE Tick
  <2>1. EnforcerTypeOK'
    BY <1>1 DEF Tick, EnforcerInv, EnforcerTypeOK
  <2> QED  BY <1>1, <2>1, QuietKeeps DEF Tick
<1>2. CASE ResetEnforcer
  BY <1>2, ResetKeeps
<1>3. ASSUME NEW t \in Callers, NEW a \in Artifacts, NEW issued \in 0..clock,
             SubmitArtifact(t, a, issued)
      PROVE  EnforcerInv'
  <2>1. [artifact |-> a, issued |-> issued, now |-> clock] \in Call
    BY DEF EnforcerInv, EnforcerTypeOK, Call
  <2>2. EnforcerTypeOK'
    BY <1>3, <2>1 DEF SubmitArtifact, EnforcerInv, EnforcerTypeOK
  <2> QED  BY <1>3, <2>2, QuietKeeps DEF SubmitArtifact
<1>4. ASSUME NEW t \in Callers, RejectDuplicate(t) PROVE EnforcerInv'
  <2>1. EnforcerTypeOK'
    BY <1>4 DEF RejectDuplicate, EnforcerInv, EnforcerTypeOK
  <2> QED  BY <1>4, <2>1, QuietKeeps DEF RejectDuplicate
<1>5. ASSUME NEW t \in Callers, Accept(t) PROVE EnforcerInv'
  BY <1>5, AcceptKeeps
<1>6. CASE UNCHANGED enforcerVars
  <2>1. EnforcerTypeOK'
    BY <1>6 DEF enforcerVars, EnforcerInv, EnforcerTypeOK
  <2> QED  BY <1>6, <2>1, QuietKeeps DEF enforcerVars
<1> QED  BY <1>1, <1>2, <1>3, <1>4, <1>5, <1>6 DEF EnforcerNext

-----------------------------------------------------------------------------
LEMMA EnforcerInvariant == EnforcerSpec => []EnforcerInv
  BY EnforcerInitial, EnforcerStep, PTL DEF EnforcerSpec

\* Every variable of the replay cache keeps its type.
THEOREM EnforcerTypeCorrect == EnforcerSpec => []EnforcerTypeOK
<1>1. EnforcerInv => EnforcerTypeOK
  BY DEF EnforcerInv
<1> QED  BY EnforcerInvariant, <1>1, PTL

\* An artifact passes ReplayEnforcer.submit (replay_enforcer.py:55-99) again only after an
\* eviction has dropped it, and the cache never reaches its limit, whatever clock readings
\* the callers carry into the lock.
THEOREM AcceptsAgainOnlyDropped == EnforcerSpec => []AcceptedOnceUnlessDropped
<1>1. EnforcerInv => AcceptedOnceUnlessDropped
  BY DEF EnforcerInv
<1> QED  BY EnforcerInvariant, <1>1, PTL

-----------------------------------------------------------------------------
(* The trace store.                                                        *)

\* An entry that waits to be recorded has no number yet, and the counter is the number of
\* the entries recorded so far.
NumbersToCome ==
    /\ \A t \in Recorders : unrecorded[t].sequence = 0
    /\ counter = Len(recorded)

TraceInv == TraceTypeOK /\ NumberedByRecording /\ NumbersToCome

-----------------------------------------------------------------------------
(* The deque.                                                              *)

\* The deque k is the end of s with e appended, and within the limit.
EndOf(k, s, e) ==
    /\ k \in Seq(Entry) /\ Len(k) <= MaxTraceEntries /\ Len(k) \in 1..(Len(s) + 1)
    /\ \A i \in DOMAIN k : k[i] = Append(s, e)[Len(s) + 1 - Len(k) + i]

\* An append to a deque that is within its limit keeps it there, and keeps the last of what
\* was appended.
LEMMA KeptIsSuffix ==
  ASSUME NEW s \in Seq(Entry), NEW e \in Entry, Len(s) <= MaxTraceEntries
  PROVE  EndOf(Kept(Append(s, e)), s, e)
<1> DEFINE a == Append(s, e)
<1>1. a \in Seq(Entry) /\ Len(a) = Len(s) + 1 /\ Len(s) \in Nat
  OBVIOUS
<1>2. MaxTraceEntries \in Nat \ {0}
  BY TraceStoreAssumption
<1> HIDE DEF a
<1>3. CASE Len(a) > MaxTraceEntries
  <2>1. Kept(a) = Tail(a)
    BY <1>3 DEF Kept
  <2>2. /\ Tail(a) \in Seq(Entry) /\ Len(Tail(a)) = Len(a) - 1
        /\ \A i \in 1..(Len(a) - 1) : Tail(a)[i] = a[i + 1]
    BY <1>1, <1>2, <1>3
  <2>3. DOMAIN Tail(a) = 1..(Len(a) - 1)
    BY <2>2
  <2>4. Len(s) + 1 - Len(Tail(a)) = 1 /\ Len(Tail(a)) = Len(s)
    BY <2>2, <1>1
  <2>5. \A i \in DOMAIN Tail(a) : Tail(a)[i] = a[Len(s) + 1 - Len(Tail(a)) + i]
    BY <2>2, <2>3, <2>4
  <2>6. Len(s) >= 1
    BY <1>1, <1>2, <1>3
  <2>7. /\ Len(Tail(a)) <= MaxTraceEntries /\ Len(Tail(a)) \in 1..(Len(s) + 1)
    BY <2>4, <2>6, <1>1
  <2>8. EndOf(Tail(a), s, e)
    BY <2>2, <2>5, <2>7 DEF a, EndOf
  <2> QED  BY <2>1, <2>8 DEF a
<1>4. CASE ~ (Len(a) > MaxTraceEntries)
  <2>1. Kept(a) = a
    BY <1>4 DEF Kept
  <2>2. \A i \in DOMAIN a : a[i] = a[Len(s) + 1 - Len(a) + i]
    BY <1>1
  <2>3. Len(a) <= MaxTraceEntries /\ Len(a) \in 1..(Len(s) + 1)
    BY <1>1, <1>2, <1>4
  <2>4. EndOf(a, s, e)
    BY <2>2, <2>3, <1>1 DEF a, EndOf
  <2> QED  BY <2>1, <2>4 DEF a
<1> QED  BY <1>3, <1>4

-----------------------------------------------------------------------------
LEMMA TraceInitial == TraceInit => TraceInv
<1> SUFFICES ASSUME TraceInit PROVE TraceInv
  OBVIOUS
<1>1. TraceTypeOK
  <2>1. \A r \in Readers : view[r] = NoView
    BY DEF TraceInit, NoView
  <2>2. NoView.copy = <<>> /\ NoView.at = 0 /\ NoView.trace = "none"
    BY DEF NoView
  <2>3. <<>> \in Seq(Entry)
    OBVIOUS
  <2>4. \A r \in Readers : /\ view[r].copy \in Seq(Entry) /\ view[r].at \in Nat
                           /\ view[r].trace \in Traces \cup {"none"}
    <3> SUFFICES ASSUME NEW r \in Readers
                 PROVE  /\ view[r].copy \in Seq(Entry) /\ view[r].at \in Nat
                        /\ view[r].trace \in Traces \cup {"none"}
      OBVIOUS
    <3>1. view[r].copy = <<>> /\ view[r].at = 0 /\ view[r].trace = "none"
      BY <2>1, <2>2
    <3> QED  BY <2>3, <3>1
  <2> QED  BY <2>3, <2>4 DEF TraceInit, TraceTypeOK
<1>2. NumberedByRecording
  BY TraceStoreAssumption DEF TraceInit, NumberedByRecording
<1>3. NumbersToCome
  BY DEF TraceInit, NumbersToCome, NoEntry
<1> QED  BY <1>1, <1>2, <1>3 DEF TraceInv

LEMMA BuildKeeps ==
  ASSUME TraceInv, NEW t \in Recorders, NEW trace \in Traces, NEW y \in TraceTypes,
         BuildEntry(t, trace, y)
  PROVE  TraceInv'
<1>1. [trace |-> trace, type |-> y, sequence |-> 0] \in Entry
  BY DEF Entry
<1>2. TraceTypeOK'
  BY <1>1 DEF BuildEntry, TraceInv, TraceTypeOK
<1>3. NumberedByRecording'
  BY DEF BuildEntry, TraceInv, NumberedByRecording, Span
<1>4. NumbersToCome'
  <2>1. \A u \in Recorders : unrecorded'[u].sequence = 0
    BY DEF BuildEntry, TraceInv, NumbersToCome, TraceTypeOK
  <2> QED  BY <2>1 DEF BuildEntry, TraceInv, NumbersToCome
<1> QED  BY <1>2, <1>3, <1>4 DEF TraceInv

LEMMA RecordKeeps ==
  ASSUME TraceInv, NEW t \in Recorders, Record(t)
  PROVE  TraceInv'
<1> DEFINE e   == Numbered(unrecorded[t])
           cut == Len(recorded) - Len(entries)
<1>1. /\ unrecorded[t] \in Entry /\ unrecorded[t].sequence = 0
      /\ counter = Len(recorded) /\ counter \in Nat
      /\ entries \in Seq(Entry) /\ recorded \in Seq(Entry)
  BY DEF Record, TraceInv, TraceTypeOK, NumbersToCome
<1>2. e \in Entry /\ e.sequence = counter + 1
  BY <1>1 DEF Numbered, Entry
<1>3. /\ entries' = Kept(Append(entries, e)) /\ recorded' = Append(recorded, e)
      /\ counter' = counter + 1 /\ unrecorded' = [unrecorded EXCEPT ![t] = NoEntry]
      /\ view' = view /\ damaged' = damaged
  BY DEF Record
<1> HIDE DEF e
<1>4. /\ Len(entries) <= MaxTraceEntries /\ Len(entries) <= Len(recorded)
      /\ \A i \in DOMAIN entries : entries[i] = recorded[cut + i]
      /\ \A i \in DOMAIN recorded : recorded[i].sequence = i
  BY DEF TraceInv, NumberedByRecording
<1>5. /\ entries' \in Seq(Entry) /\ Len(entries') <= MaxTraceEntries
      /\ Len(entries') \in 1..(Len(entries) + 1)
      /\ \A i \in DOMAIN entries' :
            entries'[i] = Append(entries, e)[Len(entries) + 1 - Len(entries') + i]
  <2>1. EndOf(Kept(Append(entries, e)), entries, e)
    BY <1>1, <1>2, <1>4, KeptIsSuffix
  <2>2. EndOf(entries', entries, e)
    BY <2>1, <1>3
  <2> QED  BY <2>2 DEF EndOf
<1>6. /\ recorded' \in Seq(Entry) /\ Len(recorded') = Len(recorded) + 1
      /\ recorded'[Len(recorded) + 1] = e
      /\ \A i \in 1..Len(recorded) : recorded'[i] = recorded[i]
  BY <1>1, <1>2, <1>3
<1>7. Len(recorded) \in Nat /\ Len(entries) \in Nat /\ Len(entries') \in Nat
  BY <1>1, <1>5
<1>8. TraceTypeOK'
  <2>1. counter' \in Nat /\ entries' \in Seq(Entry) /\ recorded' \in Seq(Entry)
    BY <1>1, <1>3, <1>5, <1>6
  <2>2. unrecorded' \in [Recorders -> Entry \cup {NoEntry}]
    BY <1>3 DEF TraceInv, TraceTypeOK
  <2> QED  BY <2>1, <2>2, <1>3 DEF TraceInv, TraceTypeOK
<1>9. NumberedByRecording'
  <2>1. Len(entries') <= Len(recorded')
    BY <1>4, <1>5, <1>6, <1>7
  <2>2. ASSUME NEW i \in DOMAIN entries'
        PROVE  entries'[i] = recorded'[Len(recorded') - Len(entries') + i]
    <3> DEFINE j == Len(entries) + 1 - Len(entries') + i
    <3>1. i \in 1..Len(entries') /\ j \in 1..(Len(entries) + 1)
      BY <1>5, <1>7
    <3>2. cut + j = Len(recorded') - Len(entries') + i
      BY <3>1, <1>6, <1>7
    <3>3. entries'[i] = Append(entries, e)[j]
      BY <1>5
    <3>a. CASE j = Len(entries) + 1
      <4>1. Append(entries, e)[j] = e
        BY <3>a, <1>1
      <4>2. cut + j = Len(recorded) + 1
        BY <3>a, <1>7
      <4> QED  BY <4>1, <4>2, <3>2, <3>3, <1>6
    <3>b. CASE j \in 1..Len(entries)
      <4>1. Append(entries, e)[j] = entries[j]
        BY <3>b, <1>1
      <4>2. entries[j] = recorded[cut + j]
        BY <3>b, <1>1, <1>4
      <4>3. cut + j \in 1..Len(recorded)
        BY <3>b, <1>4, <1>7
      <4> QED  BY <4>1, <4>2, <4>3, <3>2, <3>3, <1>6
    <3> QED  BY <3>1, <3>a, <3>b, <1>7
  <2>3. \A i \in DOMAIN recorded' : recorded'[i].sequence = i
    <3> SUFFICES ASSUME NEW i \in DOMAIN recorded' PROVE recorded'[i].sequence = i
      OBVIOUS
    <3>1. i \in 1..(Len(recorded) + 1)
      BY <1>6
    <3>2. CASE i = Len(recorded) + 1
      BY <3>2, <1>1, <1>2, <1>6
    <3>3. CASE i \in 1..Len(recorded)
      BY <3>3, <1>1, <1>4, <1>6
    <3> QED  BY <3>1, <3>2, <3>3, <1>7
  <2>4. \A i, j \in DOMAIN recorded' : Span(recorded'[i]) = Span(recorded'[j]) => i = j
    BY <2>3 DEF Span
  <2> QED  BY <1>5, <2>1, <2>2, <2>3, <2>4 DEF NumberedByRecording, Span
<1>10. NumbersToCome'
  <2>1. \A u \in Recorders : unrecorded'[u].sequence = 0
    BY <1>3 DEF TraceInv, TraceTypeOK, NumbersToCome, NoEntry
  <2> QED  BY <2>1, <1>1, <1>3, <1>6 DEF NumbersToCome
<1> QED  BY <1>8, <1>9, <1>10 DEF TraceInv

LEMMA ClearKeeps ==
  ASSUME TraceInv, Clear
  PROVE  TraceInv'
<1>1. /\ entries' = <<>> /\ UNCHANGED <<counter, unrecorded, view, damaged, recorded>>
  BY DEF Clear
<1>2. TraceTypeOK'
  BY <1>1 DEF TraceInv, TraceTypeOK
<1>3. NumberedByRecording'
  <2>1. Len(entries') = 0 /\ DOMAIN entries' = {}
    BY <1>1
  <2>2. Len(recorded) \in Nat
    BY DEF TraceInv, TraceTypeOK
  <2> QED
    BY <1>1, <2>1, <2>2, TraceStoreAssumption DEF TraceInv, NumberedByRecording, Span
<1>4. NumbersToCome'
  BY <1>1 DEF TraceInv, NumbersToCome
<1> QED  BY <1>2, <1>3, <1>4 DEF TraceInv

\* Readers and damage leave the numbers alone.
LEMMA QuietTrace ==
  ASSUME TraceInv, UNCHANGED <<entries, counter, unrecorded, recorded>>, TraceTypeOK'
  PROVE  TraceInv'
  BY DEF TraceInv, NumberedByRecording, NumbersToCome, Span

LEMMA TraceStep ==
  ASSUME TraceInv, [TraceNext]_traceVars
  PROVE  TraceInv'
<1>1. ASSUME NEW t \in Recorders, NEW trace \in Traces, NEW y \in TraceTypes,
             BuildEntry(t, trace, y)
      PROVE  TraceInv'
  BY <1>1, BuildKeeps
<1>2. ASSUME NEW t \in Recorders, Record(t) PROVE TraceInv'
  BY <1>2, RecordKeeps
<1>3. ASSUME NEW r \in Readers, NEW trace \in Traces, CopyEntries(r, trace) PROVE TraceInv'
  <2>1. Len(recorded) \in Nat
    BY DEF TraceInv, TraceTypeOK
  <2>2. view' = [view EXCEPT ![r] = [copy |-> entries, trace |-> trace, at |-> Len(recorded)]]
    BY <1>3 DEF CopyEntries
  <2>3. \A s \in Readers : /\ view'[s].copy \in Seq(Entry) /\ view'[s].at \in Nat
                           /\ view'[s].trace \in Traces \cup {"none"}
    <3> SUFFICES ASSUME NEW s \in Readers
                 PROVE  /\ view'[s].copy \in Seq(Entry) /\ view'[s].at \in Nat
                        /\ view'[s].trace \in Traces \cup {"none"}
      OBVIOUS
    <3>1. CASE s \in DOMAIN view /\ s = r
      BY <3>1, <2>1, <2>2 DEF TraceInv, TraceTypeOK
    <3>2. CASE ~ (s \in DOMAIN view /\ s = r)
      BY <3>2, <2>2 DEF TraceInv, TraceTypeOK
    <3> QED  BY <3>1, <3>2
  <2>4. TraceTypeOK'
    BY <1>3, <2>3 DEF CopyEntries, TraceInv, TraceTypeOK
  <2> QED  BY <1>3, <2>4, QuietTrace DEF CopyEntries
<1>4. ASSUME NEW r \in Readers, Answer(r) PROVE TraceInv'
  <2>1. \A s \in Readers : /\ view'[s].copy \in Seq(Entry) /\ view'[s].at \in Nat
                           /\ view'[s].trace \in Traces \cup {"none"}
    BY <1>4 DEF Answer, TraceInv, TraceTypeOK, NoView
  <2>2. TraceTypeOK'
    BY <1>4, <2>1 DEF Answer, TraceInv, TraceTypeOK
  <2> QED  BY <1>4, <2>2, QuietTrace DEF Answer
<1>5. CASE Clear
  BY <1>5, ClearKeeps
<1>6. ASSUME NEW n \in 1..counter, Damage(n) PROVE TraceInv'
  <2>1. n \in Nat
    BY DEF TraceInv, TraceTypeOK
  <2>2. TraceTypeOK'
    BY <1>6, <2>1 DEF Damage, TraceInv, TraceTypeOK
  <2> QED  BY <1>6, <2>2, QuietTrace DEF Damage
<1>7. CASE UNCHANGED traceVars
  <2>1. TraceTypeOK'
    BY <1>7 DEF traceVars, TraceInv, TraceTypeOK
  <2> QED  BY <1>7, <2>1, QuietTrace DEF traceVars
<1> QED  BY <1>1, <1>2, <1>3, <1>4, <1>5, <1>6, <1>7 DEF TraceNext

-----------------------------------------------------------------------------
LEMMA TraceInvariant == TraceSpec => []TraceInv
  BY TraceInitial, TraceStep, PTL DEF TraceSpec

\* Every variable of the trace store keeps its type.
THEOREM TraceTypeCorrect == TraceSpec => []TraceTypeOK
<1>1. TraceInv => TraceTypeOK
  BY DEF TraceInv
<1> QED  BY TraceInvariant, <1>1, PTL

\* Entries get their number under the lock of TraceStore.record (observability.py:124-137):
\* the numbers are those of the recordings, the deque holds the last of them, and no span id
\* is exported for two entries, for any number of threads and any limit.
THEOREM NumbersAreRecordings == TraceSpec => []NumberedByRecording
<1>1. TraceInv => NumberedByRecording
  BY DEF TraceInv
<1> QED  BY TraceInvariant, <1>1, PTL

-----------------------------------------------------------------------------
(* Reconstruction.  A reader's copy is the end of what had been recorded;  *)
(* its entries of one trace have different numbers, so that stage and      *)
(* number put them into one strict order, and a sorted list of them exists *)
(* (each entry stands at the number of entries that are not after it).     *)

\* What a reader holds is the end of what was recorded up to the time of its copy.
ViewOK(v) ==
    /\ v.at <= Len(recorded) /\ Len(v.copy) <= v.at
    /\ \A i \in DOMAIN v.copy : v.copy[i] = recorded[v.at - Len(v.copy) + i]

PathInv ==
    /\ TraceInv
    /\ DOMAIN view = Readers
    /\ \A r \in Readers : view[r] # NoView => ViewOK(view[r])

LEMMA PathTypes ==
  ASSUME PathInv
  PROVE  /\ recorded \in Seq(Entry) /\ entries \in Seq(Entry) /\ Len(recorded) \in Nat
         /\ \A r \in Readers : view[r].copy \in Seq(Entry) /\ view[r].at \in Nat
  BY DEF PathInv, TraceInv, TraceTypeOK

\* What was recorded stays recorded, and so does what a reader holds of it.
LEMMA ViewsStay ==
  ASSUME PathInv, NEW r \in Readers, view[r] # NoView, Len(recorded') \in Nat,
         Len(recorded') >= Len(recorded),
         \A n \in 1..Len(recorded) : recorded'[n] = recorded[n], view' = view
  PROVE  ViewOK(view[r])'
<1>1. PICK v : v = view[r]
  OBVIOUS
<1>2. v.copy \in Seq(Entry) /\ v.at \in Nat /\ ViewOK(v) /\ Len(recorded) \in Nat
  BY <1>1, PathTypes DEF PathInv
<1>3. DOMAIN v.copy = 1..Len(v.copy) /\ Len(v.copy) \in Nat
  BY <1>2
<1>4. v.at <= Len(recorded) /\ Len(v.copy) <= v.at
  BY <1>2 DEF ViewOK
<1>5. ASSUME NEW i \in DOMAIN v.copy PROVE v.copy[i] = recorded'[v.at - Len(v.copy) + i]
  <2>1. v.at - Len(v.copy) + i \in 1..Len(recorded)
    BY <1>2, <1>3, <1>4
  <2> QED  BY <1>2, <2>1 DEF ViewOK
<1>6. v.at <= Len(recorded')
  BY <1>2, <1>4
<1> QED  BY <1>1, <1>4, <1>5, <1>6 DEF ViewOK

LEMMA PathStep ==
  ASSUME PathInv, TraceInv', [TraceNext]_traceVars
  PROVE  PathInv'
<1>1. CASE UNCHANGED <<view, recorded>>
  BY <1>1 DEF PathInv, ViewOK
<1>2. ASSUME NEW t \in Recorders, Record(t) PROVE PathInv'
  <2>1. view' = view /\ recorded' = Append(recorded, Numbered(unrecorded[t]))
    BY <1>2 DEF Record
  <2>2. recorded' \in Seq(Entry)
    BY DEF TraceInv, TraceTypeOK
  <2>3. PICK e : e = Numbered(unrecorded[t])
    OBVIOUS
  <2>4. /\ Len(recorded') \in Nat /\ Len(recorded') >= Len(recorded)
        /\ \A n \in 1..Len(recorded) : recorded'[n] = recorded[n]
    BY <2>1, <2>2, <2>3, PathTypes
  <2> QED  BY <2>1, <2>4, ViewsStay DEF PathInv
<1>3. ASSUME NEW r \in Readers, NEW trace \in Traces, CopyEntries(r, trace) PROVE PathInv'
  <2>1. PICK v : v = [copy |-> entries, trace |-> trace, at |-> Len(recorded)]
    OBVIOUS
  <2>2. view' = [view EXCEPT ![r] = v] /\ UNCHANGED <<entries, recorded>>
    BY <1>3, <2>1 DEF CopyEntries
  <2>3. v.copy = entries /\ v.at = Len(recorded)
    BY <2>1
  <2>4. ViewOK(v)
    <3>1. /\ Len(entries) <= Len(recorded)
          /\ \A i \in DOMAIN entries : entries[i] = recorded[Len(recorded) - Len(entries) + i]
      BY DEF PathInv, TraceInv, NumberedByRecording
    <3> QED  BY <2>3, <3>1, PathTypes DEF ViewOK
  <2>5. DOMAIN view' = Readers
    BY <2>2 DEF PathInv
  <2>6. ASSUME NEW s \in Readers, view'[s] # NoView PROVE ViewOK(view[s])'
    <3>1. CASE s = r
      BY <2>2, <2>4, <3>1 DEF PathInv, ViewOK
    <3>2. CASE s # r
      BY <2>2, <2>6, <3>2 DEF PathInv, ViewOK
    <3> QED  BY <3>1, <3>2
  <2> QED  BY <2>5, <2>6 DEF PathInv
<1>4. ASSUME NEW r \in Readers, Answer(r) PROVE PathInv'
  <2>1. view' = [view EXCEPT ![r] = NoView] /\ recorded' = recorded
    BY <1>4 DEF Answer
  <2> QED  BY <2>1 DEF PathInv, ViewOK
<1> QED
  BY <1>1, <1>2, <1>3, <1>4 DEF TraceNext, BuildEntry, Clear, Damage, traceVars

\* The type order of reconstruct_replay knows every type.
LEMMA StagesKnown ==
  ASSUME NEW e \in Entry
  PROVE  Stage(e) \in Nat /\ TypeOrder[Stage(e)] = e.type
<1>1. e.type \in Range(TypeOrder)
  BY TraceStoreAssumption DEF Entry
<1>2. \E i \in DOMAIN TypeOrder : TypeOrder[i] = e.type
  BY <1>1 DEF Range
<1>3. Stage(e) \in DOMAIN TypeOrder /\ TypeOrder[Stage(e)] = e.type
  BY <1>2 DEF Stage
<1>4. DOMAIN TypeOrder \subseteq Nat
  BY DEF TypeOrder
<1> QED  BY <1>3, <1>4

\* Stage and number order the entries of a set strictly, if no two have the same number.
LEMMA SoonerOrders ==
  ASSUME NEW S \in SUBSET Entry, \A a, b \in S : a.sequence = b.sequence => a = b
  PROVE  /\ \A a \in S : ~ Sooner(a, a)
         /\ \A a, b, c \in S : Sooner(a, b) /\ Sooner(b, c) => Sooner(a, c)
         /\ \A a, b \in S : a = b \/ Sooner(a, b) \/ Sooner(b, a)
<1>1. \A a \in S : Stage(a) \in Nat /\ a.sequence \in Nat
  BY StagesKnown DEF Entry
<1> QED  BY <1>1 DEF Sooner

\* A sorted list of a finite set exists, and holds exactly its elements.
LEMMA Sorting ==
  ASSUME NEW S \in SUBSET Entry, IsFiniteSet(S),
         \A a, b \in S : a.sequence = b.sequence => a = b
  PROVE  \E s \in [1..Cardinality(S) -> S] :
            \A i, j \in DOMAIN s : i < j => Sooner(s[i], s[j])
<1>1. /\ \A a \in S : ~ Sooner(a, a)
      /\ \A a, b, c \in S : Sooner(a, b) /\ Sooner(b, c) => Sooner(a, c)
      /\ \A a, b \in S : a = b \/ Sooner(a, b) \/ Sooner(b, a)
  BY SoonerOrders
<1>2. PICK N \in Nat : N = Cardinality(S)
  BY FS_CardinalityType
<1> DEFINE UpTo(e) == {d \in S : d = e \/ Sooner(d, e)}
           rank    == [e \in S |-> Cardinality(UpTo(e))]
<1>3. ASSUME NEW e \in S PROVE IsFiniteSet(UpTo(e)) /\ rank[e] \in 1..N
  <2>1. UpTo(e) \in SUBSET S /\ {e} \in SUBSET UpTo(e)
    OBVIOUS
  <2> HIDE DEF UpTo
  <2>2. IsFiniteSet(UpTo(e)) /\ Cardinality(UpTo(e)) <= N
    BY <1>2, <2>1, FS_Subset
  <2>3. Cardinality({e}) = 1 /\ Cardinality({e}) <= Cardinality(UpTo(e))
    BY <2>1, <2>2, FS_Subset, FS_Singleton
  <2>4. Cardinality(UpTo(e)) \in Nat
    BY <2>2, FS_CardinalityType
  <2> QED  BY <1>2, <2>2, <2>3, <2>4
<1>4. ASSUME NEW d \in S, NEW e \in S, Sooner(d, e) PROVE rank[d] < rank[e]
  <2>1. UpTo(d) \in SUBSET UpTo(e) /\ e \in UpTo(e) /\ e \notin UpTo(d)
    BY <1>1, <1>4
  <2> HIDE DEF UpTo
  <2>2. IsFiniteSet(UpTo(e)) /\ IsFiniteSet(UpTo(d)) /\ UpTo(d) # UpTo(e)
    BY <1>3, <2>1
  <2>3. Cardinality(UpTo(d)) <= Cardinality(UpTo(e)) /\ Cardinality(UpTo(d)) # Cardinality(UpTo(e))
    BY <2>1, <2>2, FS_Subset
  <2>4. Cardinality(UpTo(d)) \in Nat /\ Cardinality(UpTo(e)) \in Nat
    BY <2>2, FS_CardinalityType
  <2> QED  BY <2>3, <2>4
<1>5. rank \in [S -> 1..N] /\ \A e \in S : rank[e] \in 1..N
  BY <1>3
<1> HIDE DEF rank
<1>6. \A d, e \in S : rank[d] = rank[e] => d = e
  <2>1. \A d, e \in S : Sooner(d, e) => rank[d] # rank[e]
    BY <1>4, <1>5
  <2> QED  BY <1>1, <2>1
<1>7. rank \in Surjection(S, 1..N)
  <2>1. rank \in Injection(S, 1..N)
    BY <1>5, <1>6 DEF Injection, IsInjective
  <2>2. IsFiniteSet(1..N) /\ Cardinality(1..N) = N
    BY FS_Interval
  <2> QED  BY <1>2, <2>1, <2>2, FS_Injection
<1>8. \A i \in 1..N : \E e \in S : rank[e] = i
  BY <1>7 DEF Surjection
<1> DEFINE s == [i \in 1..N |-> CHOOSE e \in S : rank[e] = i]
<1>9. s \in [1..N -> S] /\ \A i \in 1..N : rank[s[i]] = i
  BY <1>8
<1> HIDE DEF s
<1>10. ASSUME NEW i \in 1..N, NEW j \in 1..N, i < j PROVE Sooner(s[i], s[j])
  <2>1. s[i] \in S /\ s[j] \in S /\ rank[s[i]] = i /\ rank[s[j]] = j
    BY <1>9
  <2>2. s[i] # s[j] /\ ~ Sooner(s[j], s[i])
    BY <1>4, <1>10, <2>1
  <2> QED  BY <1>1, <2>1, <2>2
<1> QED  BY <1>2, <1>9, <1>10

\* The entries of its trace that a reader copied, by their places in the recording.
LEMMA CopiedEntries ==
  ASSUME PathInv, NEW r \in Readers, view[r] # NoView
  PROVE  /\ Query(view[r].copy, view[r].trace) = {recorded[n] : n \in Copied(r)}
         /\ \A n \in Copied(r) : n \in Nat /\ recorded[n] \in Entry /\ recorded[n].sequence = n
<1>1. PICK v : v = view[r]
  OBVIOUS
<1>2. v.copy \in Seq(Entry) /\ v.at \in Nat /\ ViewOK(v) /\ Len(recorded) \in Nat
      /\ recorded \in Seq(Entry)
  BY <1>1, PathTypes DEF PathInv
<1>3. PICK k \in Nat : k = Len(v.copy) /\ DOMAIN v.copy = 1..k
  BY <1>2
<1>4. v.at <= Len(recorded) /\ k <= v.at /\ \A i \in 1..k : v.copy[i] = recorded[v.at - k + i]
  BY <1>2, <1>3 DEF ViewOK
<1>5. Copied(r) = {n \in (v.at - k + 1)..v.at : recorded[n].trace = v.trace}
  BY <1>1, <1>3 DEF Copied
<1>6. ASSUME NEW n \in Copied(r)
      PROVE  n \in Nat /\ recorded[n] \in Entry /\ recorded[n].sequence = n
  <2>1. n \in 1..Len(recorded)
    BY <1>2, <1>4, <1>5
  <2>2. n \in DOMAIN recorded /\ recorded[n] \in Entry
    BY <1>2, <2>1
  <2> QED  BY <2>1, <2>2 DEF PathInv, TraceInv, NumberedByRecording
<1>7. ASSUME NEW e \in Query(v.copy, v.trace) PROVE \E n \in Copied(r) : e = recorded[n]
  <2>1. PICK i \in 1..k : e = v.copy[i] /\ e.trace = v.trace
    BY <1>3 DEF Query, Range
  <2>2. v.at - k + i \in (v.at - k + 1)..v.at /\ recorded[v.at - k + i] = e
    BY <1>2, <1>4, <2>1
  <2> QED  BY <1>5, <2>1, <2>2
<1>8. ASSUME NEW n \in Copied(r) PROVE recorded[n] \in Query(v.copy, v.trace)
  <2>1. n \in (v.at - k + 1)..v.at /\ recorded[n].trace = v.trace
    BY <1>5
  <2>2. PICK i \in Int : i = n - (v.at - k)
    BY <1>2, <2>1
  <2>3. i \in 1..k /\ n = v.at - k + i
    BY <1>2, <2>1, <2>2
  <2>4. recorded[n] = v.copy[i]
    BY <1>4, <2>3
  <2> QED  BY <1>3, <2>1, <2>3, <2>4 DEF Query, Range
<1> QED  BY <1>1, <1>6, <1>7, <1>8

\* The sorted chain tells just those, in the order of the pipeline.
LEMMA ChainIsPath ==
  ASSUME PathInv, NEW r \in Readers, view[r] # NoView, NEW chain,
         chain = Chain(view[r].copy, view[r].trace)
  PROVE  /\ Range(chain) = {recorded[n] : n \in Copied(r)}
         /\ \A i, j \in DOMAIN chain : i < j =>
               \/ Stage(chain[i]) < Stage(chain[j])
               \/ /\ chain[i].type = chain[j].type
                  /\ \E m, n \in Copied(r) : m < n /\ chain[i] = recorded[m] /\ chain[j] = recorded[n]
<1>1. PICK S : S = Query(view[r].copy, view[r].trace)
  OBVIOUS
<1>2. /\ S = {recorded[n] : n \in Copied(r)}
      /\ \A n \in Copied(r) : n \in Nat /\ recorded[n] \in Entry /\ recorded[n].sequence = n
  BY <1>1, CopiedEntries
<1>3. S \in SUBSET Entry /\ \A a, b \in S : a.sequence = b.sequence => a = b
  BY <1>2
<1>4. IsFiniteSet(S)
  <2>1. PICK c \in Seq(Entry) : c = view[r].copy
    BY PathTypes
  <2>2. PICK k \in Nat : k = Len(c) /\ DOMAIN c = 1..k
    BY <2>1
  <2>3. c \in Surjection(1..k, Range(c))
    BY <2>1, <2>2 DEF Surjection, Range
  <2>4. IsFiniteSet(Range(c))
    BY <2>3, FS_Interval, FS_Surjection
  <2>5. S \in SUBSET Range(c)
    BY <1>1, <2>1 DEF Query
  <2> QED  BY <2>4, <2>5, FS_Subset
<1>5. PICK N \in Nat : N = Cardinality(S)
  BY <1>4, FS_CardinalityType
<1> DEFINE Sorted(s) == \A i, j \in DOMAIN s : i < j => Sooner(s[i], s[j])
<1>6. \E s \in [1..N -> S] : Sorted(s)
  BY <1>3, <1>4, <1>5, Sorting
<1>7. chain = CHOOSE s \in [1..N -> S] : Sorted(s)
  BY <1>1, <1>5 DEF Chain
<1>8. chain \in [1..N -> S] /\ Sorted(chain)
  BY <1>6, <1>7
<1>9. Range(chain) = S
  <2>1. \A a \in S : ~ Sooner(a, a)
    BY <1>3, SoonerOrders
  <2>2. ASSUME NEW i \in 1..N, NEW j \in 1..N, chain[i] = chain[j] PROVE i = j
    <3>1. ~ (i < j) /\ ~ (j < i)
      BY <1>8, <2>1, <2>2
    <3> QED  BY <3>1
  <2>3. chain \in Injection(1..N, S)
    BY <1>8, <2>2 DEF Injection, IsInjective
  <2>4. chain \in Surjection(1..N, S)
    <3>1. Cardinality(1..N) = N
      BY FS_Interval
    <3> QED  BY <1>4, <1>5, <2>3, <3>1, FS_Injection
  <2> QED  BY <1>8, <2>4 DEF Surjection, Range
<1>10. ASSUME NEW i \in DOMAIN chain, NEW j \in DOMAIN chain, i < j
       PROVE  \/ Stage(chain[i]) < Stage(chain[j])
              \/ /\ chain[i].type = chain[j].type
                 /\ \E m, n \in Copied(r) : m < n /\ chain[i] = recorded[m] /\ chain[j] = recorded[n]
  <2>1. Sooner(chain[i], chain[j]) /\ chain[i] \in S /\ chain[j] \in S
    BY <1>8, <1>10
  <2>2. CASE Stage(chain[i]) < Stage(chain[j])
    BY <2>2
  <2>3. CASE Stage(chain[i]) = Stage(chain[j]) /\ chain[i].sequence < chain[j].sequence
    <3>1. chain[i].type = chain[j].type
      BY <1>3, <2>1, <2>3, StagesKnown
    <3>2. PICK m \in Copied(r) : chain[i] = recorded[m]
      BY <1>2, <2>1
    <3>3. PICK n \in Copied(r) : chain[j] = recorded[n]
      BY <1>2, <2>1
    <3>4. m < n
      BY <1>2, <2>3, <3>2, <3>3
    <3> QED  BY <3>1, <3>2, <3>3, <3>4
  <2> QED  BY <2>1, <2>2, <2>3 DEF Sooner
<1> QED  BY <1>2, <1>9, <1>10

\* A reconstruction (TraceStore.reconstruct_replay) tells the entries that the reader copied
\* of the trace, each once, stage after stage and within a stage in the order of recording,
\* whatever was recorded, dropped or cleared since the copy was taken.
THEOREM PathIsReconstructed == TraceSpec => []ReconstructsRecordedPath
<1>1. TraceInit => PathInv
  <2> SUFFICES ASSUME TraceInit PROVE PathInv
    OBVIOUS
  <2>1. view = [r \in Readers |-> NoView]
    BY DEF TraceInit
  <2> QED  BY <2>1, TraceInitial DEF PathInv
<1>2. PathInv /\ TraceInv' /\ [TraceNext]_traceVars => PathInv'
  BY PathStep
<1>3. PathInv => ReconstructsRecordedPath
  <2> SUFFICES ASSUME PathInv, NEW r \in Readers, view[r] # NoView,
                      NEW chain, chain = ReconstructReplay(view[r].copy, view[r].trace).chain
               PROVE  /\ Range(chain) = {recorded[n] : n \in Copied(r)}
                      /\ \A i, j \in DOMAIN chain : i < j =>
                            \/ Stage(chain[i]) < Stage(chain[j])
                            \/ /\ chain[i].type = chain[j].type
                               /\ \E m, n \in Copied(r) :
                                     m < n /\ chain[i] = recorded[m] /\ chain[j] = recorded[n]
    BY DEF ReconstructsRecordedPath
  <2>1. chain = Chain(view[r].copy, view[r].trace)
    BY DEF ReconstructReplay
  <2> QED  BY <2>1, ChainIsPath
<1> QED  BY <1>1, <1>2, <1>3, TraceInvariant, PTL DEF TraceSpec

-----------------------------------------------------------------------------
(* The evidence ledger.                                                    *)

\* The head after the first i records that were appended.
HeadAfter(i) == [j \in 1..i |-> made[j].hash]

\* Whatever is done to the records, the hashes and the head keep the chain as it was made.
ChainKept ==
    /\ Len(hashes) = Len(made) /\ head = HeadAfter(Len(made)) /\ Len(records) <= Len(made)
    /\ \A i \in 1..Len(made) : /\ hashes[i] = HeadAfter(i)
                               /\ made[i].previous \in {Unlinked, HeadAfter(i - 1)}
    /\ alterations = 0 => records = made

EvidenceInv == LedgerTypeOK /\ ChainKept

LEMMA EvidenceStarts == LedgerInit => EvidenceInv
<1> SUFFICES ASSUME LedgerInit PROVE EvidenceInv
  OBVIOUS
<1>1. /\ records = << >> /\ hashes = << >> /\ head = << >> /\ made = << >> /\ alterations = 0
      /\ Alterations \in Nat
  BY LedgerAssumption DEF LedgerInit, Genesis
<1>2. /\ << >> \in Seq(LedgerRecords) /\ << >> \in Seq(Seq(ExecutionIds)) /\ << >> \in Seq(ExecutionIds)
  OBVIOUS
<1>3. LedgerTypeOK
  BY <1>1, <1>2 DEF LedgerTypeOK
<1>4. HeadAfter(0) = << >>
  BY DEF HeadAfter
<1> QED  BY <1>1, <1>3, <1>4 DEF EvidenceInv, ChainKept

\* One element more of a function on 1..n that is a sequence.
LEMMA OneMore ==
  ASSUME NEW S, NEW k \in Nat, NEW f \in [1..k -> S], NEW x \in S
  PROVE  Append(f, x) = [j \in 1..(k + 1) |-> IF j <= k THEN f[j] ELSE x]
<1>1. f \in Seq(S) /\ Len(f) = k
  OBVIOUS
<1>2. /\ Append(f, x) \in Seq(S) /\ Len(Append(f, x)) = k + 1
      /\ \A j \in 1..(k + 1) : Append(f, x)[j] = IF j <= k THEN f[j] ELSE x
  BY <1>1
<1> DEFINE g == [j \in 1..(k + 1) |-> IF j <= k THEN f[j] ELSE x]
<1>3. g \in [1..(k + 1) -> S] /\ \A j \in 1..(k + 1) : g[j] = IF j <= k THEN f[j] ELSE x
  OBVIOUS
<1>4. \A n \in Nat : \A h \in [1..n -> S] : h \in Seq(S) /\ Len(h) = n
  OBVIOUS
<1>5. \A a, b \in Seq(S) : Len(a) = Len(b) /\ (\A i \in 1..Len(a) : a[i] = b[i]) => a = b
  OBVIOUS
<1> HIDE DEF g
<1>6. Append(f, x) = g
  BY <1>2, <1>3, <1>4, <1>5
<1> QED  BY <1>6 DEF g

\* The head that a record's hash is appended to stands for one record more.
LEMMA HeadGrows ==
  ASSUME LedgerTypeOK, ChainKept, NEW d \in LedgerRecords, made' = Append(made, d)
  PROVE  /\ \A i \in 0..Len(made) : HeadAfter(i)' = HeadAfter(i)
         /\ \A i : i = Len(made) + 1 => HeadAfter(i)' = HashPair(head, d.hash)
<1>1. made \in Seq(LedgerRecords) /\ d.hash \in ExecutionIds /\ Len(made) \in Nat
  BY DEF LedgerTypeOK, LedgerRecords
<1>2. /\ \A j \in 1..Len(made) : made'[j] = made[j] /\ made[j] \in LedgerRecords
      /\ made'[Len(made) + 1] = d
  BY <1>1
<1>3. ASSUME NEW i \in 0..Len(made) PROVE HeadAfter(i)' = HeadAfter(i)
  <2>1. \A j \in 1..i : j \in 1..Len(made)
    BY <1>1
  <2>2. \A j \in 1..i : made'[j] = made[j]
    BY <1>2, <2>1
  <2> QED  BY <2>2 DEF HeadAfter
<1>4. HeadAfter(Len(made)) \in [1..Len(made) -> ExecutionIds]
  BY <1>2 DEF HeadAfter, LedgerRecords
<1>5. HashPair(head, d.hash)
        = [j \in 1..(Len(made) + 1) |-> IF j <= Len(made) THEN HeadAfter(Len(made))[j] ELSE d.hash]
  BY <1>1, <1>4, OneMore DEF HashPair, ChainKept
<1>6. \A j \in 1..(Len(made) + 1) :
         made'[j].hash = IF j <= Len(made) THEN HeadAfter(Len(made))[j] ELSE d.hash
  <2> SUFFICES ASSUME NEW j \in 1..(Len(made) + 1)
               PROVE  made'[j].hash = IF j <= Len(made) THEN HeadAfter(Len(made))[j] ELSE d.hash
    OBVIOUS
  <2>1. CASE j \in 1..Len(made)
    BY <1>1, <1>2, <2>1 DEF HeadAfter
  <2>2. CASE j = Len(made) + 1
    <3>1. ~ (j <= Len(made))
      BY <1>1, <2>2
    <3> QED  BY <1>2, <2>2, <3>1
  <2> QED  BY <1>1, <2>1, <2>2
<1>7. \A i : HeadAfter(i)' = [j \in 1..i |-> made'[j].hash]
  BY DEF HeadAfter
<1> QED  BY <1>3, <1>5, <1>6, <1>7

\* What stands at a place after another was taken out stood there or behind it before.
LEMMA RemovalKeeps ==
  ASSUME NEW S, NEW s \in Seq(S), NEW i \in DOMAIN s
  PROVE  /\ RemoveAt(s, i) \in Seq(S) /\ Len(RemoveAt(s, i)) = Len(s) - 1
         /\ \A j \in DOMAIN RemoveAt(s, i) : \E e \in DOMAIN s : RemoveAt(s, i)[j] = s[e]
<1>1. i \in 1..Len(s) /\ Len(s) \in Nat /\ DOMAIN s = 1..Len(s)
  OBVIOUS
<1> DEFINE a == SubSeq(s, 1, i - 1)
           b == SubSeq(s, i + 1, Len(s))
<1>2. \A m, n \in Int : (m..n \subseteq 1..Len(s)) =>
         /\ SubSeq(s, m, n) \in Seq(S) /\ Len(SubSeq(s, m, n)) = IF m <= n THEN n - m + 1 ELSE 0
         /\ \A j \in 1..(n - m + 1) : SubSeq(s, m, n)[j] = s[m + j - 1]
  OBVIOUS
<1>3. 1..(i - 1) \subseteq 1..Len(s) /\ (i + 1)..Len(s) \subseteq 1..Len(s)
  BY <1>1
<1>4. /\ a \in Seq(S) /\ Len(a) = i - 1 /\ \A j \in 1..(i - 1) : a[j] = s[j]
      /\ b \in Seq(S) /\ Len(b) = Len(s) - i /\ \A j \in 1..(Len(s) - i) : b[j] = s[i + j]
  <2>1. /\ a \in Seq(S) /\ Len(a) = (IF 1 <= i - 1 THEN i - 1 - 1 + 1 ELSE 0)
        /\ \A j \in 1..(i - 1 - 1 + 1) : a[j] = s[1 + j - 1]
    BY <1>1, <1>2, <1>3
  <2>2. /\ b \in Seq(S) /\ Len(b) = (IF i + 1 <= Len(s) THEN Len(s) - (i + 1) + 1 ELSE 0)
        /\ \A j \in 1..(Len(s) - (i + 1) + 1) : b[j] = s[i + 1 + j - 1]
    BY <1>1, <1>2, <1>3
  <2> HIDE DEF a, b
  <2>3. Len(a) = i - 1 /\ Len(b) = Len(s) - i
    BY <1>1, <2>1, <2>2
  <2>4. \A j \in 1..(i - 1) : a[j] = s[j]
    <3>1. \A j \in 1..(i - 1) : 1 + j - 1 = j /\ j \in 1..(i - 1 - 1 + 1)
      BY <1>1
    <3> QED  BY <2>1, <3>1
  <2>5. \A j \in 1..(Len(s) - i) : b[j] = s[i + j]
    <3>1. \A j \in 1..(Len(s) - i) : i + 1 + j - 1 = i + j /\ j \in 1..(Len(s) - (i + 1) + 1)
      BY <1>1
    <3> QED  BY <2>2, <3>1
  <2> QED  BY <2>1, <2>2, <2>3, <2>4, <2>5
<1>5. RemoveAt(s, i) = a \o b
  BY DEF RemoveAt
<1> HIDE DEF a, b
<1>6. /\ a \o b \in Seq(S) /\ Len(a \o b) = Len(s) - 1
      /\ \A j \in DOMAIN (a \o b) : j \in 1..(Len(s) - 1)
      /\ \A j \in 1..(Len(s) - 1) : (a \o b)[j] = IF j <= i - 1 THEN a[j] ELSE b[j - (i - 1)]
  <2>1. \A x, y \in Seq(S) :
           /\ x \o y \in Seq(S) /\ Len(x \o y) = Len(x) + Len(y) /\ DOMAIN (x \o y) = 1..(Len(x) + Len(y))
           /\ \A j \in 1..(Len(x) + Len(y)) : (x \o y)[j] = IF j <= Len(x) THEN x[j] ELSE y[j - Len(x)]
    OBVIOUS
  <2>2. Len(a) + Len(b) = Len(s) - 1
    BY <1>1, <1>4
  <2>3. /\ a \o b \in Seq(S) /\ Len(a \o b) = Len(a) + Len(b) /\ DOMAIN (a \o b) = 1..(Len(a) + Len(b))
        /\ \A j \in 1..(Len(a) + Len(b)) : (a \o b)[j] = IF j <= Len(a) THEN a[j] ELSE b[j - Len(a)]
    BY <1>4, <2>1
  <2> QED  BY <1>4, <2>2, <2>3
<1>7. ASSUME NEW j \in 1..(Len(s) - 1)
      PROVE  \E e \in DOMAIN s : (a \o b)[j] = s[e]
  <2>1. CASE j <= i - 1
    <3>1. j \in 1..(i - 1) /\ j \in DOMAIN s
      BY <1>1, <2>1
    <3> QED  BY <1>4, <1>6, <2>1, <3>1
  <2>2. CASE ~ (j <= i - 1)
    <3>1. j - (i - 1) \in 1..(Len(s) - i) /\ i + (j - (i - 1)) \in DOMAIN s
      BY <1>1, <2>2
    <3> QED  BY <1>4, <1>6, <2>2, <3>1
  <2> QED  BY <2>1, <2>2
<1> QED  BY <1>5, <1>6, <1>7

LEMMA AppendKeepsEvidence ==
  ASSUME EvidenceInv, NEW d \in LedgerRecords, AppendRecord(d)
  PROVE  EvidenceInv'
<1>2. /\ d.previous \in {Unlinked, head}
      /\ records' = Append(records, d) /\ made' = Append(made, d)
      /\ head' = HashPair(head, d.hash) /\ hashes' = Append(hashes, HashPair(head, d.hash))
      /\ alterations' = alterations
  BY DEF AppendRecord, Links
<1>3. /\ records \in Seq(LedgerRecords) /\ made \in Seq(LedgerRecords)
      /\ hashes \in Seq(Seq(ExecutionIds)) /\ head \in Seq(ExecutionIds)
      /\ alterations \in 0..Alterations
      /\ LedgerTypeOK /\ ChainKept
  BY DEF EvidenceInv, LedgerTypeOK
<1>4. d \in LedgerRecords /\ d.hash \in ExecutionIds
  BY DEF LedgerRecords
<1>5. HashPair(head, d.hash) \in Seq(ExecutionIds)
  BY <1>3, <1>4 DEF HashPair
<1>6. PICK n \in Nat : n = Len(made)
  BY <1>3
<1>7. /\ \A i \in 0..n : HeadAfter(i)' = HeadAfter(i)
      /\ HeadAfter(n + 1)' = HashPair(head, d.hash)
  BY <1>2, <1>3, <1>4, <1>6, HeadGrows
<1>8. LedgerTypeOK'
  <2>1. /\ Append(records, d) \in Seq(LedgerRecords) /\ Append(made, d) \in Seq(LedgerRecords)
        /\ Append(hashes, HashPair(head, d.hash)) \in Seq(Seq(ExecutionIds))
    BY <1>3, <1>4, <1>5
  <2> QED  BY <1>2, <1>3, <1>5, <2>1 DEF LedgerTypeOK
<1>9. ChainKept'
  <2>1. /\ Len(hashes) = n /\ head = HeadAfter(n)
        /\ \A i \in 1..n : hashes[i] = HeadAfter(i) /\ made[i].previous \in {Unlinked, HeadAfter(i - 1)}
        /\ alterations = 0 => records = made
    BY <1>3, <1>6 DEF ChainKept
  <2>2. Len(made') = n + 1 /\ Len(hashes') = n + 1
    BY <1>2, <1>3, <1>4, <1>5, <1>6, <2>1
  <2>3. /\ \A i \in 1..n : hashes'[i] = hashes[i] /\ made'[i] = made[i]
        /\ hashes'[n + 1] = HashPair(head, d.hash) /\ made'[n + 1] = d
    <3>1. \A S : \A s \in Seq(S) : \A x \in S :
             Append(s, x)[Len(s) + 1] = x /\ \A i \in 1..Len(s) : Append(s, x)[i] = s[i]
      OBVIOUS
    <3>2. (\A i \in 1..n : made'[i] = made[i]) /\ made'[n + 1] = d
      BY <1>2, <1>3, <1>4, <1>6, <3>1
    <3>3. PICK g \in Seq(ExecutionIds) : g = HashPair(head, d.hash)
      BY <1>5
    <3>4. hashes' = Append(hashes, g) /\ Len(hashes) = n
      BY <1>2, <2>1, <3>3
    <3>5. (\A i \in 1..n : hashes'[i] = hashes[i]) /\ hashes'[n + 1] = g
      BY <1>3, <3>1, <3>4
    <3> QED  BY <3>2, <3>3, <3>5
  <2>4. \A i \in 1..(n + 1) : hashes'[i] = HeadAfter(i)'
                              /\ made'[i].previous \in {Unlinked, HeadAfter(i - 1)'}
    <3> SUFFICES ASSUME NEW i \in 1..(n + 1)
                 PROVE  hashes'[i] = HeadAfter(i)' /\ made'[i].previous \in {Unlinked, HeadAfter(i - 1)'}
      OBVIOUS
    <3>1. CASE i \in 1..n
      <4>1. i \in 0..n /\ i - 1 \in 0..n
        BY <3>1
      <4> QED  BY <1>7, <2>1, <2>3, <3>1, <4>1
    <3>2. CASE i = n + 1
      <4>1. i - 1 = n /\ n \in 0..n
        BY <3>2
      <4>2. HeadAfter(i - 1)' = HeadAfter(n)
        BY <1>7, <4>1
      <4> QED  BY <1>2, <1>7, <2>1, <2>3, <3>2, <4>2
    <3> QED  BY <3>1, <3>2
  <2>5. alterations' = 0 => records' = made'
    BY <1>2, <2>1
  <2>6. head' = HeadAfter(n + 1)'
    BY <1>2, <1>7
  <2>7. Len(records') <= Len(made')
    <3>1. Len(records) \in Nat /\ Len(records') = Len(records) + 1 /\ Len(records) <= n
      BY <1>2, <1>3, <1>6 DEF ChainKept
    <3> QED  BY <2>2, <3>1
  <2> QED  BY <2>2, <2>4, <2>5, <2>6, <2>7 DEF ChainKept
<1> QED  BY <1>8, <1>9 DEF EvidenceInv

LEMMA ExceptKeepsLength ==
  ASSUME NEW S, NEW s \in Seq(S), NEW i \in DOMAIN s, NEW x \in S
  PROVE  [s EXCEPT ![i] = x] \in Seq(S) /\ Len([s EXCEPT ![i] = x]) <= Len(s)
<1>1. /\ [s EXCEPT ![i] = x] \in Seq(S) /\ Len([s EXCEPT ![i] = x]) = Len(s) /\ Len(s) \in Nat
  OBVIOUS
<1> QED  BY <1>1

LEMMA AlterKeepsEvidence ==
  ASSUME EvidenceInv, Alter
  PROVE  EvidenceInv'
<1>1. /\ records \in Seq(LedgerRecords) /\ made \in Seq(LedgerRecords)
      /\ hashes \in Seq(Seq(ExecutionIds)) /\ head \in Seq(ExecutionIds)
      /\ alterations \in 0..Alterations
      /\ Alterations \in Nat /\ ChainKept
  BY LedgerAssumption DEF EvidenceInv, LedgerTypeOK
<1>2. UNCHANGED <<hashes, head, made>> /\ alterations' = alterations + 1 /\ alterations < Alterations
  BY DEF Alter
<1>3. records' \in Seq(LedgerRecords) /\ Len(records') <= Len(records)
  <2>1. CASE \E i \in DOMAIN records, id \in ExecutionIds : records' = [records EXCEPT ![i].hash = id]
    <3>1. PICK i \in DOMAIN records, id \in ExecutionIds : records' = [records EXCEPT ![i].hash = id]
      BY <2>1
    <3>2. records[i] \in LedgerRecords
      BY <1>1
    <3>3. [records[i] EXCEPT !.hash = id] \in LedgerRecords
      BY <3>2 DEF LedgerRecords
    <3>4. records' = [records EXCEPT ![i] = [records[i] EXCEPT !.hash = id]]
      BY <3>1
    <3> QED  BY <1>1, <3>3, <3>4, ExceptKeepsLength
  <2>2. CASE \E i \in DOMAIN records, h \in Range(hashes) \cup {Unlinked} :
                records' = [records EXCEPT ![i].previous = h]
    <3>1. PICK i \in DOMAIN records, h \in Range(hashes) \cup {Unlinked} :
                  records' = [records EXCEPT ![i].previous = h]
      BY <2>2
    <3>2. records[i] \in LedgerRecords
      BY <1>1
    <3>3. h \in Heads
      <4>1. \A S : \A s \in Seq(S) : \A j \in DOMAIN s : s[j] \in S
        OBVIOUS
      <4>2. h = Unlinked \/ \E j \in DOMAIN hashes : h = hashes[j]
        BY DEF Range
      <4> QED  BY <1>1, <4>1, <4>2 DEF Heads
    <3>4. [records[i] EXCEPT !.previous = h] \in LedgerRecords
      BY <3>2, <3>3 DEF LedgerRecords
    <3>5. records' = [records EXCEPT ![i] = [records[i] EXCEPT !.previous = h]]
      BY <3>1
    <3> QED  BY <1>1, <3>4, <3>5, ExceptKeepsLength
  <2>3. CASE \E i \in DOMAIN records : records' = RemoveAt(records, i)
    <3>1. PICK i \in DOMAIN records : records' = RemoveAt(records, i)
      BY <2>3
    <3>2. i \in 1..Len(records) /\ Len(records) \in Nat
      BY <1>1
    <3>3. /\ RemoveAt(records, i) \in Seq(LedgerRecords)
          /\ Len(RemoveAt(records, i)) = Len(records) - 1
      BY <1>1, <3>2, RemovalKeeps
    <3>4. PICK q \in Seq(LedgerRecords) : q = RemoveAt(records, i)
      BY <3>3
    <3>5. records' = q /\ Len(q) = Len(records) - 1
      BY <3>1, <3>3, <3>4
    <3> QED  BY <3>2, <3>5
  <2> QED  BY <2>1, <2>2, <2>3 DEF Alter
<1>4. LedgerTypeOK'
  BY <1>1, <1>2, <1>3 DEF LedgerTypeOK
<1>5. ChainKept'
  <2>1. \A i : HeadAfter(i)' = HeadAfter(i)
    BY <1>2 DEF HeadAfter
  <2>2. alterations' # 0
    BY <1>1, <1>2
  <2>3. Len(records') <= Len(made')
    <3>1. Len(records) <= Len(made) /\ Len(records) \in Nat /\ Len(made) \in Nat /\ Len(records') \in Nat
      BY <1>1, <1>3 DEF ChainKept
    <3> QED  BY <1>2, <1>3, <3>1
  <2> QED  BY <1>1, <1>2, <2>1, <2>2, <2>3 DEF ChainKept
<1> QED  BY <1>4, <1>5 DEF EvidenceInv

LEMMA EvidenceInvariant == LedgerSpec => []EvidenceInv
<1>1. ASSUME EvidenceInv, UNCHANGED ledgerVars
      PROVE  EvidenceInv'
  <2>1. UNCHANGED <<records, hashes, head, made, alterations>>
    BY <1>1 DEF ledgerVars
  <2>2. \A i : HeadAfter(i)' = HeadAfter(i)
    BY <2>1 DEF HeadAfter
  <2>3. LedgerTypeOK'
    BY <1>1, <2>1 DEF EvidenceInv, LedgerTypeOK
  <2>4. ChainKept'
    BY <1>1, <2>1, <2>2 DEF EvidenceInv, ChainKept
  <2> QED  BY <2>3, <2>4 DEF EvidenceInv
<1>2. ASSUME EvidenceInv, NEW id \in ExecutionIds, NEW p \in Range(hashes) \cup {Genesis, Unlinked},
             AppendRecord(ExecutionRecord(id, p))
      PROVE  EvidenceInv'
  <2>1. p \in Heads
    <3>1. \A S : \A s \in Seq(S) : \A j \in DOMAIN s : s[j] \in S
      OBVIOUS
    <3>2. CASE p = Unlinked
      BY <3>2 DEF Heads
    <3>3. CASE p = Genesis
      <4>1. Genesis \in Seq(ExecutionIds)
        BY DEF Genesis
      <4> QED  BY <3>3, <4>1 DEF Heads
    <3>4. CASE \E j \in DOMAIN hashes : p = hashes[j]
      <4>1. PICK j \in DOMAIN hashes : p = hashes[j]
        BY <3>4
      <4>2. hashes[j] \in Seq(ExecutionIds)
        BY <1>2, <3>1 DEF EvidenceInv, LedgerTypeOK
      <4> QED  BY <4>1, <4>2 DEF Heads
    <3> QED  BY <3>2, <3>3, <3>4 DEF Range
  <2>2. ExecutionRecord(id, p) \in LedgerRecords
    BY <2>1 DEF ExecutionRecord, LedgerRecords
  <2> QED  BY <1>2, <2>2, AppendKeepsEvidence
<1>3. EvidenceInv /\ [LedgerNext]_ledgerVars => EvidenceInv'
  BY <1>1, <1>2, AlterKeepsEvidence DEF LedgerNext
<1> QED  BY <1>3, EvidenceStarts, PTL DEF LedgerSpec

\* Every variable of the evidence ledger keeps its type, whatever is done to its records.
THEOREM EvidenceTypeCorrect == LedgerSpec => []LedgerTypeOK
<1>1. EvidenceInv => LedgerTypeOK
  BY DEF EvidenceInv
<1> QED  BY <1>1, EvidenceInvariant, PTL

LEMMA RecordsTyped ==
  \A S : \A s \in Seq(S) : \A j \in 1..Len(s) : s[j] \in S
  OBVIOUS

\* Whatever is altered, a record whose id no earlier one has is certified with the chain
\* hash of its place exactly if its execution hash is the one appended there, and its
\* lineage verifies exactly if it names the head of those appended before (verify_lineage
\* and execution_certificate, provenance_api.py).
THEOREM CertificatesTell == LedgerSpec => []CertifiedAsAppended
<1>1. EvidenceInv => CertifiedAsAppended
  <2> SUFFICES ASSUME EvidenceInv, NEW i \in DOMAIN records,
                      \A j \in 1..(i - 1) : records[j].id # records[i].id
               PROVE  /\ Certificate(records[i]) = [chain |-> hashes[i], sequence |-> i]
                            <=> records[i].hash = made[i].hash
                      /\ VerifyLineage(records[i]) <=> records[i].previous = HeadAfter(i - 1)
    BY DEF CertifiedAsAppended, HeadAfter
  <2>1. /\ records \in Seq(LedgerRecords) /\ made \in Seq(LedgerRecords)
        /\ Len(records) \in Nat /\ Len(made) \in Nat /\ Len(records) <= Len(made)
        /\ \A k \in 1..Len(made) : hashes[k] = HeadAfter(k)
    <3>1. LedgerTypeOK /\ ChainKept
      BY DEF EvidenceInv
    <3>2. records \in Seq(LedgerRecords) /\ made \in Seq(LedgerRecords)
      BY <3>1 DEF LedgerTypeOK
    <3>3. Len(records) \in Nat /\ Len(made) \in Nat
      BY <3>2
    <3>4. Len(records) <= Len(made) /\ \A k \in 1..Len(made) : hashes[k] = HeadAfter(k)
      BY <3>1 DEF ChainKept
    <3> QED  BY <3>2, <3>3, <3>4
  <2>2. i \in 1..Len(records) /\ i \in 1..Len(made) /\ DOMAIN records = 1..Len(records)
    BY <2>1
  <2>3. Position(records[i]) = i
    <3>1. \A k \in DOMAIN records : k # i /\ records[k].id = records[i].id
                                      => \E j \in 1..(k - 1) : records[j].id = records[i].id
      <4> SUFFICES ASSUME NEW k \in DOMAIN records, k # i, records[k].id = records[i].id
                   PROVE  i \in 1..(k - 1)
        OBVIOUS
      <4>1. k \in 1..Len(records) /\ k \notin 1..(i - 1)
        BY <2>2
      <4> QED  BY <2>2, <4>1
    <3> QED  BY <3>1 DEF Position
  <2>4. HeadBefore(i) = HeadAfter(i - 1)
    <3>1. CASE i = 1
      BY <3>1 DEF HeadBefore, HeadAfter, Genesis
    <3>2. CASE i # 1
      <4>1. i - 1 \in 1..Len(made)
        BY <2>2, <3>2
      <4> QED  BY <2>1, <3>2, <4>1 DEF HeadBefore
    <3> QED  BY <3>1, <3>2
  <2>5. VerifyLineage(records[i]) <=> records[i].previous = HeadAfter(i - 1)
    BY <2>3, <2>4 DEF VerifyLineage
  <2> DEFINE k == i - 1
             x == records[i].hash
  <2>6. k \in Nat /\ k + 1 = i /\ \A j \in 1..k : j \in 1..Len(made)
    BY <2>2
  <2> HIDE DEF k
  <2>7. x \in ExecutionIds /\ \A j \in 1..Len(made) : made[j].hash \in ExecutionIds
    <3>1. records[i] \in LedgerRecords /\ \A j \in 1..Len(made) : made[j] \in LedgerRecords
      BY <2>1, <2>2, RecordsTyped
    <3> QED  BY <3>1 DEF LedgerRecords
  <2> HIDE DEF x
  <2>8. HeadAfter(k) \in [1..k -> ExecutionIds]
    BY <2>6, <2>7 DEF HeadAfter
  <2>9. Append(HeadAfter(k), x) = [j \in 1..(k + 1) |-> IF j <= k THEN HeadAfter(k)[j] ELSE x]
    BY <2>6, <2>7, <2>8, OneMore
  <2>10. HeadAfter(i) = [j \in 1..(k + 1) |-> made[j].hash]
    BY <2>6 DEF HeadAfter
  <2>11. Append(HeadAfter(k), x) = HeadAfter(i) <=> x = made[i].hash
    <3>1. i \in 1..(k + 1) /\ ~ (i <= k)
      BY <2>2, <2>6
    <3>2. ASSUME Append(HeadAfter(k), x) = HeadAfter(i) PROVE x = made[i].hash
      <4>1. Append(HeadAfter(k), x)[i] = x
        BY <2>9, <3>1
      <4>2. HeadAfter(i)[i] = made[i].hash
        BY <2>10, <3>1
      <4> QED  BY <3>2, <4>1, <4>2
    <3>3. ASSUME x = made[i].hash PROVE Append(HeadAfter(k), x) = HeadAfter(i)
      <4>1. ASSUME NEW j \in 1..(k + 1)
            PROVE  made[j].hash = IF j <= k THEN HeadAfter(k)[j] ELSE x
        <5>1. CASE j \in 1..k
          BY <2>6, <5>1 DEF HeadAfter
        <5>2. CASE j = k + 1
          <6>1. ~ (j <= k) /\ j = i
            BY <2>6, <5>2
          <6> QED  BY <3>3, <6>1
        <5> QED  BY <2>6, <5>1, <5>2
      <4> QED  BY <2>9, <2>10, <4>1
    <3> QED  BY <3>2, <3>3
  <2>12. Certificate(records[i]) = [chain |-> Append(HeadAfter(k), x), sequence |-> i]
    BY <2>3, <2>4 DEF Certificate, HashPair, k, x
  <2>13. Certificate(records[i]) = [chain |-> hashes[i], sequence |-> i] <=> x = made[i].hash
    <3>1. hashes[i] = HeadAfter(i)
      BY <2>1, <2>2
    <3>2. \A a, b : [chain |-> a, sequence |-> i] = [chain |-> b, sequence |-> i] <=> a = b
      <4>1. ASSUME NEW a, NEW b, [chain |-> a, sequence |-> i] = [chain |-> b, sequence |-> i]
            PROVE  a = b
        <5>1. [chain |-> a, sequence |-> i].chain = [chain |-> b, sequence |-> i].chain
          BY <4>1
        <5> QED  BY <5>1
      <4> QED  BY <4>1
    <3> QED  BY <2>11, <2>12, <3>1, <3>2
  <2> QED  BY <2>5, <2>13 DEF x
<1> QED  BY <1>1, EvidenceInvariant, PTL

\* Whatever is altered, verify_chain (evidence_ledger.py) holds exactly when no record is
\* missing, no execution hash is changed and no link names another head.
THEOREM AlterationsAlwaysShow == LedgerSpec => []AlterationsShow
<1>1. EvidenceInv => AlterationsShow
  <2> SUFFICES ASSUME EvidenceInv
               PROVE  VerifyChain <=>
                        /\ Len(records) = Len(made)
                        /\ \A i \in DOMAIN records :
                              /\ records[i].hash = made[i].hash
                              /\ records[i].previous \in {Unlinked, HeadAfter(i - 1)}
    BY DEF AlterationsShow, HeadAfter
  <2>1. /\ records \in Seq(LedgerRecords) /\ DOMAIN records = 1..Len(records) /\ Len(records) \in Nat
        /\ Len(made) \in Nat /\ head = HeadAfter(Len(made))
        /\ \A i \in 1..Len(made) : hashes[i] = HeadAfter(i)
    BY DEF EvidenceInv, LedgerTypeOK, ChainKept
  <2>2. \A i, k : k = i - 1 => Walked(i) = [j \in 1..k |-> records[j].hash]
    BY DEF Walked
  <2>3. ASSUME VerifyChain
        PROVE  /\ Len(records) = Len(made)
               /\ \A i \in DOMAIN records :
                     /\ records[i].hash = made[i].hash
                     /\ records[i].previous \in {Unlinked, HeadAfter(i - 1)}
    <3>1. Walked(Len(records) + 1) = HeadAfter(Len(made))
      BY <2>1, <2>3 DEF VerifyChain
    <3>2. Walked(Len(records) + 1) = [j \in 1..Len(records) |-> records[j].hash]
      <4>1. Len(records) = Len(records) + 1 - 1
        BY <2>1
      <4> QED  BY <2>2, <4>1
    <3>3. 1..Len(records) = 1..Len(made)
      BY <3>1, <3>2 DEF HeadAfter
    <3>4. Len(records) = Len(made)
      <4>1. \A m, n \in Nat : 1..m = 1..n => m = n
        OBVIOUS
      <4> QED  BY <2>1, <3>3, <4>1
    <3>5. \A j \in 1..Len(records) : records[j].hash = made[j].hash
      <4> SUFFICES ASSUME NEW j \in 1..Len(records) PROVE records[j].hash = made[j].hash
        OBVIOUS
      <4>1. Walked(Len(records) + 1)[j] = records[j].hash
        BY <3>2
      <4>2. HeadAfter(Len(made))[j] = made[j].hash
        BY <3>3 DEF HeadAfter
      <4> QED  BY <3>1, <4>1, <4>2
    <3>6. ASSUME NEW i \in DOMAIN records
          PROVE  records[i].previous \in {Unlinked, HeadAfter(i - 1)}
      <4>1. \A j \in 1..(i - 1) : j \in 1..Len(records)
        BY <2>1
      <4>2. Walked(i) = HeadAfter(i - 1)
        BY <3>5, <4>1 DEF Walked, HeadAfter
      <4>3. records[i].previous \in {Unlinked, Walked(i)}
        BY <2>3 DEF VerifyChain
      <4> QED  BY <4>2, <4>3
    <3> QED  BY <2>1, <3>4, <3>5, <3>6
  <2>4. ASSUME Len(records) = Len(made),
               \A i \in DOMAIN records :
                  /\ records[i].hash = made[i].hash
                  /\ records[i].previous \in {Unlinked, HeadAfter(i - 1)}
        PROVE  VerifyChain
    <3>1. \A k \in 0..Len(records) : Walked(k + 1) = HeadAfter(k)
      <4> SUFFICES ASSUME NEW k \in 0..Len(records) PROVE Walked(k + 1) = HeadAfter(k)
        OBVIOUS
      <4>1. k = k + 1 - 1 /\ \A j \in 1..k : j \in DOMAIN records
        BY <2>1
      <4>2. \A j \in 1..k : records[j].hash = made[j].hash
        BY <2>4, <4>1
      <4>3. Walked(k + 1) = [j \in 1..k |-> records[j].hash]
        BY <2>2, <4>1
      <4> QED  BY <4>2, <4>3 DEF HeadAfter
    <3>2. ASSUME NEW i \in DOMAIN records
          PROVE  records[i].previous \in {Unlinked, Walked(i)} /\ hashes[i] = Walked(i + 1)
      <4>1. i - 1 \in 0..Len(records) /\ i - 1 + 1 = i /\ i \in 0..Len(records) /\ i \in 1..Len(made)
        BY <2>1, <2>4
      <4>2. Walked(i) = HeadAfter(i - 1) /\ Walked(i + 1) = HeadAfter(i)
        BY <3>1, <4>1
      <4> QED  BY <2>1, <2>4, <4>1, <4>2
    <3>3. Walked(Len(records) + 1) = head
      <4>1. Len(records) \in 0..Len(records)
        BY <2>1
      <4> QED  BY <2>1, <2>4, <3>1, <4>1
    <3> QED  BY <3>2, <3>3 DEF VerifyChain
  <2> QED  BY <2>3, <2>4
<1> QED  BY <1>1, EvidenceInvariant, PTL

-----------------------------------------------------------------------------
(* The chain of custody.                                                   *)

Signatures  == {Signature(k, <<a, b, p>>) : k \in Nat, a \in RouteNodes, b \in RouteNodes, p \in Payloads}
HandoffForm == [from : RouteNodes, to : RouteNodes, payload : Payloads, signature : Signatures]

\* A handoff as it was signed is the m-th of the route.
IsHandoff(h, m) ==
    /\ h.from = Route[m] /\ h.to = Route[m + 1]
    /\ \E k \in Nat : h.signature = Signature(k, <<h.from, h.to, h.payload>>)

\* The links are handoffs but for their destinations.
ChainOK ==
    /\ links \in Seq(HandoffForm) /\ handed \subseteq HandoffForm
    /\ IsFiniteSet(handed) /\ Cardinality(handed) <= Len(Route) - 1 /\ Len(links) <= Cardinality(handed)
    /\ \A h \in handed : \E m \in 1..Cardinality(handed) : IsHandoff(h, m)
    /\ \A j \in DOMAIN links : \E h \in handed :
          links[j].from = h.from /\ links[j].payload = h.payload /\ links[j].signature = h.signature

IsContract(c) == c = [payload |-> c.payload, note |-> c.note, id |-> c.id, producer |-> c.producer,
                      contract |-> c.contract]

\* The contract as sign_contract makes it under key k.
SignedWith(c, k) == c.producer = Signature(k, <<c.payload>>) /\ c.contract = Signature(k, ContractState(c))

\* The signatures of a contract stay those of the contract that was signed, or are gone.
ContractOK ==
    /\ IsContract(contract) /\ IsContract(original)
    /\ stage = "register" => contract.producer = NoSignature
    /\ stage # "register" =>
          /\ contract.producer \in {original.producer, NoSignature}
          /\ contract.contract \in {original.contract, NoSignature}
          /\ original.id # Nobody /\ \E k \in Nat \ {0} : SignedWith(original, k)

IsBundle(b) == b = [payload |-> b.payload, producer |-> b.producer, consensus |-> b.consensus,
                    links |-> b.links, signature |-> b.signature]

\* So does the signature of a bundle.
BundleOK ==
    /\ stage # "bundle" => bundle = NoBundle
    /\ stage = "bundle" =>
          /\ IsBundle(bundle) /\ IsBundle(assembled) /\ bundle.signature = assembled.signature
          /\ \E k \in Nat : assembled.signature = Signature(k, SignableState(assembled))

\* A PASS was earned by the bundle as it was signed.
ReportOK ==
    report = "PASS" => /\ assembled.producer.of = <<assembled.payload>>
                       /\ assembled.consensus /\ Contiguous(assembled.links) /\ stage = "bundle"

CustodyInv == CustodyTypeOK /\ ChainOK /\ ContractOK /\ BundleOK /\ ReportOK

LEMMA RouteIs ==
  /\ DOMAIN Route = 1..Len(Route) /\ Len(Route) \in Nat /\ Len(Route) >= 2
  /\ \A i \in 1..Len(Route) : Route[i] \in RouteNodes
  /\ \A i, j \in 1..Len(Route) : Route[i] = Route[j] => i = j
  /\ Producer \in RouteNodes /\ Gateway \in RouteNodes /\ Producer # Nobody
<1>1. /\ DOMAIN Route = 1..Len(Route) /\ Len(Route) \in Nat /\ Len(Route) >= 2 /\ IsInjective(Route)
      /\ Nobody \notin {Route[i] : i \in 1..Len(Route)}
  BY CustodyAssumption
<1>2. 1 \in 1..Len(Route) /\ 2 \in 1..Len(Route)
  BY <1>1
<1> QED  BY <1>1, <1>2 DEF IsInjective, RouteNodes, Range, Producer, Gateway

LEMMA CustodyStarts == CustodyInit => CustodyInv
<1> SUFFICES ASSUME CustodyInit PROVE CustodyInv
  OBVIOUS
<1>1. PICK p \in Payloads : contract = NewContract(p) /\ original = contract
  BY DEF CustodyInit
<1>2. /\ keys = [n \in RouteNodes |-> 1] /\ nodes = [n \in RouteNodes |-> 0]
      /\ links = << >> /\ handed = {} /\ bundle = NoBundle /\ assembled = NoBundle
      /\ report = "UNVERIFIED" /\ stage = "register" /\ changes = 0
  BY DEF CustodyInit
<1>3. Rekeys \in Nat /\ Changes \in Nat /\ Len(links) = 0 /\ Len(Route) \in Nat
  BY <1>2, CustodyAssumption
<1>4. CustodyTypeOK
  BY <1>1, <1>2, <1>3 DEF CustodyTypeOK, NewContract
<1>5. ChainOK
  <2>1. links \in Seq(HandoffForm) /\ DOMAIN links = {}
    BY <1>2
  <2>2. IsFiniteSet({}) /\ Cardinality({}) = 0
    BY FS_EmptySet
  <2> QED  BY <1>2, <1>3, <2>1, <2>2, RouteIs DEF ChainOK
<1>6. ContractOK
  BY <1>1, <1>2 DEF ContractOK, IsContract, NewContract
<1>7. BundleOK
  BY <1>2 DEF BundleOK
<1>8. ReportOK
  BY <1>2 DEF ReportOK
<1> QED  BY <1>4, <1>5, <1>6, <1>7, <1>8 DEF CustodyInv

LEMMA ContractStays ==
  ASSUME ContractOK, UNCHANGED <<contract, original>>, stage' = stage \/ "register" \notin {stage, stage'}
  PROVE  ContractOK'
<1>1. \A k : SignedWith(original, k)' <=> SignedWith(original, k)
  BY DEF SignedWith, ContractState
<1>2. IsContract(contract)' /\ IsContract(original)'
  BY DEF ContractOK, IsContract
<1> QED  BY <1>1, <1>2 DEF ContractOK

\* What the steps that touch neither the contract nor the chain leave alone.
LEMMA UntouchedCustody ==
  ASSUME CustodyInv, UNCHANGED <<contract, original, links, bundle, assembled, handed, stage>>
  PROVE  ChainOK' /\ ContractOK' /\ BundleOK'
<1>1. ChainOK /\ ContractOK /\ BundleOK
  BY DEF CustodyInv
<1>2. \A h, m : IsHandoff(h, m)' = IsHandoff(h, m)
  BY DEF IsHandoff
<1>3. ChainOK'
  BY <1>1 DEF ChainOK
<1>4. ContractOK'
  BY <1>1, ContractStays
<1>5. BundleOK'
  BY <1>1 DEF BundleOK, IsBundle, SignableState
<1> QED  BY <1>3, <1>4, <1>5

LEMMA SignKeeps ==
  ASSUME CustodyInv, Sign
  PROVE  CustodyInv'
<1>1. /\ stage = "register" /\ stage' = "handoff"
      /\ contract' = SignContract(contract, keys[Producer]) /\ original' = contract'
      /\ UNCHANGED <<keys, nodes, links, bundle, assembled, report, handed, changes>>
  BY DEF Sign
<1>2. CustodyTypeOK /\ ChainOK /\ ContractOK /\ BundleOK /\ ReportOK
  BY DEF CustodyInv
<1>3. PICK k : k = keys[Producer]
  OBVIOUS
<1>4. k \in Nat \ {0}
  BY <1>2, <1>3, RouteIs, CustodyAssumption DEF CustodyTypeOK
<1>5. PICK s : s = [contract EXCEPT !.id = Producer, !.producer = Signature(k, <<contract.payload>>)]
  OBVIOUS
<1>6. /\ s.payload = contract.payload /\ s.note = contract.note /\ s.id = Producer
      /\ s.producer = Signature(k, <<contract.payload>>) /\ s.contract = contract.contract
      /\ IsContract(s)
  BY <1>2, <1>5 DEF ContractOK, IsContract
<1>7. PICK c : c = [s EXCEPT !.contract = Signature(k, ContractState(s))]
  OBVIOUS
<1>8. contract' = c /\ original' = c
  BY <1>1, <1>3, <1>5, <1>7 DEF SignContract
<1>9. /\ c.payload = contract.payload /\ c.note = contract.note /\ c.id = Producer
      /\ c.producer = s.producer /\ c.contract = Signature(k, ContractState(s)) /\ IsContract(c)
  BY <1>6, <1>7 DEF IsContract
<1>10. ContractState(s) = ContractState(c)
  BY <1>6, <1>9 DEF ContractState
<1>11. SignedWith(c, k)
  BY <1>6, <1>9, <1>10 DEF SignedWith
<1>12. ContractOK'
  <2>1. IsContract(contract)' /\ IsContract(original)'
    BY <1>8, <1>9 DEF IsContract
  <2>2. SignedWith(original, k)'
    BY <1>8, <1>11 DEF SignedWith, ContractState
  <2> QED  BY <1>1, <1>4, <1>8, <1>9, <2>1, <2>2, RouteIs DEF ContractOK
<1>13. ChainOK'
  BY <1>1, <1>2 DEF ChainOK
<1>14. BundleOK'
  BY <1>1, <1>2 DEF BundleOK
<1>15. CustodyTypeOK'
  BY <1>1, <1>2, <1>8, <1>9 DEF CustodyTypeOK
<1>16. ReportOK'
  BY <1>1, <1>2 DEF ReportOK
<1> QED  BY <1>12, <1>13, <1>14, <1>15, <1>16 DEF CustodyInv

LEMMA HandoffKeeps ==
  ASSUME CustodyInv, AddHandoff
  PROVE  CustodyInv'
<1>1. PICK i : i = Cardinality(handed) + 1
  OBVIOUS
<1>2. PICK h : h = Handoff(Route[i], Route[i + 1], contract.payload)
  OBVIOUS
<1>3. /\ stage = "handoff" /\ Cardinality(handed) < Len(Route) - 1
      /\ links' = Append(links, h) /\ handed' = handed \cup {h}
      /\ UNCHANGED <<keys, nodes, contract, original, bundle, assembled, report, stage, changes>>
  BY <1>1, <1>2 DEF AddHandoff
<1>4. /\ CustodyTypeOK /\ ContractOK /\ BundleOK /\ ReportOK
      /\ links \in Seq(HandoffForm) /\ handed \subseteq HandoffForm /\ IsFiniteSet(handed)
      /\ Len(links) <= Cardinality(handed) /\ Cardinality(handed) \in Nat
      /\ \A g \in handed : \E m \in 1..Cardinality(handed) : IsHandoff(g, m)
      /\ \A j \in DOMAIN links : \E g \in handed :
            links[j].from = g.from /\ links[j].payload = g.payload /\ links[j].signature = g.signature
  BY FS_CardinalityType DEF CustodyInv, ChainOK
<1>5. i \in 1..Len(Route) /\ i + 1 \in 1..Len(Route) /\ i <= Len(Route) - 1 /\ i \in Nat
  BY <1>1, <1>3, <1>4, RouteIs
<1>6. Route[i] \in RouteNodes /\ Route[i + 1] \in RouteNodes
  BY <1>5, RouteIs
<1>7. h \in HandoffForm /\ IsHandoff(h, i)
  <2>1. PICK k : k = keys[Route[i]]
    OBVIOUS
  <2>2. k \in Nat /\ contract.payload \in Payloads
    BY <1>4, <1>6, <2>1, CustodyAssumption DEF CustodyTypeOK
  <2>3. h = [from |-> Route[i], to |-> Route[i + 1], payload |-> contract.payload,
             signature |-> Signature(k, <<Route[i], Route[i + 1], contract.payload>>)]
    BY <1>2, <2>1 DEF Handoff
  <2>4. h.signature \in Signatures
    BY <1>6, <2>2, <2>3 DEF Signatures
  <2> QED  BY <1>6, <2>2, <2>3, <2>4 DEF HandoffForm, IsHandoff
\* The sender is a node that has not yet handed anything on.
<1>8. h \notin handed
  <2> SUFFICES ASSUME h \in handed PROVE FALSE
    OBVIOUS
  <2>1. PICK m \in 1..Cardinality(handed) : IsHandoff(h, m)
    BY <1>4
  <2>2. h.from = Route[m] /\ h.from = Route[i]
    BY <1>7, <2>1 DEF IsHandoff
  <2>3. m \in 1..Len(Route) /\ m # i
    BY <1>1, <1>3, <1>4, <1>5, <2>1
  <2> QED  BY <1>5, <2>2, <2>3, RouteIs
<1>9. IsFiniteSet(handed') /\ Cardinality(handed') = i
  BY <1>1, <1>3, <1>4, <1>8, FS_AddElement
<1>10. ChainOK'
  <2>1. links' \in Seq(HandoffForm) /\ handed' \subseteq HandoffForm /\ Len(links') = Len(links) + 1
    BY <1>3, <1>4, <1>7
  <2>2. \A g \in handed' : \E m \in 1..i : IsHandoff(g, m)
    <3>1. 1..Cardinality(handed) \subseteq 1..i /\ i \in 1..i
      BY <1>1, <1>4, <1>5
    <3> QED  BY <1>3, <1>4, <1>7, <3>1
  <2>3. \A j \in DOMAIN links' : \E g \in handed' :
           links'[j].from = g.from /\ links'[j].payload = g.payload /\ links'[j].signature = g.signature
    <3> SUFFICES ASSUME NEW j \in DOMAIN links'
                 PROVE  \E g \in handed' : /\ links'[j].from = g.from /\ links'[j].payload = g.payload
                                           /\ links'[j].signature = g.signature
      OBVIOUS
    <3>1. \A s \in Seq(HandoffForm) : \A x \in HandoffForm : \A e \in DOMAIN Append(s, x) :
             (e \in DOMAIN s /\ Append(s, x)[e] = s[e]) \/ Append(s, x)[e] = x
      OBVIOUS
    <3>2. (j \in DOMAIN links /\ links'[j] = links[j]) \/ links'[j] = h
      BY <1>3, <1>4, <1>7, <3>1
    <3> QED  BY <1>3, <1>4, <3>2
  <2>4. Cardinality(handed') <= Len(Route) - 1 /\ Len(links') <= Cardinality(handed')
    <3>1. Len(links) \in Nat
      BY <1>4
    <3> QED  BY <1>1, <1>4, <1>5, <1>9, <2>1, <3>1
  <2>5. \A g, m : IsHandoff(g, m)' = IsHandoff(g, m)
    BY DEF IsHandoff
  <2> QED  BY <1>9, <2>1, <2>2, <2>3, <2>4, <2>5 DEF ChainOK
<1>11. ContractOK'
  BY <1>3, <1>4, ContractStays
<1>12. BundleOK'
  BY <1>3, <1>4 DEF BundleOK, IsBundle, SignableState
<1>13. CustodyTypeOK'
  <2>1. Len(links') <= Len(Route)
    <3>1. Len(links') \in Nat
      BY <1>3, <1>4, <1>7
    <3> QED  BY <1>5, <1>9, <1>10, <3>1, RouteIs DEF ChainOK
  <2> QED  BY <1>3, <1>4, <2>1 DEF CustodyTypeOK
<1>14. ReportOK'
  BY <1>3, <1>4 DEF ReportOK, Contiguous
<1> QED  BY <1>10, <1>11, <1>12, <1>13, <1>14 DEF CustodyInv

LEMMA BundleKeeps ==
  ASSUME CustodyInv, MakeBundle
  PROVE  CustodyInv'
<1>1. PICK consensus \in BOOLEAN :
         LET b == [payload |-> contract.payload, producer |-> contract.producer,
                   consensus |-> consensus, links |-> links, signature |-> NoSignature]
         IN  bundle' = [b EXCEPT !.signature = Signature(keys[Gateway], SignableState(b))]
  BY DEF MakeBundle
<1>2. /\ stage = "handoff" /\ stage' = "bundle" /\ assembled' = bundle'
      /\ UNCHANGED <<keys, nodes, contract, original, links, report, handed, changes>>
  BY DEF MakeBundle
<1>3. CustodyTypeOK /\ ChainOK /\ ContractOK /\ BundleOK /\ ReportOK
  BY DEF CustodyInv
<1>4. PICK k : k = keys[Gateway]
  OBVIOUS
<1>5. k \in Nat
  BY <1>3, <1>4, RouteIs, CustodyAssumption DEF CustodyTypeOK
<1>6. bundle' = [payload |-> contract.payload, producer |-> contract.producer, consensus |-> consensus,
                 links |-> links,
                 signature |-> Signature(k, <<contract.payload, contract.producer, consensus, links>>)]
  BY <1>1, <1>4 DEF SignableState
<1>7. IsBundle(bundle') /\ bundle'.signature = Signature(k, SignableState(bundle'))
  BY <1>6 DEF IsBundle, SignableState
<1>8. BundleOK'
  <2>1. SignableState(assembled)' = SignableState(assembled') /\ (IsBundle(bundle)' <=> IsBundle(bundle'))
        /\ (IsBundle(assembled)' <=> IsBundle(assembled'))
    BY DEF SignableState, IsBundle
  <2> QED  BY <1>2, <1>5, <1>7, <2>1 DEF BundleOK
<1>9. ContractOK'
  BY <1>2, <1>3, ContractStays
<1>10. ChainOK'
  BY <1>2, <1>3 DEF ChainOK, IsHandoff
<1>11. CustodyTypeOK'
  BY <1>2, <1>3 DEF CustodyTypeOK
<1>12. ReportOK'
  BY <1>2, <1>3 DEF ReportOK
<1> QED  BY <1>8, <1>9, <1>10, <1>11, <1>12 DEF CustodyInv

LEMMA AlterationKeeps ==
  ASSUME CustodyInv, AlterRecord
  PROVE  CustodyInv'
<1>1. /\ stage # "register" /\ changes < Changes /\ changes' = changes + 1
      /\ UNCHANGED <<keys, nodes, original, assembled, report, handed, stage>>
  BY DEF AlterRecord
<1>2. /\ CustodyTypeOK /\ ChainOK /\ ContractOK /\ BundleOK /\ ReportOK'
      /\ links \in Seq(HandoffForm) /\ Len(links) \in Nat
  BY <1>1 DEF CustodyInv, ChainOK, ReportOK, Contiguous
<1>3. \A h, m : IsHandoff(h, m)' = IsHandoff(h, m)
  BY DEF IsHandoff
<1>4. changes' \in 0..Changes
  BY <1>1, <1>2, CustodyAssumption DEF CustodyTypeOK
<1>5. ASSUME NEW c, contract' = c, IsContract(c), c.payload \in Payloads,
             c.producer \in {contract.producer, NoSignature},
             c.contract \in {contract.contract, NoSignature}, UNCHANGED <<links, bundle>>
      PROVE  CustodyInv'
  <2>1. ContractOK'
    <3>1. \A k : SignedWith(original, k)' <=> SignedWith(original, k)
      BY <1>1 DEF SignedWith, ContractState
    <3>2. IsContract(contract)' /\ IsContract(original)'
      BY <1>1, <1>2, <1>5 DEF ContractOK, IsContract
    <3> QED  BY <1>1, <1>2, <1>5, <3>1, <3>2 DEF ContractOK
  <2>2. ChainOK'
    BY <1>1, <1>2, <1>3, <1>5 DEF ChainOK
  <2>3. BundleOK'
    BY <1>1, <1>2, <1>5 DEF BundleOK, IsBundle, SignableState
  <2>4. CustodyTypeOK'
    BY <1>1, <1>2, <1>4, <1>5 DEF CustodyTypeOK
  <2> QED  BY <1>2, <2>1, <2>2, <2>3, <2>4 DEF CustodyInv
<1>6. ASSUME links' \in Seq(HandoffForm), Len(links') <= Len(links), UNCHANGED <<contract, bundle>>,
             \A j \in DOMAIN links' : \E e \in DOMAIN links :
                /\ links'[j].from = links[e].from /\ links'[j].payload = links[e].payload
                /\ links'[j].signature = links[e].signature
      PROVE  CustodyInv'
  <2>1. Len(links') \in Nat
    BY <1>6
  <2>2. Len(links') <= Cardinality(handed) /\ Len(links') <= Len(Route)
    <3>1. Len(links) <= Cardinality(handed) /\ Cardinality(handed) \in Nat /\ Len(links) <= Len(Route)
      BY <1>2, FS_CardinalityType DEF ChainOK, CustodyTypeOK
    <3> QED  BY <1>2, <1>6, <2>1, <3>1, RouteIs
  <2>3. \A j \in DOMAIN links' : \E h \in handed :
           links'[j].from = h.from /\ links'[j].payload = h.payload /\ links'[j].signature = h.signature
    BY <1>2, <1>6 DEF ChainOK
  <2>4. ChainOK'
    BY <1>1, <1>2, <1>3, <1>6, <2>2, <2>3 DEF ChainOK
  <2>5. ContractOK'
    BY <1>1, <1>2, <1>6, ContractStays
  <2>6. BundleOK'
    BY <1>1, <1>2, <1>6 DEF BundleOK, IsBundle, SignableState
  <2>7. CustodyTypeOK'
    BY <1>1, <1>2, <1>4, <1>6, <2>2 DEF CustodyTypeOK
  <2> QED  BY <1>2, <2>4, <2>5, <2>6, <2>7 DEF CustodyInv
<1>7. ASSUME NEW i \in DOMAIN links, links' = RemoveAt(links, i), UNCHANGED <<contract, bundle>>
      PROVE  CustodyInv'
  <2>1. /\ links' \in Seq(HandoffForm) /\ Len(links') = Len(links) - 1
        /\ \A j \in DOMAIN links' : \E e \in DOMAIN links : links'[j] = links[e]
    BY <1>2, <1>7, RemovalKeeps
  <2>2. \A j \in DOMAIN links' : \E e \in DOMAIN links :
                /\ links'[j].from = links[e].from /\ links'[j].payload = links[e].payload
                /\ links'[j].signature = links[e].signature
    BY <2>1
  <2>3. Len(links') <= Len(links)
    BY <1>2, <2>1
  <2> QED  BY <1>6, <1>7, <2>1, <2>2, <2>3
<1>8. ASSUME NEW i \in DOMAIN links, NEW n \in RouteNodes, links' = [links EXCEPT ![i].to = n],
             UNCHANGED <<contract, bundle>>
      PROVE  CustodyInv'
  <2>1. PICK g : g = [links[i] EXCEPT !.to = n]
    OBVIOUS
  <2>2. links[i] \in HandoffForm
    BY <1>2, <1>8
  <2>3. g \in HandoffForm /\ g.from = links[i].from /\ g.payload = links[i].payload /\ g.signature = links[i].signature
    BY <2>1, <2>2 DEF HandoffForm
  <2>4. links' = [links EXCEPT ![i] = g]
    BY <1>8, <2>1
  <2>5. links' \in Seq(HandoffForm) /\ Len(links') = Len(links) /\ DOMAIN links' = DOMAIN links
    BY <1>2, <1>8, <2>3, <2>4
  <2>6. \A j \in DOMAIN links' : links'[j] = IF j = i THEN g ELSE links[j]
    BY <1>2, <1>8, <2>4, <2>5
  <2>7. \A j \in DOMAIN links' : \E e \in DOMAIN links :
                /\ links'[j].from = links[e].from /\ links'[j].payload = links[e].payload
                /\ links'[j].signature = links[e].signature
    BY <2>3, <2>5, <2>6
  <2>8. Len(links') <= Len(links)
    BY <1>2, <2>5
  <2> QED  BY <1>6, <1>8, <2>5, <2>7, <2>8
<1>9. ASSUME stage = "bundle", UNCHANGED <<contract, links>>,
             NEW p, NEW b, NEW l,
             \/ bundle' = [bundle EXCEPT !.payload = p]
             \/ bundle' = [bundle EXCEPT !.consensus = b]
             \/ bundle' = [bundle EXCEPT !.links = l]
      PROVE  CustodyInv'
  <2>1. IsBundle(bundle) /\ bundle.signature = assembled.signature
    BY <1>2, <1>9 DEF BundleOK
  <2>2. IsBundle(bundle') /\ bundle'.signature = bundle.signature
    BY <1>9, <2>1 DEF IsBundle
  <2>3. BundleOK'
    BY <1>1, <1>2, <1>9, <2>2 DEF BundleOK, IsBundle, SignableState
  <2>4. ContractOK'
    BY <1>1, <1>2, <1>9, ContractStays
  <2>5. ChainOK'
    BY <1>1, <1>2, <1>3, <1>9 DEF ChainOK
  <2>6. CustodyTypeOK'
    BY <1>1, <1>2, <1>4, <1>9 DEF CustodyTypeOK
  <2> QED  BY <1>2, <2>3, <2>4, <2>5, <2>6 DEF CustodyInv
<1>10. ASSUME NEW p \in Payloads, NEW c, contract' = c, UNCHANGED <<links, bundle>>,
              \/ c = [contract EXCEPT !.payload = p]
              \/ c = [contract EXCEPT !.note = "second"]
              \/ c = [contract EXCEPT !.id = Nobody]
              \/ c = [contract EXCEPT !.producer = NoSignature]
              \/ c = [contract EXCEPT !.contract = NoSignature]
       PROVE  CustodyInv'
  <2>1. IsContract(contract) /\ contract.payload \in Payloads
    BY <1>2 DEF ContractOK, CustodyTypeOK
  <2>2. /\ IsContract(c) /\ c.payload \in Payloads
        /\ c.producer \in {contract.producer, NoSignature}
        /\ c.contract \in {contract.contract, NoSignature}
    BY <1>10, <2>1 DEF IsContract
  <2> QED  BY <1>5, <1>10, <2>2
<1>11. contract.payload \in Payloads
  BY <1>2 DEF CustodyTypeOK
<1> QED  BY <1>7, <1>8, <1>9, <1>10, <1>11 DEF AlterRecord

\* A bundle that verifies is the one the gateway signed.
LEMMA VerifiedBundle ==
  ASSUME BundleOK, NEW g, NEW p, VerifyBundle(bundle, g, p)
  PROVE  /\ bundle = assembled /\ bundle.producer.of = <<bundle.payload>> /\ bundle.consensus
         /\ Contiguous(bundle.links)
<1>1. /\ g # 0 /\ bundle.signature = Signature(g, SignableState(bundle))
      /\ bundle.producer = Signature(p, <<bundle.payload>>) /\ bundle.consensus
      /\ Contiguous(bundle.links)
  BY DEF VerifyBundle, Verifies
<1>2. stage = "bundle"
  <2> SUFFICES ASSUME bundle = NoBundle PROVE FALSE
    BY DEF BundleOK
  <2>1. bundle.signature = Signature(0, << >>)
    BY DEF NoBundle, NoSignature
  <2> QED  BY <1>1, <2>1 DEF Signature
<1>3. PICK k \in Nat : assembled.signature = Signature(k, SignableState(assembled))
  BY <1>2 DEF BundleOK
<1>4. IsBundle(bundle) /\ IsBundle(assembled) /\ bundle.signature = assembled.signature
  BY <1>2 DEF BundleOK
<1>5. SignableState(bundle) = SignableState(assembled)
  BY <1>1, <1>3, <1>4 DEF Signature
<1>6. /\ bundle.payload = assembled.payload /\ bundle.producer = assembled.producer
      /\ bundle.consensus = assembled.consensus /\ bundle.links = assembled.links
  BY <1>5 DEF SignableState
<1>7. bundle = assembled
  BY <1>4, <1>6 DEF IsBundle
<1>8. bundle.producer.of = <<bundle.payload>>
  BY <1>1 DEF Signature
<1> QED  BY <1>1, <1>7, <1>8

LEMMA CustodyInvariant == CustodySpec => []CustodyInv
<1>1. ASSUME CustodyInv, UNCHANGED custodyVars PROVE CustodyInv'
  <2>1. UNCHANGED <<keys, nodes, contract, original, links, bundle, assembled, report, handed, stage, changes>>
    BY <1>1 DEF custodyVars
  <2>2. CustodyTypeOK'
    BY <1>1, <2>1 DEF CustodyInv, CustodyTypeOK
  <2>3. ReportOK'
    BY <1>1, <2>1 DEF CustodyInv, ReportOK, Contiguous
  <2> QED  BY <1>1, <2>1, <2>2, <2>3, UntouchedCustody DEF CustodyInv
<1>2. ASSUME CustodyInv, NEW n \in RouteNodes, RegisterNode(n) PROVE CustodyInv'
  <2>1. CustodyTypeOK'
    <3>1. keys[n] \in 0..(Rekeys + 1)
      BY <1>2, CustodyAssumption DEF CustodyInv, CustodyTypeOK
    <3> QED  BY <1>2, <3>1 DEF CustodyInv, CustodyTypeOK, RegisterNode
  <2>2. ReportOK'
    BY <1>2 DEF CustodyInv, ReportOK, Contiguous, RegisterNode
  <2> QED  BY <1>2, <2>1, <2>2, UntouchedCustody DEF CustodyInv, RegisterNode
<1>3. ASSUME CustodyInv, NEW n \in RouteNodes, Rekey(n) PROVE CustodyInv'
  <2>1. CustodyTypeOK'
    <3>1. keys[n] + 1 \in 1..(Rekeys + 1)
      BY <1>3, CustodyAssumption DEF CustodyInv, CustodyTypeOK, Rekey
    <3> QED  BY <1>3, <3>1 DEF CustodyInv, CustodyTypeOK, Rekey
  <2>2. ReportOK'
    BY <1>3 DEF CustodyInv, ReportOK, Contiguous, Rekey
  <2> QED  BY <1>3, <2>1, <2>2, UntouchedCustody DEF CustodyInv, Rekey
<1>4. ASSUME CustodyInv, Verify PROVE CustodyInv'
  <2>1. CustodyTypeOK'
    BY <1>4 DEF CustodyInv, CustodyTypeOK, Verify
  <2>2. ReportOK'
    <3>1. /\ stage = "bundle" /\ UNCHANGED <<assembled, stage>>
          /\ report' = "PASS" => VerifyBundle(bundle, nodes[Gateway], nodes[Producer])
      BY <1>4 DEF Verify
    <3>2. VerifyBundle(bundle, nodes[Gateway], nodes[Producer]) =>
             /\ bundle = assembled /\ bundle.producer.of = <<bundle.payload>> /\ bundle.consensus
             /\ Contiguous(bundle.links)
      BY <1>4, VerifiedBundle DEF CustodyInv
    <3> QED  BY <3>1, <3>2 DEF ReportOK, Contiguous
  <2> QED  BY <1>4, <2>1, <2>2, UntouchedCustody DEF CustodyInv, Verify
<1>5. CustodyInv /\ [CustodyNext]_custodyVars => CustodyInv'
  BY <1>1, <1>2, <1>3, <1>4, SignKeeps, HandoffKeeps, BundleKeeps, AlterationKeeps DEF CustodyNext
<1> QED  BY <1>5, CustodyStarts, PTL DEF CustodySpec

\* Every variable of the chain of custody keeps its type.
THEOREM CustodyTypeCorrect == CustodySpec => []CustodyTypeOK
<1>1. CustodyInv => CustodyTypeOK
  BY DEF CustodyInv
<1> QED  BY <1>1, CustodyInvariant, PTL

\* A chain of handoffs that is contiguous is a stretch of the route.
LEMMA StretchOfRoute ==
  ASSUME links \in Seq(HandoffForm), links # << >>, Contiguous(links),
         \A j \in DOMAIN links : \E m \in 1..(Len(Route) - 1) : IsHandoff(links[j], m)
  PROVE  \E i \in 1..Len(Route) : \A j \in DOMAIN links : links[j].from = Route[i + j - 1]
<1>1. /\ DOMAIN links = 1..Len(links) /\ Len(links) \in Nat /\ 1 \in DOMAIN links
      /\ Len(Route) \in Nat
  BY RouteIs
<1>2. PICK i \in 1..(Len(Route) - 1) : IsHandoff(links[1], i)
  BY <1>1
<1> DEFINE on(j) == i + j - 1 \in 1..Len(Route) /\ links[j].from = Route[i + j - 1]
           off   == {j \in Nat : j \in DOMAIN links /\ ~ on(j)}
<1>3. off = {}
  <2> SUFFICES ASSUME off # {} PROVE FALSE
    OBVIOUS
  <2>1. off \in SUBSET Nat
    OBVIOUS
  <2>2. PICK j \in off : \A k \in off : j <= k
    BY <2>1, LeastNumber
  <2>3. j \in 1..Len(links) /\ ~ on(j)
    BY <1>1, <2>2
  <2>4. j # 1
    <3>1. i + 1 - 1 = i /\ i \in 1..Len(Route)
      BY <1>1, <1>2
    <3> QED  BY <1>2, <2>3, <3>1 DEF IsHandoff
  <2>5. j - 1 \in DOMAIN links /\ j - 1 \in Nat /\ j \in 2..Len(links) /\ ~ (j <= j - 1)
    BY <1>1, <2>3, <2>4
  <2>6. on(j - 1)
    BY <2>2, <2>5
  <2>7. links[j - 1].to = links[j].from
    BY <2>5 DEF Contiguous
  <2>8. PICK m \in 1..(Len(Route) - 1) : IsHandoff(links[j - 1], m)
    BY <2>5
  <2>9. i + (j - 1) - 1 \in 1..Len(Route) /\ links[j - 1].from = Route[i + (j - 1) - 1]
    BY <2>6
  <2>10. m \in 1..Len(Route) /\ Route[m] = links[j - 1].from /\ links[j - 1].to = Route[m + 1]
    BY <1>1, <2>8 DEF IsHandoff
  <2>11. m = i + (j - 1) - 1
    BY <2>9, <2>10, RouteIs
  <2>12. m + 1 = i + j - 1 /\ m + 1 \in 1..Len(Route)
    <3>1. \A a, b, c \in Int : c = a + (b - 1) - 1 => c + 1 = a + b - 1
      OBVIOUS
    <3>2. i \in Int /\ j \in Int /\ m \in Int
      BY <1>1, <2>5
    <3>3. m + 1 = i + j - 1
      BY <2>11, <3>1, <3>2
    <3>4. m + 1 \in 1..Len(Route)
      BY <1>1, <2>8
    <3> QED  BY <3>3, <3>4
  <2> QED  BY <2>3, <2>7, <2>10, <2>12
<1>4. \A j \in DOMAIN links : on(j)
  BY <1>1, <1>3
<1>5. i \in 1..Len(Route)
  BY <1>1, <1>2
<1> QED  BY <1>4, <1>5

\* Whatever is altered and whoever starts again, a chain that verifies (verify_chain,
\* trust_chain.py) is made of handoffs their senders signed with the keys they have now,
\* from one holder to the next.
THEOREM CustodyIsHandedOn == CustodySpec => []CustodyWasHandedOn
<1>1. CustodyInv => CustodyWasHandedOn
  <2> SUFFICES ASSUME CustodyInv, CustodyVerifies
               PROVE  /\ Range(links) \subseteq handed
                      /\ \A l \in Range(links) : l.signature.key = nodes[l.from]
                      /\ \E i \in 1..Len(Route) : links # << >> =>
                            \A j \in DOMAIN links : links[j].from = Route[i + j - 1]
    BY DEF CustodyWasHandedOn
  <2>1. /\ links \in Seq(HandoffForm) /\ handed \subseteq HandoffForm /\ Cardinality(handed) \in Nat
        /\ Cardinality(handed) <= Len(Route) - 1
        /\ \A h \in handed : \E m \in 1..Cardinality(handed) : IsHandoff(h, m)
        /\ \A j \in DOMAIN links : \E h \in handed :
              links[j].from = h.from /\ links[j].payload = h.payload /\ links[j].signature = h.signature
    BY FS_CardinalityType DEF CustodyInv, ChainOK
  <2>2. ASSUME NEW j \in DOMAIN links
        PROVE  links[j] \in handed /\ links[j].signature.key = nodes[links[j].from]
    <3>1. PICK h \in handed :
             links[j].from = h.from /\ links[j].payload = h.payload /\ links[j].signature = h.signature
      BY <2>1
    <3>2. PICK k \in Nat : h.signature = Signature(k, <<h.from, h.to, h.payload>>)
      BY <2>1 DEF IsHandoff
    <3>3. links[j].signature = Signature(nodes[links[j].from], <<links[j].from, links[j].to, links[j].payload>>)
      BY DEF CustodyVerifies, Verifies
    <3>4. links[j].to = h.to /\ k = nodes[links[j].from]
      BY <3>1, <3>2, <3>3 DEF Signature
    <3>5. links[j] \in HandoffForm /\ h \in HandoffForm
      BY <2>1
    <3>6. links[j] = h
      BY <3>1, <3>4, <3>5 DEF HandoffForm
    <3> QED  BY <3>3, <3>6 DEF Signature
  <2>3. Range(links) \subseteq handed /\ \A l \in Range(links) : l.signature.key = nodes[l.from]
    BY <2>2 DEF Range
  <2>4. \A j \in DOMAIN links : \E m \in 1..(Len(Route) - 1) : IsHandoff(links[j], m)
    <3>1. 1..Cardinality(handed) \subseteq 1..(Len(Route) - 1)
      BY <2>1, RouteIs
    <3> QED  BY <2>1, <2>2, <3>1
  <2>5. \E i \in 1..Len(Route) : links # << >> =>
           \A j \in DOMAIN links : links[j].from = Route[i + j - 1]
    <3>1. 1 \in 1..Len(Route)
      BY RouteIs
    <3> QED  BY <2>1, <2>4, <3>1, StretchOfRoute DEF CustodyVerifies
  <2> QED  BY <2>3, <2>5
<1> QED  BY <1>1, CustodyInvariant, PTL

\* A bundle verifies only as the gateway signed it, and the PASS it keeps was earned by the
\* bundle as it was signed (ReplayBundle.verify, replay_bundle.py); a contract is VERIFIED
\* exactly as its producer signed it, under the key it is registered with (provenance.py),
\* whatever was altered or taken out since.
THEOREM VerifiedIsSigned == CustodySpec => []VerifiedIsAsSigned
<1>1. CustodyInv => VerifiedIsAsSigned
  <2> SUFFICES ASSUME CustodyInv PROVE VerifiedIsAsSigned
    OBVIOUS
  <2>1. ContractOK /\ BundleOK /\ ReportOK
    BY DEF CustodyInv
  <2>2. PICK p : p = nodes[Producer]
    OBVIOUS
  <2>3. VerifyBundle(bundle, nodes[Gateway], nodes[Producer]) =>
           bundle = assembled /\ bundle.producer.of = <<bundle.payload>> /\ bundle.consensus
    BY <2>1, VerifiedBundle
  <2>4. report = "PASS" => /\ assembled.producer.of = <<assembled.payload>>
                           /\ assembled.consensus /\ Contiguous(assembled.links)
    BY <2>1 DEF ReportOK
  <2>5. CASE stage = "register"
    <3>1. Provenance(contract, p) # "VERIFIED"
      BY <2>1, <2>5 DEF ContractOK, Provenance
    <3> QED  BY <2>2, <2>3, <2>4, <2>5, <3>1 DEF VerifiedIsAsSigned
  <2>6. CASE stage # "register"
    <3>1. /\ contract.producer \in {original.producer, NoSignature}
          /\ contract.contract \in {original.contract, NoSignature}
          /\ IsContract(contract) /\ IsContract(original) /\ original.id # Nobody
      BY <2>1, <2>6 DEF ContractOK
    <3>2. PICK k \in Nat \ {0} : SignedWith(original, k)
      BY <2>1, <2>6 DEF ContractOK
    <3>3. /\ original.producer = Signature(k, <<original.payload>>)
          /\ original.contract = Signature(k, ContractState(original))
      BY <3>2 DEF SignedWith
    <3>4. original.producer # NoSignature /\ original.contract # NoSignature /\ original.producer.key = k
      BY <3>2, <3>3 DEF NoSignature, Signature
    <3>5. ASSUME contract = original, p = k
          PROVE  Provenance(contract, p) = "VERIFIED"
      <4>1. /\ Verifies(contract.producer, p, <<contract.payload>>)
            /\ Verifies(contract.contract, p, ContractState(contract))
        BY <3>2, <3>3, <3>5 DEF Verifies
      <4> QED  BY <3>1, <3>4, <3>5, <4>1 DEF Provenance
    <3>6. ASSUME Provenance(contract, p) = "VERIFIED"
          PROVE  contract = original /\ p = k
      <4>1. /\ contract.producer # NoSignature /\ contract.contract # NoSignature
            /\ Verifies(contract.producer, p, <<contract.payload>>)
            /\ Verifies(contract.contract, p, ContractState(contract))
        BY <3>6 DEF Provenance
      <4>2. contract.producer = original.producer /\ contract.contract = original.contract
        BY <3>1, <4>1
      <4>3. Signature(k, <<original.payload>>) = Signature(p, <<contract.payload>>)
            /\ Signature(k, ContractState(original)) = Signature(p, ContractState(contract))
        BY <3>3, <4>1, <4>2 DEF Verifies
      <4>4. p = k /\ ContractState(original) = ContractState(contract)
        BY <4>3 DEF Signature
      <4>5. /\ original.payload = contract.payload /\ original.note = contract.note
            /\ original.id = contract.id
        BY <4>4 DEF ContractState
      <4> QED  BY <3>1, <4>2, <4>4, <4>5 DEF IsContract
    <3>7. Provenance(contract, p) = "VERIFIED" <=> contract = original /\ p = original.producer.key
      BY <3>4, <3>5, <3>6
    <3> QED  BY <2>2, <2>3, <2>4, <2>6, <3>7 DEF VerifiedIsAsSigned
  <2> QED  BY <2>5, <2>6
<1> QED  BY <1>1, CustodyInvariant, PTL

-----------------------------------------------------------------------------
(* The capability registry.                                                *)

\* Each service registers under one id and one name of its own (runtime_services.py).
OneIdPerName == \A c, d \in Capabilities : c.id = d.id <=> c.name = d.name

ValidOnes == {cap \in Capabilities : cap.valid}

\* The dict has one entry for an id, and the last payload of a name is among them.
EntriesKept ==
    /\ latest \in Seq(ValidOnes)
    /\ \A i, j \in DOMAIN table : table[i].id = table[j].id => i = j
    /\ OneIdPerName =>
          \A i \in DOMAIN latest :
              (\A j \in DOMAIN latest : j > i => latest[j].name # latest[i].name)
                  => \E k \in DOMAIN table : table[k] = latest[i]

CapabilityInv == CapabilityTypeOK /\ EntriesKept

LEMMA RegisterKeeps ==
  ASSUME CapabilityInv, NEW c \in Clients, NEW cap \in Capabilities,
         RegisterCapability(c, cap), cap.valid
  PROVE  /\ table' \in Seq(ValidOnes) /\ EntriesKept'
<1>1. /\ table \in Seq(ValidOnes) /\ latest \in Seq(ValidOnes) /\ cap \in ValidOnes
      /\ DOMAIN table = 1..Len(table) /\ DOMAIN latest = 1..Len(latest)
      /\ Len(table) \in Nat /\ Len(latest) \in Nat
  BY DEF CapabilityInv, CapabilityTypeOK, EntriesKept, ValidOnes
<1>2. table' = EnteredAt(cap) /\ latest' = Append(latest, cap)
  BY DEF RegisterCapability
<1>3. \A S : \A s \in Seq(S) : \A i \in DOMAIN s : s[i] \in S
  OBVIOUS
<1>4. \A S : \A s \in Seq(S) : \A x \in S :
         /\ Append(s, x) \in Seq(S) /\ DOMAIN Append(s, x) = 1..(Len(s) + 1)
         /\ Append(s, x)[Len(s) + 1] = x /\ \A i \in 1..Len(s) : Append(s, x)[i] = s[i]
  OBVIOUS
\* Every entry is the new one at its place, or stood where it stands and has another id.
<1>5. /\ table' \in Seq(ValidOnes) /\ \E k \in DOMAIN table' : table'[k] = cap
      /\ \A k \in DOMAIN table : table[k].id # cap.id => k \in DOMAIN table' /\ table'[k] = table[k]
      /\ \A i, j \in DOMAIN table' : table'[i].id = table'[j].id => i = j
  <2>1. CASE Place(cap.id) = {}
    <3>1. table' = Append(table, cap)
      BY <1>2, <2>1 DEF EnteredAt
    <3>2. /\ table' \in Seq(ValidOnes) /\ DOMAIN table' = 1..(Len(table) + 1)
          /\ table'[Len(table) + 1] = cap /\ \A k \in 1..Len(table) : table'[k] = table[k]
      BY <1>1, <1>4, <3>1
    <3>3. \A k \in 1..Len(table) : table[k].id # cap.id
      BY <1>1, <2>1 DEF Place
    <3>4. \A k \in 1..(Len(table) + 1) : k \in 1..Len(table) \/ k = Len(table) + 1
      BY <1>1
    <3>5. \A i, j \in DOMAIN table : table[i].id = table[j].id => i = j
      BY DEF CapabilityInv, EntriesKept
    <3>6. Len(table) + 1 \in DOMAIN table' /\ 1..Len(table) \subseteq DOMAIN table'
      BY <1>1, <3>2
    <3>7. ASSUME NEW i \in DOMAIN table', NEW j \in DOMAIN table', table'[i].id = table'[j].id
          PROVE  i = j
      BY <1>1, <3>2, <3>3, <3>4, <3>5, <3>7
    <3> QED  BY <1>1, <3>2, <3>6, <3>7
  <2>2. CASE Place(cap.id) # {}
    <3>1. table' = [i \in DOMAIN table |-> IF i \in Place(cap.id) THEN cap ELSE table[i]]
      BY <1>2, <2>2 DEF EnteredAt
    <3>2. DOMAIN table' = DOMAIN table
          /\ \A i \in DOMAIN table : table'[i] = IF table[i].id = cap.id THEN cap ELSE table[i]
      BY <3>1 DEF Place
    <3>3. table' \in Seq(ValidOnes)
      <4>1. \A n \in Nat : \A h \in [1..n -> ValidOnes] : h \in Seq(ValidOnes)
        OBVIOUS
      <4>2. table' \in [1..Len(table) -> ValidOnes]
        BY <1>1, <1>3, <3>1
      <4> QED  BY <1>1, <4>1, <4>2
    <3>4. PICK k \in DOMAIN table : table[k].id = cap.id
      BY <2>2 DEF Place
    <3>5. \A i \in DOMAIN table : table'[i].id = table[i].id
      BY <3>2
    <3>6. \A i, j \in DOMAIN table : table[i].id = table[j].id => i = j
      BY DEF CapabilityInv, EntriesKept
    <3> QED  BY <3>2, <3>3, <3>4, <3>5, <3>6
  <2> QED  BY <2>1, <2>2
<1>6. /\ latest' \in Seq(ValidOnes) /\ DOMAIN latest' = 1..(Len(latest) + 1)
      /\ latest'[Len(latest) + 1] = cap /\ \A i \in 1..Len(latest) : latest'[i] = latest[i]
  BY <1>1, <1>2, <1>4
<1>7. ASSUME OneIdPerName, NEW i \in DOMAIN latest',
             \A j \in DOMAIN latest' : j > i => latest'[j].name # latest'[i].name
      PROVE  \E k \in DOMAIN table' : table'[k] = latest'[i]
  <2>1. CASE i = Len(latest) + 1
    BY <1>5, <1>6, <2>1
  <2>2. CASE i \in 1..Len(latest)
    <3>1. Len(latest) + 1 > i /\ Len(latest) + 1 \in DOMAIN latest'
      BY <1>1, <1>6, <2>2
    <3>2. cap.name # latest[i].name
      BY <1>6, <1>7, <2>2, <3>1
    <3>3. \A j \in DOMAIN latest : j > i => latest[j].name # latest[i].name
      <4>1. \A j \in 1..Len(latest) : j \in 1..(Len(latest) + 1)
        BY <1>1
      <4> QED  BY <1>1, <1>6, <1>7, <2>2, <4>1
    <3>4. PICK k \in DOMAIN table : table[k] = latest[i]
      BY <1>1, <1>7, <2>2, <3>3 DEF CapabilityInv, EntriesKept
    <3>5. table[k].id # cap.id
      <4>1. table[k] \in ValidOnes
        BY <1>1, <1>3
      <4> QED  BY <1>7, <3>2, <3>4, <4>1 DEF OneIdPerName, ValidOnes
    <3> QED  BY <1>5, <1>6, <2>2, <3>4, <3>5
  <2> QED  BY <1>1, <1>6, <2>1, <2>2
<1> QED  BY <1>5, <1>6, <1>7 DEF EntriesKept

LEMMA CapabilityInvariant == CapabilitySpec => []CapabilityInv
<1>1. CapabilityInit => CapabilityInv
  <2>1. << >> \in Seq(ValidOnes) /\ << >> \in Seq(Capabilities)
    OBVIOUS
  <2> QED  BY <2>1, CapabilityAssumption
              DEF CapabilityInit, CapabilityInv, CapabilityTypeOK, EntriesKept, Nothing, ValidOnes
<1>2. ASSUME CapabilityInv, UNCHANGED capabilityVars PROVE CapabilityInv'
  BY <1>2 DEF capabilityVars, CapabilityInv, CapabilityTypeOK, EntriesKept
<1>3. ASSUME CapabilityInv, EndProcess PROVE CapabilityInv'
  <2>1. table' = << >> /\ latest' = << >> /\ serving' = FALSE /\ UNCHANGED <<told, requests>>
    BY <1>3 DEF EndProcess
  <2>2. /\ table' \in Seq(ValidOnes) /\ latest' \in Seq(ValidOnes) /\ latest' \in Seq(Capabilities)
        /\ DOMAIN table' = {} /\ DOMAIN latest' = {}
    BY <2>1
  <2>3. EntriesKept'
    BY <2>2 DEF EntriesKept
  <2> QED  BY <1>3, <2>1, <2>2, <2>3 DEF CapabilityInv, CapabilityTypeOK, ValidOnes
<1>4. ASSUME CapabilityInv, StartServer PROVE CapabilityInv'
  <2>1. requests' \in 0..MaxRequests
    BY <1>4, CapabilityAssumption DEF StartServer, CapabilityInv, CapabilityTypeOK
  <2> QED  BY <1>4, <2>1 DEF StartServer, CapabilityInv, CapabilityTypeOK, EntriesKept
\* What a client is told.
<1>5. ASSUME CapabilityInv, NEW c \in Clients,
             \E a : told' = [told EXCEPT ![c] = a] /\ a.answer \in {"registered", "discovered", "failed"}
      PROVE  /\ DOMAIN told' = Clients
             /\ \A d \in Clients : told'[d].answer \in {"none", "registered", "discovered", "failed"}
  <2>1. PICK a : told' = [told EXCEPT ![c] = a] /\ a.answer \in {"registered", "discovered", "failed"}
    BY <1>5
  <2>2. DOMAIN told' = Clients /\ \A d \in Clients : told'[d] = a \/ told'[d] = told[d]
    BY <1>5, <2>1 DEF CapabilityInv, CapabilityTypeOK
  <2> QED  BY <1>5, <2>1, <2>2 DEF CapabilityInv, CapabilityTypeOK
<1>6. ASSUME CapabilityInv, NEW c \in Clients, NEW cap \in Capabilities, RegisterCapability(c, cap)
      PROVE  CapabilityInv'
  <2>1. requests' \in 0..MaxRequests /\ serving' = serving
    BY <1>6, CapabilityAssumption DEF RegisterCapability, CapabilityInv, CapabilityTypeOK
  <2>2. \E a : told' = [told EXCEPT ![c] = a] /\ a.answer \in {"registered", "discovered", "failed"}
    <3>1. PICK answered \in BOOLEAN :
             told' = [told EXCEPT ![c] = [name |-> cap.name, found |-> << >>,
                          answer |-> IF cap.valid /\ answered THEN "registered" ELSE "failed"]]
      BY <1>6 DEF RegisterCapability
    <3>2. PICK a : a = [name |-> cap.name, found |-> << >>,
                        answer |-> IF cap.valid /\ answered THEN "registered" ELSE "failed"]
      OBVIOUS
    <3>3. a.answer \in {"registered", "discovered", "failed"}
      BY <3>2
    <3> QED  BY <3>1, <3>2, <3>3
  <2>3. /\ DOMAIN told' = Clients
        /\ \A d \in Clients : told'[d].answer \in {"none", "registered", "discovered", "failed"}
    BY <1>5, <1>6, <2>2
  <2>4. CASE cap.valid
    <3>1. table' \in Seq(ValidOnes) /\ EntriesKept'
      BY <1>6, <2>4, RegisterKeeps
    <3>2. latest' \in Seq(Capabilities)
      <4>1. cap \in Capabilities /\ latest \in Seq(Capabilities) /\ latest' = Append(latest, cap)
        BY <1>6, <2>4 DEF RegisterCapability, CapabilityInv, CapabilityTypeOK
      <4> QED  BY <4>1
    <3> QED  BY <1>6, <2>1, <2>3, <3>1, <3>2 DEF CapabilityInv, CapabilityTypeOK, ValidOnes
  <2>5. CASE ~ cap.valid
    <3>1. UNCHANGED <<table, latest>>
      BY <1>6, <2>5 DEF RegisterCapability
    <3> QED  BY <1>6, <2>1, <2>3, <3>1 DEF CapabilityInv, CapabilityTypeOK, EntriesKept
  <2> QED  BY <2>4, <2>5
<1>7. ASSUME CapabilityInv, NEW c \in Clients, NEW cap \in Capabilities,
             Discover(c, cap.name) \/ RequestFails(c, cap.name)
      PROVE  CapabilityInv'
  <2>1. UNCHANGED <<serving, table, latest, requests>>
    BY <1>7 DEF Discover, RequestFails
  <2>2. \E a : told' = [told EXCEPT ![c] = a] /\ a.answer \in {"registered", "discovered", "failed"}
    <3>1. PICK s \in Seq(Capabilities) \cup {FirstNamed(cap.name)}, b \in {"discovered", "failed"} :
             told' = [told EXCEPT ![c] = [name |-> cap.name, found |-> s, answer |-> b]]
      <4>1. << >> \in Seq(Capabilities)
        OBVIOUS
      <4>2. CASE RequestFails(c, cap.name)
        BY <4>1, <4>2 DEF RequestFails
      <4>3. CASE Discover(c, cap.name)
        <5>1. PICK s \in {FirstNamed(cap.name), << >>} :
                 told' = [told EXCEPT ![c] = [name |-> cap.name, found |-> s,
                              answer |-> IF s = << >> THEN "failed" ELSE "discovered"]]
          BY <4>3 DEF Discover
        <5> QED  BY <4>1, <5>1
      <4> QED  BY <1>7, <4>2, <4>3
    <3>2. PICK a : a = [name |-> cap.name, found |-> s, answer |-> b]
      OBVIOUS
    <3>3. a.answer \in {"registered", "discovered", "failed"}
      BY <3>2
    <3> QED  BY <3>1, <3>2, <3>3
  <2>3. /\ DOMAIN told' = Clients
        /\ \A d \in Clients : told'[d].answer \in {"none", "registered", "discovered", "failed"}
    BY <1>5, <1>7, <2>2
  <2> QED  BY <1>7, <2>1, <2>3 DEF CapabilityInv, CapabilityTypeOK, EntriesKept
<1>8. ASSUME CapabilityInv, StopServer PROVE CapabilityInv'
  BY <1>8 DEF StopServer, CapabilityInv, CapabilityTypeOK, EntriesKept
<1>9. CapabilityInv /\ [CapabilityNext]_capabilityVars => CapabilityInv'
  BY <1>2, <1>3, <1>4, <1>6, <1>7, <1>8 DEF CapabilityNext
<1> QED  BY <1>1, <1>9, PTL DEF CapabilitySpec

\* While no two ids share a name, a discovery finds the endpoint that registered last, after
\* any registrations, lost answers, stops and ends of the server (do_POST and do_GET of
\* capability_registry.py).
THEOREM LatestIsDiscovered ==
  ASSUME OneIdPerName
  PROVE  CapabilitySpec => []DiscoversTheLatest
<1>1. CapabilityInv => DiscoversTheLatest
  <2> SUFFICES ASSUME CapabilityInv, NEW i \in DOMAIN latest,
                      \A j \in DOMAIN latest : j > i => latest[j].name # latest[i].name
               PROVE  FirstNamed(latest[i].name) = <<latest[i]>>
    BY DEF DiscoversTheLatest
  <2>1. PICK k \in DOMAIN table : table[k] = latest[i]
    BY DEF CapabilityInv, EntriesKept
  <2>2. table \in Seq(Capabilities)
    <3>1. table \in Seq(ValidOnes) /\ ValidOnes \subseteq Capabilities
      BY DEF CapabilityInv, CapabilityTypeOK, ValidOnes
    <3>2. \A S, T : S \subseteq T => \A s \in Seq(S) : s \in Seq(T)
      OBVIOUS
    <3> QED  BY <3>1, <3>2
  <2>3. DOMAIN table \subseteq Nat /\ \A j \in DOMAIN table : table[j] \in Capabilities
    BY <2>2
  <2>4. \A j \in DOMAIN table : table[j].name = latest[i].name <=> j = k
    BY <2>1, <2>3 DEF OneIdPerName, CapabilityInv, EntriesKept
  <2>5. {j \in DOMAIN table : table[j].name = latest[i].name} = {k}
    BY <2>4
  <2>6. Min({k}) = k
    BY <2>3 DEF Min
  <2> QED  BY <2>1, <2>5, <2>6 DEF FirstNamed
<1> QED  BY <1>1, CapabilityInvariant, PTL

\* What the server holds and serves has passed the schema check.
THEOREM CapabilityTypeCorrect == CapabilitySpec => []CapabilityTypeOK
<1>1. CapabilityInv => CapabilityTypeOK
  BY DEF CapabilityInv
<1> QED  BY <1>1, CapabilityInvariant, PTL

-----------------------------------------------------------------------------
(* The socket transport.                                                   *)

ConnForm == [wire : Seq(Parts), sent : Seq(1..Puts), open : BOOLEAN, up : BOOLEAN]

Rising(s) == \A i, j \in DOMAIN s : i < j => s[i] < s[j]

\* The lengths on the wire announce messages that were sent, in their order.
Announced(w, s) ==
    /\ \A i \in DOMAIN w : w[i].part = "length" => w[i].of \in Range(s)
    /\ \A i, j \in DOMAIN w : i < j /\ w[i].part = "length" /\ w[j].part = "length" => w[i].of < w[j].of

\* A connection that carries messages up to the p-th.
ConnOK(c, p) ==
    /\ Rising(c.sent) /\ Announced(c.wire, c.sent)
    /\ \A i \in DOMAIN c.sent : c.sent[i] <= p

\* The connection d is c after a step of the sender, which may have written the p-th message.
Grows(c, d, p) ==
    /\ d \in ConnForm /\ ConnOK(d, p) /\ d.up = c.up
    /\ Len(c.sent) <= Len(d.sent) /\ \A i \in DOMAIN c.sent : d.sent[i] = c.sent[i]
    /\ \A n \in Nat : c.up /\ LeftOf(c.wire, c.sent, n) => LeftOf(d.wire, d.sent, n)
    /\ \A i \in DOMAIN d.wire : d.wire[i].part = "length" =>
          (\E j \in DOMAIN c.wire : c.wire[j] = d.wire[i]) \/ (d.wire[i].of = p /\ p \notin Range(c.sent))

LEMMA FrameIs ==
  ASSUME NEW m \in 1..Puts
  PROVE  /\ Frame(m) \in Seq(Parts) /\ Len(Frame(m)) = 2
         /\ Frame(m)[1] = [part |-> "length", of |-> m] /\ Frame(m)[2] = [part |-> "body", of |-> m]
<1>1. [part |-> "length", of |-> m] \in Parts /\ [part |-> "body", of |-> m] \in Parts
  BY DEF Parts
<1> QED  BY <1>1 DEF Frame

\* Where the parts of the i-th of b frames are, when n parts have been read and a are left.
LEMMA PlacesLeft ==
  ASSUME NEW a \in Nat, NEW b \in Nat, NEW n \in Nat, a = 2 * b - n, NEW i \in 1..b
  PROVE  /\ 2 * i - 1 > n => 2 * i - 1 - n \in 1..a
         /\ 2 * i > n => 2 * i - n \in 1..a
         /\ 2 * i - 1 > n + 1 => /\ 2 * i - 1 - (n + 1) \in 1..(a - 1)
                                 /\ 2 * i - 1 - (n + 1) + 1 = 2 * i - 1 - n /\ 2 * i - 1 > n
         /\ 2 * i > n + 1 => /\ 2 * i - (n + 1) \in 1..(a - 1)
                             /\ 2 * i - (n + 1) + 1 = 2 * i - n /\ 2 * i > n
  OBVIOUS

\* What was not yet read of the frames, and a frame behind it.
LEMMA LeftGrows ==
  ASSUME NEW w \in Seq(Parts), NEW s \in Seq(1..Puts), NEW n \in Nat, NEW m \in 1..Puts,
         LeftOf(w, s, n)
  PROVE  LeftOf(w \o Frame(m), Append(s, m), n)
<1> DEFINE v == w \o Frame(m)
           t == Append(s, m)
<1>1. /\ Len(w) \in Nat /\ Len(s) \in Nat /\ DOMAIN w = 1..Len(w) /\ DOMAIN s = 1..Len(s)
      /\ Len(v) = Len(w) + 2 /\ Len(t) = Len(s) + 1 /\ DOMAIN t = 1..(Len(s) + 1)
      /\ \A i \in 1..Len(w) : v[i] = w[i]
      /\ v[Len(w) + 1] = Frame(m)[1] /\ v[Len(w) + 2] = Frame(m)[2]
      /\ t[Len(s) + 1] = m /\ \A i \in 1..Len(s) : t[i] = s[i]
  <2>1. Frame(m) \in Seq(Parts) /\ Len(Frame(m)) = 2
    BY FrameIs
  <2>2. /\ t \in Seq(1..Puts) /\ Len(t) = Len(s) + 1
        /\ t[Len(s) + 1] = m /\ \A i \in 1..Len(s) : t[i] = s[i]
    BY Appending
  <2>3. /\ Len(v) = Len(w) + Len(Frame(m))
        /\ \A i \in 1..Len(w) : v[i] = w[i]
        /\ \A i \in 1..Len(Frame(m)) : v[Len(w) + i] = Frame(m)[i]
    <3>1. PICK f \in Seq(Parts) : f = Frame(m)
      BY <2>1
    <3>2. /\ Len(w \o f) = Len(w) + Len(f)
          /\ \A i \in 1..Len(w) : (w \o f)[i] = w[i]
          /\ \A i \in 1..Len(f) : (w \o f)[Len(w) + i] = f[i]
      BY Concatenating
    <3> QED  BY <3>1, <3>2
  <2>4. DOMAIN w = 1..Len(w) /\ Len(w) \in Nat /\ DOMAIN s = 1..Len(s) /\ Len(s) \in Nat
    BY Elements
  <2>5. DOMAIN t = 1..Len(t)
    BY <2>2, Elements
  <2> HIDE DEF v, t
  <2>6. 1 \in 1..2 /\ 2 \in 1..2
    OBVIOUS
  <2>7. v[Len(w) + 1] = Frame(m)[1] /\ v[Len(w) + 2] = Frame(m)[2]
    BY <2>1, <2>3, <2>6
  <2> QED  BY <2>1, <2>2, <2>3, <2>4, <2>5, <2>7
<1> HIDE DEF v, t
<1>2. Len(w) = 2 * Len(s) - n
  BY DEF LeftOf
<1>3. ASSUME NEW i \in DOMAIN t
      PROVE  /\ 2 * i - 1 > n => v[2 * i - 1 - n] = Frame(t[i])[1]
             /\ 2 * i > n => v[2 * i - n] = Frame(t[i])[2]
  <2>1. CASE i \in 1..Len(s)
    <3>1. 2 * i - 1 > n => 2 * i - 1 - n \in 1..Len(w)
      BY <1>2, <2>1, Elements, PlacesLeft
    <3>2. 2 * i > n => 2 * i - n \in 1..Len(w)
      BY <1>2, <2>1, Elements, PlacesLeft
    <3>3. 2 * i - 1 > n => w[2 * i - 1 - n] = Frame(s[i])[1]
      BY <1>1, <2>1 DEF LeftOf
    <3>4. 2 * i > n => w[2 * i - n] = Frame(s[i])[2]
      BY <1>1, <2>1 DEF LeftOf
    <3>5. t[i] = s[i]
      BY <1>1, <2>1
    <3> HIDE DEF Frame
    <3> QED  BY <1>1, <3>1, <3>2, <3>3, <3>4, <3>5
  <2>2. CASE i = Len(s) + 1
    <3>1. 2 * i - 1 - n = Len(w) + 1 /\ 2 * i - n = Len(w) + 2
      BY <1>1, <1>2, <2>2
    <3> QED  BY <1>1, <2>2, <3>1
  <2> QED  BY <1>1, <2>1, <2>2
<1>4. Len(v) = 2 * Len(t) - n
  BY <1>1, <1>2
<1> QED  BY <1>3, <1>4 DEF LeftOf, v, t

\* One part has been read.
LEMMA LeftShrinks ==
  ASSUME NEW w \in Seq(Parts), NEW s \in Seq(1..Puts), NEW n \in Nat, LeftOf(w, s, n), w # << >>
  PROVE  LeftOf(Tail(w), s, n + 1)
<1> DEFINE v == Tail(w)
<1>1. /\ Len(w) \in Nat \ {0} /\ Len(v) = Len(w) - 1 /\ \A i \in 1..(Len(w) - 1) : v[i] = w[i + 1]
      /\ Len(s) \in Nat /\ DOMAIN s = 1..Len(s)
  OBVIOUS
<1> HIDE DEF v
<1>2. Len(w) = 2 * Len(s) - n
  BY DEF LeftOf
<1>3. ASSUME NEW i \in DOMAIN s
      PROVE  /\ 2 * i - 1 > n + 1 => v[2 * i - 1 - (n + 1)] = Frame(s[i])[1]
             /\ 2 * i > n + 1 => v[2 * i - (n + 1)] = Frame(s[i])[2]
  <2>1. ASSUME 2 * i - 1 > n + 1 PROVE v[2 * i - 1 - (n + 1)] = Frame(s[i])[1]
    <3>1. 2 * i - 1 - (n + 1) \in 1..(Len(w) - 1) /\ 2 * i - 1 - (n + 1) + 1 = 2 * i - 1 - n /\ 2 * i - 1 > n
      BY <1>1, <1>2, <2>1, PlacesLeft
    <3>2. w[2 * i - 1 - n] = Frame(s[i])[1]
      BY <3>1 DEF LeftOf
    <3> QED  BY <1>1, <3>1, <3>2
  <2>2. ASSUME 2 * i > n + 1 PROVE v[2 * i - (n + 1)] = Frame(s[i])[2]
    <3>1. 2 * i - (n + 1) \in 1..(Len(w) - 1) /\ 2 * i - (n + 1) + 1 = 2 * i - n /\ 2 * i > n
      BY <1>1, <1>2, <2>2, PlacesLeft
    <3>2. w[2 * i - n] = Frame(s[i])[2]
      BY <3>1 DEF LeftOf
    <3> QED  BY <1>1, <3>1, <3>2
  <2> QED  BY <2>1, <2>2
<1>4. Len(v) = 2 * Len(s) - (n + 1)
  BY <1>1, <1>2
<1> QED  BY <1>3, <1>4 DEF LeftOf, v

\* A message put on a connection keeps it in order, and what is left of its frames grows by one.
LEMMA WrittenGrows ==
  ASSUME NEW c \in ConnForm, NEW p \in 1..Puts, ConnOK(c, p - 1)
  PROVE  Grows(c, Written(c, p), p)
<1> DEFINE d == Written(c, p)
<1>1. /\ c.wire \in Seq(Parts) /\ c.sent \in Seq(1..Puts) /\ c.open \in BOOLEAN /\ c.up \in BOOLEAN
      /\ c = [wire |-> c.wire, sent |-> c.sent, open |-> c.open, up |-> c.up]
  BY DEF ConnForm
<1>2. /\ d.sent = Append(c.sent, p) /\ d.up = c.up /\ d.open = c.open
      /\ d.wire = IF c.up THEN c.wire \o Frame(p) ELSE c.wire
      /\ d = [wire |-> d.wire, sent |-> d.sent, open |-> d.open, up |-> d.up]
  <2>1. PICK w, s, o, u : c = [wire |-> w, sent |-> s, open |-> o, up |-> u]
    BY <1>1
  <2>2. PICK x, y : x = Append(s, p) /\ y = (IF u THEN w \o Frame(p) ELSE w)
    OBVIOUS
  <2>3. c.wire = w /\ c.sent = s /\ c.open = o /\ c.up = u
    BY <2>1
  <2>4. d = [c EXCEPT !.sent = x, !.wire = y]
    BY <2>2, <2>3 DEF Written
  <2>5. d = [wire |-> y, sent |-> x, open |-> o, up |-> u]
    BY <2>1, <2>4
  <2> HIDE DEF d
  <2>6. d.wire = y /\ d.sent = x /\ d.open = o /\ d.up = u
    BY <2>5
  <2> QED  BY <2>2, <2>3, <2>5, <2>6
<1> HIDE DEF d
<1>3. /\ d.sent \in Seq(1..Puts) /\ Len(d.sent) = Len(c.sent) + 1 /\ Len(c.sent) \in Nat
      /\ d.sent[Len(c.sent) + 1] = p /\ \A i \in 1..Len(c.sent) : d.sent[i] = c.sent[i]
      /\ DOMAIN c.sent = 1..Len(c.sent)
  BY <1>1, <1>2, Appending, Elements
<1>4. DOMAIN d.sent = 1..(Len(c.sent) + 1)
  BY <1>3, Elements
<1>5. \A i \in DOMAIN c.sent : c.sent[i] \in 1..Puts /\ c.sent[i] <= p - 1
  BY <1>1, Elements DEF ConnOK
<1>6. PICK f \in Seq(Parts) : f = Frame(p)
  BY FrameIs
<1>7. /\ Len(f) = 2 /\ f[1] = [part |-> "length", of |-> p] /\ f[2] = [part |-> "body", of |-> p]
  BY <1>6, FrameIs
<1>8. /\ d.wire \in Seq(Parts)
      /\ c.up => /\ Len(d.wire) = Len(c.wire) + 2
                 /\ \A i \in 1..Len(c.wire) : d.wire[i] = c.wire[i]
                 /\ \A i \in 1..2 : d.wire[Len(c.wire) + i] = f[i]
  <2>1. /\ c.wire \o f \in Seq(Parts) /\ Len(c.wire \o f) = Len(c.wire) + Len(f)
        /\ \A i \in 1..Len(c.wire) : (c.wire \o f)[i] = c.wire[i]
        /\ \A i \in 1..Len(f) : (c.wire \o f)[Len(c.wire) + i] = f[i]
    BY <1>1, Concatenating
  <2>2. d.wire = IF c.up THEN c.wire \o f ELSE c.wire
    BY <1>2, <1>6
  <2> QED  BY <1>1, <1>7, <2>1, <2>2
<1>9. /\ DOMAIN d.wire = 1..Len(d.wire) /\ Len(c.wire) \in Nat /\ DOMAIN c.wire = 1..Len(c.wire)
  BY <1>1, <1>8, Elements
<1>10. d \in ConnForm
  BY <1>1, <1>2, <1>3, <1>8 DEF ConnForm
<1>11. Range(c.sent) \subseteq Range(d.sent) /\ p \in Range(d.sent) /\ p \notin Range(c.sent)
  <2>1. \A i \in DOMAIN c.sent : i \in DOMAIN d.sent /\ d.sent[i] = c.sent[i] /\ c.sent[i] # p
    BY <1>3, <1>4, <1>5
  <2>2. Len(c.sent) + 1 \in DOMAIN d.sent
    BY <1>3, <1>4
  <2> QED  BY <2>1, <2>2, <1>3 DEF Range
<1>12. ASSUME NEW i \in DOMAIN d.wire
       PROVE  \/ i \in DOMAIN c.wire /\ d.wire[i] = c.wire[i]
              \/ i = Len(c.wire) + 1 /\ d.wire[i].part = "length" /\ d.wire[i].of = p
              \/ d.wire[i].part = "body"
  <2>1. CASE ~ c.up
    BY <2>1, <1>2
  <2>2. CASE c.up
    <3>1. i \in 1..Len(c.wire) \/ i = Len(c.wire) + 1 \/ i = Len(c.wire) + 2
      BY <1>8, <1>9, <2>2
    <3>2. d.wire[Len(c.wire) + 1] = f[1] /\ d.wire[Len(c.wire) + 2] = f[2]
      <4>1. 1 \in 1..2 /\ 2 \in 1..2
        OBVIOUS
      <4> QED  BY <4>1, <1>8, <2>2
    <3>3. f[1].part = "length" /\ f[1].of = p /\ f[2].part = "body"
      BY <1>7
    <3> QED  BY <1>8, <1>9, <2>2, <3>1, <3>2, <3>3
  <2> QED  BY <1>1, <2>1, <2>2
<1>13. Rising(d.sent)
  <2>1. ASSUME NEW i \in 1..(Len(c.sent) + 1), NEW j \in 1..(Len(c.sent) + 1), i < j
        PROVE  d.sent[i] < d.sent[j]
    <3>1. i \in 1..Len(c.sent) /\ (j \in 1..Len(c.sent) \/ j = Len(c.sent) + 1)
      BY <1>3, <2>1
    <3>2. CASE j \in 1..Len(c.sent)
      <4>1. c.sent[i] < c.sent[j]
        BY <1>3, <2>1, <3>1, <3>2 DEF ConnOK, Rising
      <4> QED  BY <4>1, <3>1, <3>2, <1>3
    <3>3. CASE j = Len(c.sent) + 1
      <4>1. c.sent[i] \in 1..Puts /\ c.sent[i] <= p - 1
        BY <3>1, <1>3, <1>5
      <4> QED  BY <4>1, <3>1, <3>3, <1>3
    <3> QED  BY <3>1, <3>2, <3>3
  <2> QED  BY <2>1, <1>4 DEF Rising
<1>14. \A i \in DOMAIN c.wire : c.wire[i].part = "length" =>
          c.wire[i].of \in Range(c.sent) /\ c.wire[i].of < p
  <2>1. \A x \in Range(c.sent) : x < p
    BY <1>5 DEF Range
  <2> QED  BY <2>1 DEF ConnOK, Announced
<1>15. Announced(d.wire, d.sent)
  <2>1. ASSUME NEW i \in DOMAIN d.wire, d.wire[i].part = "length" PROVE d.wire[i].of \in Range(d.sent)
    BY <2>1, <1>11, <1>12, <1>14
  <2>2. ASSUME NEW i \in DOMAIN d.wire, NEW j \in DOMAIN d.wire, i < j,
               d.wire[i].part = "length", d.wire[j].part = "length"
        PROVE  d.wire[i].of < d.wire[j].of
    <3>1. i \in DOMAIN c.wire \/ i = Len(c.wire) + 1
      BY <2>2, <1>12
    <3>2. j \in DOMAIN c.wire \/ j = Len(c.wire) + 1
      BY <2>2, <1>12
    <3>3. i \in DOMAIN c.wire
      BY <2>2, <3>1, <3>2, <1>9
    <3>4. Len(c.wire) + 1 \notin DOMAIN c.wire
      BY <1>9
    <3>5. d.wire[i] = c.wire[i]
      BY <2>2, <3>3, <3>4, <1>12
    <3>6. CASE j \in DOMAIN c.wire
      <4>1. d.wire[j] = c.wire[j]
        BY <2>2, <3>4, <3>6, <1>12
      <4> QED  BY <2>2, <3>3, <3>5, <3>6, <4>1 DEF ConnOK, Announced
    <3>7. CASE j = Len(c.wire) + 1
      BY <2>2, <3>3, <3>4, <3>5, <3>7, <1>12, <1>14
    <3> QED  BY <3>2, <3>6, <3>7
  <2> QED  BY <2>1, <2>2 DEF Announced
<1>16. \A i \in DOMAIN d.sent : d.sent[i] <= p
  <2>1. ASSUME NEW i \in 1..(Len(c.sent) + 1) PROVE d.sent[i] <= p
    <3>1. i \in 1..Len(c.sent) \/ i = Len(c.sent) + 1
      BY <1>3
    <3>2. ASSUME i \in 1..Len(c.sent) PROVE c.sent[i] \in 1..Puts /\ c.sent[i] <= p - 1
      BY <3>2, <1>3, <1>5
    <3> QED  BY <3>1, <3>2, <1>3
  <2> QED  BY <2>1, <1>4
<1>17. ASSUME NEW n \in Nat, c.up, LeftOf(c.wire, c.sent, n)
       PROVE  LeftOf(d.wire, d.sent, n)
  BY <1>17, <1>1, <1>2, LeftGrows
<1>18. ASSUME NEW i \in DOMAIN d.wire, d.wire[i].part = "length"
       PROVE  (\E j \in DOMAIN c.wire : c.wire[j] = d.wire[i]) \/ (d.wire[i].of = p /\ p \notin Range(c.sent))
  BY <1>18, <1>11, <1>12
<1>19. Len(c.sent) <= Len(d.sent) /\ \A i \in DOMAIN c.sent : d.sent[i] = c.sent[i]
  BY <1>3
<1> QED  BY <1>2, <1>10, <1>13, <1>15, <1>16, <1>17, <1>18, <1>19 DEF Grows, ConnOK, d

\* A connection left alone, or whose sender hangs up, has not lost or gained anything.
LEMMA SameGrows ==
  ASSUME NEW c \in ConnForm, NEW d \in ConnForm, NEW p \in Nat, ConnOK(c, p),
         d.wire = c.wire, d.sent = c.sent, d.up = c.up
  PROVE  Grows(c, d, p)
<1>1. Len(c.sent) \in Nat
  BY Elements DEF ConnForm
<1> QED  BY <1>1 DEF Grows, ConnOK

\* How far the receiver is in its connection c, having returned g, while no frame was cut.
Taken(g, r) == 2 * Len(g) + (IF r.at = "body" THEN 1 ELSE 0)

InStep(c, g, r) ==
    /\ r # Garbage
    /\ Len(g) <= Len(c.sent) /\ \A i \in DOMAIN g : g[i] = c.sent[i]
    /\ r.at = "body" => Len(g) < Len(c.sent) /\ r.of = c.sent[Len(g) + 1]
    /\ LeftOf(c.wire, c.sent, Taken(g, r))

\* The connection c, what get returned of it, and the message it is reading.
Hears(c, g, r, whole) ==
    /\ Rising(g) /\ Range(g) \subseteq Range(c.sent)
    /\ \A i \in DOMAIN c.wire : c.wire[i].part = "length" => \A j \in DOMAIN g : g[j] < c.wire[i].of
    /\ r.at = "body" =>
          /\ r.of \in Range(c.sent) /\ \A j \in DOMAIN g : g[j] < r.of
          /\ \A i \in DOMAIN c.wire : c.wire[i].part = "length" => r.of < c.wire[i].of
    /\ whole => InStep(c, g, r)

ReadingForms == {Idle, AtLength, Garbage} \cup {Body(m) : m \in 1..Puts}

LEMMA ReadingIs ==
  /\ Idle.at = "idle" /\ AtLength.at = "length" /\ Garbage.at = "garbage"
  /\ \A m : Body(m).at = "body" /\ Body(m).of = m
  /\ \A r \in ReadingForms : r.at = "body" => r.of \in 1..Puts
  /\ \A r \in ReadingForms : /\ r.at = "idle" => r = Idle
                             /\ r.at = "length" => r = AtLength
                             /\ r.at = "garbage" => r = Garbage
  BY DEF Idle, AtLength, Garbage, Body, ReadingForms

\* What the sender does meanwhile changes nothing of it.
LEMMA HearsOn ==
  ASSUME NEW c \in ConnForm, NEW d, NEW p \in Nat, Grows(c, d, p),
         \A i \in DOMAIN c.sent : c.sent[i] <= p,
         NEW g \in Seq(1..Puts), NEW r \in ReadingForms, NEW whole \in BOOLEAN,
         whole => c.up, Hears(c, g, r, whole)
  PROVE  Hears(d, g, r, whole)
<1>1. /\ c.sent \in Seq(1..Puts) /\ c.wire \in Seq(Parts) /\ d.sent \in Seq(1..Puts) /\ d.wire \in Seq(Parts)
  BY DEF ConnForm, Grows
<1>2. /\ DOMAIN c.sent = 1..Len(c.sent) /\ DOMAIN d.sent = 1..Len(d.sent) /\ DOMAIN g = 1..Len(g)
      /\ Len(c.sent) \in Nat /\ Len(d.sent) \in Nat /\ Len(g) \in Nat
      /\ Len(c.sent) <= Len(d.sent)
  BY <1>1, Elements DEF Grows
<1>3. \A i \in DOMAIN c.sent : i \in DOMAIN d.sent /\ d.sent[i] = c.sent[i]
  BY <1>2 DEF Grows
<1>4. Range(c.sent) \subseteq Range(d.sent)
  BY <1>3 DEF Range
<1>5. \A x \in Range(c.sent) : x \in 1..Puts /\ x <= p
  <2>1. \A i \in DOMAIN c.sent : c.sent[i] \in 1..Puts
    BY <1>1, Elements
  <2> QED  BY <2>1 DEF Range
<1>6. \A i \in DOMAIN d.wire : d.wire[i].part = "length" =>
          (\E j \in DOMAIN c.wire : c.wire[j] = d.wire[i]) \/ (d.wire[i].of = p /\ p \notin Range(c.sent))
  BY DEF Grows
<1>7. \A x \in Range(c.sent) : p \notin Range(c.sent) => x < p
  <2>1. ASSUME NEW x \in Range(c.sent), p \notin Range(c.sent) PROVE x < p
    <3>1. x \in 1..Puts /\ x <= p /\ x # p
      BY <1>5, <2>1
    <3> QED  BY <3>1
  <2> QED  BY <2>1
<1>8. ASSUME NEW i \in DOMAIN d.wire, d.wire[i].part = "length", NEW j \in DOMAIN g
      PROVE  g[j] < d.wire[i].of
  <2>1. g[j] \in Range(c.sent)
    BY DEF Hears, Range
  <2>2. CASE \E k \in DOMAIN c.wire : c.wire[k] = d.wire[i]
    <3>1. PICK k \in DOMAIN c.wire : c.wire[k] = d.wire[i]
      BY <2>2
    <3> QED  BY <1>8, <3>1 DEF Hears
  <2>3. CASE d.wire[i].of = p /\ p \notin Range(c.sent)
    BY <2>1, <2>3, <1>7
  <2> QED  BY <1>6, <1>8, <2>2, <2>3
<1>9. ASSUME r.at = "body"
      PROVE  /\ r.of \in Range(d.sent) /\ \A j \in DOMAIN g : g[j] < r.of
             /\ \A i \in DOMAIN d.wire : d.wire[i].part = "length" => r.of < d.wire[i].of
  <2>1. r.of \in Range(c.sent) /\ \A j \in DOMAIN g : g[j] < r.of
    BY <1>9 DEF Hears
  <2>2. ASSUME NEW i \in DOMAIN d.wire, d.wire[i].part = "length" PROVE r.of < d.wire[i].of
    <3>1. CASE \E k \in DOMAIN c.wire : c.wire[k] = d.wire[i]
      <4>1. PICK k \in DOMAIN c.wire : c.wire[k] = d.wire[i]
        BY <3>1
      <4> QED  BY <1>9, <2>2, <4>1 DEF Hears
    <3>2. CASE d.wire[i].of = p /\ p \notin Range(c.sent)
      BY <2>1, <3>2, <1>7
    <3> QED  BY <1>6, <2>2, <3>1, <3>2
  <2> QED  BY <2>1, <2>2, <1>4
<1>10. ASSUME whole PROVE InStep(d, g, r)
  <2>1. /\ r # Garbage /\ Len(g) <= Len(c.sent) /\ \A i \in DOMAIN g : g[i] = c.sent[i]
        /\ r.at = "body" => Len(g) < Len(c.sent) /\ r.of = c.sent[Len(g) + 1]
        /\ LeftOf(c.wire, c.sent, Taken(g, r))
    BY <1>10 DEF Hears, InStep
  <2>2. Taken(g, r) \in Nat
    BY <1>2 DEF Taken
  <2>3. LeftOf(d.wire, d.sent, Taken(g, r))
    BY <1>10, <2>1, <2>2 DEF Grows
  <2>4. Len(g) <= Len(d.sent) /\ (Len(g) < Len(c.sent) => Len(g) < Len(d.sent))
    BY <1>2, <2>1
  <2>5. \A i \in DOMAIN g : g[i] = d.sent[i]
    <3>1. \A i \in DOMAIN g : i \in DOMAIN c.sent
      BY <1>2, <2>1
    <3> QED  BY <3>1, <1>3, <2>1
  <2>6. ASSUME r.at = "body" PROVE r.of = d.sent[Len(g) + 1]
    <3>1. Len(g) + 1 \in DOMAIN c.sent
      BY <1>2, <2>1, <2>6
    <3> QED  BY <3>1, <1>3, <2>1, <2>6
  <2> QED  BY <2>1, <2>3, <2>4, <2>5, <2>6 DEF InStep
<1>11. Rising(g) /\ Range(g) \subseteq Range(d.sent)
  BY <1>4 DEF Hears
<1> QED  BY <1>8, <1>9, <1>10, <1>11 DEF Hears

\* The first part on the wire, when k whole messages have been read.
LEMMA NextLength ==
  ASSUME NEW w \in Seq(Parts), NEW s \in Seq(1..Puts), NEW k \in Nat, LeftOf(w, s, 2 * k), w # << >>
  PROVE  k < Len(s) /\ w[1] = [part |-> "length", of |-> s[k + 1]]
<1>1. Len(w) \in Nat \ {0} /\ Len(s) \in Nat /\ DOMAIN s = 1..Len(s)
  OBVIOUS
<1>2. k < Len(s) /\ k + 1 \in 1..Len(s)
  BY <1>1 DEF LeftOf
<1>3. 2 * (k + 1) - 1 > 2 * k /\ 2 * (k + 1) - 1 - 2 * k = 1
  OBVIOUS
<1>4. w[2 * (k + 1) - 1 - 2 * k] = Frame(s[k + 1])[1]
  BY <1>1, <1>2, <1>3 DEF LeftOf
<1>5. s[k + 1] \in 1..Puts
  BY <1>1, <1>2, Elements
<1> QED  BY <1>2, <1>3, <1>4, <1>5, FrameIs

\* One part less on the wire.
LEMMA PartLess ==
  ASSUME NEW c \in ConnForm, NEW p \in Nat, ConnOK(c, p), c.wire # << >>,
         NEW d \in ConnForm, d.wire = Tail(c.wire), d.sent = c.sent
  PROVE  /\ ConnOK(d, p) /\ 1 \in DOMAIN c.wire /\ Head(c.wire) = c.wire[1]
         /\ \A i \in DOMAIN d.wire : i + 1 \in DOMAIN c.wire /\ 1 < i + 1 /\ d.wire[i] = c.wire[i + 1]
<1>1. c.wire \in Seq(Parts)
  BY DEF ConnForm
<1>2. PICK w \in Seq(Parts) : w = c.wire
  BY <1>1
<1>3. /\ Len(w) \in Nat \ {0} /\ DOMAIN w = 1..Len(w) /\ DOMAIN Tail(w) = 1..(Len(w) - 1)
      /\ \A i \in 1..(Len(w) - 1) : Tail(w)[i] = w[i + 1]
      /\ Head(w) = w[1]
  BY <1>2
<1>4. /\ 1 \in DOMAIN w
      /\ \A i \in DOMAIN Tail(w) : i \in Int /\ i + 1 \in DOMAIN w /\ 1 < i + 1 /\ Tail(w)[i] = w[i + 1]
  BY <1>3
<1>5. \A i, j \in DOMAIN Tail(w) : i < j => i + 1 < j + 1
  BY <1>4
<1>6. Announced(Tail(w), c.sent)
  <2>1. Announced(w, c.sent)
    BY <1>2 DEF ConnOK
  <2>2. ASSUME NEW i \in DOMAIN Tail(w), Tail(w)[i].part = "length" PROVE Tail(w)[i].of \in Range(c.sent)
    BY <2>1, <2>2, <1>4 DEF Announced
  <2>3. ASSUME NEW i \in DOMAIN Tail(w), NEW j \in DOMAIN Tail(w), i < j,
               Tail(w)[i].part = "length", Tail(w)[j].part = "length"
        PROVE  Tail(w)[i].of < Tail(w)[j].of
    <3>1. i + 1 \in DOMAIN w /\ j + 1 \in DOMAIN w /\ Tail(w)[i] = w[i + 1] /\ Tail(w)[j] = w[j + 1]
      BY <1>4
    <3>2. i + 1 < j + 1
      BY <1>5, <2>3
    <3> QED  BY <2>1, <2>3, <3>1, <3>2 DEF Announced
  <2> QED  BY <2>2, <2>3 DEF Announced
<1> QED  BY <1>2, <1>4, <1>6 DEF ConnOK

\* A length is read: its message is the next one.
LEMMA LengthRead ==
  ASSUME NEW c \in ConnForm, NEW p \in Nat, ConnOK(c, p), c.wire # << >>,
         NEW d \in ConnForm, d.wire = Tail(c.wire), d.sent = c.sent,
         NEW g \in Seq(1..Puts), NEW whole \in BOOLEAN, Hears(c, g, AtLength, whole),
         Head(c.wire).part = "length"
  PROVE  Hears(d, g, Body(Head(c.wire).of), whole)
<1>1. PICK m : m = Head(c.wire).of
  OBVIOUS
<1>2. /\ 1 \in DOMAIN c.wire /\ c.wire[1].part = "length" /\ m = c.wire[1].of
      /\ \A i \in DOMAIN d.wire : i + 1 \in DOMAIN c.wire /\ 1 < i + 1 /\ d.wire[i] = c.wire[i + 1]
  BY <1>1, PartLess
<1>3. Body(m).at = "body" /\ Body(m).of = m /\ Body(m) # Garbage /\ AtLength.at = "length"
  BY ReadingIs
<1>4. m \in Range(c.sent)
  BY <1>2 DEF ConnOK, Announced
<1>5. \A j \in DOMAIN g : g[j] < m
  BY <1>2 DEF Hears
<1>6. ASSUME NEW i \in DOMAIN d.wire, d.wire[i].part = "length"
      PROVE  m < d.wire[i].of /\ \A j \in DOMAIN g : g[j] < d.wire[i].of
  BY <1>2, <1>6 DEF ConnOK, Announced, Hears
<1>7. ASSUME whole PROVE InStep(d, g, Body(m))
  <2>1. /\ c.wire \in Seq(Parts) /\ c.sent \in Seq(1..Puts) /\ Len(g) \in Nat
    BY Elements DEF ConnForm
  <2>2. /\ Len(g) <= Len(c.sent) /\ \A i \in DOMAIN g : g[i] = c.sent[i]
        /\ LeftOf(c.wire, c.sent, 2 * Len(g))
    BY <1>7, <1>3, <2>1 DEF Hears, InStep, Taken
  <2>3. Len(g) < Len(c.sent) /\ c.wire[1] = [part |-> "length", of |-> c.sent[Len(g) + 1]]
    BY <2>1, <2>2, NextLength
  <2>4. m = c.sent[Len(g) + 1]
    BY <2>3, <1>2
  <2>5. 2 * Len(g) \in Nat
    BY <2>1
  <2>6. LeftOf(d.wire, c.sent, 2 * Len(g) + 1)
    BY <2>1, <2>2, <2>5, LeftShrinks
  <2> QED  BY <1>3, <2>2, <2>3, <2>4, <2>6 DEF InStep, Taken
<1>8. Hears(d, g, Body(m), whole)
  BY <1>3, <1>4, <1>5, <1>6, <1>7 DEF Hears
<1> QED  BY <1>1, <1>8

\* A body is read: get returns its message, which is later than what it returned before.
LEMMA BodyRead ==
  ASSUME NEW c \in ConnForm, NEW p \in Nat, ConnOK(c, p), c.wire # << >>,
         NEW d \in ConnForm, d.wire = Tail(c.wire), d.sent = c.sent,
         NEW g \in Seq(1..Puts), NEW r \in ReadingForms, r.at = "body",
         NEW whole \in BOOLEAN, Hears(c, g, r, whole)
  PROVE  Hears(d, Append(g, r.of), Idle, whole)
<1>1. PICK m \in 1..Puts : m = r.of
  BY ReadingIs
<1>2. PICK h : h = Append(g, m)
  OBVIOUS
<1>3. /\ h \in Seq(1..Puts) /\ Len(h) = Len(g) + 1 /\ Len(g) \in Nat /\ DOMAIN g = 1..Len(g)
      /\ h[Len(g) + 1] = m /\ \A i \in 1..Len(g) : h[i] = g[i]
  BY <1>2, Appending, Elements
<1>4. DOMAIN h = 1..(Len(g) + 1)
  BY <1>3, Elements
<1>5. \A i \in DOMAIN h : (i \in DOMAIN g /\ h[i] = g[i]) \/ (i = Len(g) + 1 /\ h[i] = m)
  BY <1>3, <1>4
<1>6. \A i \in DOMAIN d.wire : i + 1 \in DOMAIN c.wire /\ 1 < i + 1 /\ d.wire[i] = c.wire[i + 1]
  BY PartLess
<1>7. m \in Range(c.sent) /\ \A j \in DOMAIN g : g[j] < m
  BY <1>1 DEF Hears
<1>8. Rising(h)
  <2>1. ASSUME NEW i \in DOMAIN h, NEW j \in DOMAIN h, i < j PROVE h[i] < h[j]
    <3>1. i \in DOMAIN g /\ h[i] = g[i]
      BY <1>3, <1>4, <1>5, <2>1
    <3>2. CASE j \in DOMAIN g /\ h[j] = g[j]
      BY <2>1, <3>1, <3>2 DEF Hears, Rising
    <3>3. CASE h[j] = m
      BY <3>1, <3>3, <1>7
    <3> QED  BY <1>5, <3>2, <3>3
  <2> QED  BY <2>1 DEF Rising
<1>9. Range(h) \subseteq Range(d.sent)
  <2>1. \A i \in DOMAIN g : g[i] \in Range(c.sent)
    BY DEF Hears, Range
  <2>2. \A i \in DOMAIN h : h[i] \in Range(c.sent)
    BY <2>1, <1>5, <1>7
  <2> QED  BY <2>2 DEF Range
<1>10. ASSUME NEW i \in DOMAIN d.wire, d.wire[i].part = "length", NEW j \in DOMAIN h
       PROVE  h[j] < d.wire[i].of
  <2>1. i + 1 \in DOMAIN c.wire /\ c.wire[i + 1].part = "length" /\ d.wire[i].of = c.wire[i + 1].of
    BY <1>6, <1>10
  <2>2. m < c.wire[i + 1].of /\ \A k \in DOMAIN g : g[k] < c.wire[i + 1].of
    BY <1>1, <2>1 DEF Hears
  <2> QED  BY <1>5, <2>1, <2>2
<1>11. ASSUME whole PROVE InStep(d, h, Idle)
  <2>1. /\ c.wire \in Seq(Parts) /\ c.sent \in Seq(1..Puts)
    BY DEF ConnForm
  <2>2. Len(c.sent) \in Nat
    BY <2>1, Elements
  <2>3. /\ \A i \in DOMAIN g : g[i] = c.sent[i]
        /\ Len(g) < Len(c.sent) /\ m = c.sent[Len(g) + 1]
        /\ LeftOf(c.wire, c.sent, 2 * Len(g) + 1)
    BY <1>1, <1>11 DEF Hears, InStep, Taken
  <2>4. 2 * Len(g) + 1 \in Nat /\ 2 * Len(g) + 1 + 1 = 2 * Len(h)
    BY <1>3
  <2>5. LeftOf(d.wire, c.sent, 2 * Len(g) + 1 + 1)
    BY <2>1, <2>3, <2>4, LeftShrinks
  <2>6. Len(h) <= Len(c.sent)
    BY <1>3, <2>2, <2>3
  <2>7. \A i \in DOMAIN h : h[i] = c.sent[i]
    BY <1>5, <2>3
  <2>8. Taken(h, Idle) = 2 * Len(h)
    BY <1>3, ReadingIs DEF Taken
  <2>9. Idle # Garbage /\ Idle.at # "body"
    BY ReadingIs
  <2> HIDE DEF Idle, Garbage
  <2> QED  BY <2>4, <2>5, <2>6, <2>7, <2>8, <2>9 DEF InStep
<1>12. Idle.at # "body"
  BY ReadingIs
<1>13. Hears(d, h, Idle, whole)
  BY <1>8, <1>9, <1>10, <1>11, <1>12 DEF Hears
<1> QED  BY <1>1, <1>2, <1>13

\* Nonsense is read, which takes a frame that was cut.
LEMMA NonsenseRead ==
  ASSUME NEW c \in ConnForm, NEW p \in Nat, ConnOK(c, p), c.wire # << >>,
         NEW d \in ConnForm, d.wire = Tail(c.wire), d.sent = c.sent,
         NEW g \in Seq(1..Puts), NEW r, NEW whole \in BOOLEAN, Hears(c, g, r, whole),
         r = Garbage \/ (r = AtLength /\ Head(c.wire).part = "body")
  PROVE  Hears(d, g, Garbage, whole)
<1>1. /\ Head(c.wire) = c.wire[1]
      /\ \A i \in DOMAIN d.wire : i + 1 \in DOMAIN c.wire /\ d.wire[i] = c.wire[i + 1]
  BY PartLess
<1>2. ~ whole
  <2>1. SUFFICES ASSUME whole PROVE FALSE
    OBVIOUS
  <2>2. r = AtLength /\ Head(c.wire).part = "body"
    BY <2>1 DEF Hears, InStep
  <2>3. /\ c.wire \in Seq(Parts) /\ c.sent \in Seq(1..Puts) /\ Len(g) \in Nat
    BY Elements DEF ConnForm
  <2>4. LeftOf(c.wire, c.sent, 2 * Len(g))
    BY <2>1, <2>2, <2>3, ReadingIs DEF Hears, InStep, Taken
  <2>5. c.wire[1] = [part |-> "length", of |-> c.sent[Len(g) + 1]]
    BY <2>3, <2>4, NextLength
  <2> QED  BY <2>2, <2>5, <1>1
<1>3. Garbage.at # "body"
  BY ReadingIs
<1> QED  BY <1>1, <1>2, <1>3 DEF Hears

TransportTypes ==
    /\ type \in SocketTypes /\ listening \in BOOLEAN /\ cooled \in BOOLEAN
    /\ conns \in Seq(ConnForm)
    /\ sock \in {Absent, Dead, NoSock} \cup DOMAIN conns
    /\ breaker \in [state : {"CLOSED", "OPEN", "HALF_OPEN"}, failures : 0..Refusals]
    /\ conn \in {0} \cup DOMAIN conns /\ reading \in ReadingForms
    /\ got \in Seq(1..Puts) /\ puts \in 0..Puts /\ cuts \in 0..Cuts
    /\ type = "http" => sock = 1 /\ Len(conns) = 1 /\ conn = 1

\* Nobody has read from a connection that was not accepted.
ConnsOK ==
    \A c \in DOMAIN conns :
        /\ ConnOK(conns[c], puts)
        /\ c # conn /\ conns[c].up => LeftOf(conns[c].wire, conns[c].sent, 0)
        /\ conns[c].up => listening

GetOK ==
    /\ conn = 0 => got = << >>
    /\ conn = 0 \/ ~ listening => reading = Idle
    /\ conn # 0 => /\ listening => conns[conn].up
                   /\ Hears(conns[conn], got, reading, listening /\ cuts = 0)

TransportInv == TransportTypes /\ ConnsOK /\ GetOK

\* What a step of the sender may do to the connections, and to the rest.
ConnsStep ==
    /\ conns' \in Seq(ConnForm) /\ Len(conns) <= Len(conns')
    /\ \A c \in DOMAIN conns : Grows(conns[c], conns'[c], puts')
    /\ \A c \in DOMAIN conns' : c \notin DOMAIN conns =>
          ConnOK(conns'[c], puts') /\ LeftOf(conns'[c].wire, conns'[c].sent, 0) /\ listening

SenderStep ==
    /\ UNCHANGED <<type, listening, conn, reading, got, cuts>>
    /\ puts' \in 0..Puts /\ ConnsStep
    /\ sock' \in {Absent, Dead, NoSock} \cup DOMAIN conns'
    /\ cooled' \in BOOLEAN
    /\ breaker' \in [state : {"CLOSED", "OPEN", "HALF_OPEN"}, failures : 0..Refusals]
    /\ type = "http" => sock' = sock /\ Len(conns') = Len(conns)

LEMMA SenderKeeps ==
  ASSUME TransportInv, SenderStep
  PROVE  TransportInv'
<1>1. /\ type' = type /\ listening' = listening /\ conn' = conn /\ reading' = reading /\ got' = got /\ cuts' = cuts
      /\ puts' \in Nat
  BY DEF SenderStep
<1>2. /\ conns \in Seq(ConnForm) /\ conns' \in Seq(ConnForm) /\ Len(conns) <= Len(conns')
      /\ got \in Seq(1..Puts) /\ reading \in ReadingForms /\ listening \in BOOLEAN /\ conn \in {0} \cup DOMAIN conns
      /\ puts \in Nat
  BY DEF TransportInv, TransportTypes, SenderStep, ConnsStep
<1>3. /\ DOMAIN conns = 1..Len(conns) /\ DOMAIN conns' = 1..Len(conns')
      /\ Len(conns) \in Nat /\ Len(conns') \in Nat
      /\ (\A c \in DOMAIN conns : conns[c] \in ConnForm)
      /\ (\A c \in DOMAIN conns' : conns'[c] \in ConnForm)
  BY <1>2, Elements
<1>4. DOMAIN conns \subseteq DOMAIN conns'
  BY <1>2, <1>3
<1>5. TransportTypes'
  BY <1>1, <1>4 DEF TransportInv, TransportTypes, SenderStep, ConnsStep
<1>6. ASSUME NEW c \in DOMAIN conns'
      PROVE  /\ ConnOK(conns'[c], puts')
             /\ c # conn /\ conns'[c].up => LeftOf(conns'[c].wire, conns'[c].sent, 0)
             /\ conns'[c].up => listening
  <2>1. CASE c \in DOMAIN conns
    <3>1. Grows(conns[c], conns'[c], puts')
      BY <2>1 DEF SenderStep, ConnsStep
    <3>2. /\ c # conn /\ conns[c].up => LeftOf(conns[c].wire, conns[c].sent, 0)
          /\ conns[c].up => listening
      BY <2>1 DEF TransportInv, ConnsOK
    <3>3. 0 \in Nat
      OBVIOUS
    <3> QED  BY <3>1, <3>2, <3>3 DEF Grows
  <2>2. CASE c \notin DOMAIN conns
    BY <2>2 DEF SenderStep, ConnsStep
  <2> QED  BY <2>1, <2>2
<1>7. ConnsOK'
  BY <1>1, <1>6 DEF ConnsOK
<1>8. ASSUME conn # 0
      PROVE  /\ listening => conns'[conn].up
             /\ Hears(conns'[conn], got, reading, listening /\ cuts = 0)
  <2>1. conn \in DOMAIN conns
    BY <1>2, <1>8
  <2>2. Grows(conns[conn], conns'[conn], puts')
    BY <2>1 DEF SenderStep, ConnsStep
  <2>3. /\ listening => conns[conn].up
        /\ Hears(conns[conn], got, reading, listening /\ cuts = 0)
    BY <1>8 DEF TransportInv, GetOK
  <2>4. \A i \in DOMAIN conns[conn].sent : conns[conn].sent[i] <= puts'
    <3>1. /\ DOMAIN conns[conn].sent = 1..Len(conns[conn].sent)
          /\ Len(conns[conn].sent) \in Nat /\ Len(conns'[conn].sent) \in Nat
          /\ DOMAIN conns'[conn].sent = 1..Len(conns'[conn].sent)
      BY <2>1, <1>3, <1>4, Elements DEF ConnForm
    <3>2. /\ Len(conns[conn].sent) <= Len(conns'[conn].sent)
          /\ \A i \in DOMAIN conns[conn].sent : conns'[conn].sent[i] = conns[conn].sent[i]
          /\ \A i \in DOMAIN conns'[conn].sent : conns'[conn].sent[i] <= puts'
      BY <2>2 DEF Grows, ConnOK
    <3>3. DOMAIN conns[conn].sent \subseteq DOMAIN conns'[conn].sent
      BY <3>1, <3>2
    <3> QED  BY <3>2, <3>3
  <2>5. PICK whole \in BOOLEAN : whole = (listening /\ cuts = 0)
    OBVIOUS
  <2>6. conns[conn] \in ConnForm
    BY <1>3, <2>1
  <2>7. Hears(conns'[conn], got, reading, whole)
    BY <1>1, <1>2, <2>2, <2>3, <2>4, <2>5, <2>6, HearsOn
  <2> QED  BY <2>2, <2>3, <2>5, <2>7 DEF Grows
<1>9. GetOK'
  BY <1>1, <1>8 DEF TransportInv, GetOK
<1> QED  BY <1>5, <1>7, <1>9 DEF TransportInv

-----------------------------------------------------------------------------
(* What each of its steps does to the connections.                         *)

LEMMA NewConnIs ==
  ASSUME NEW p \in Nat
  PROVE  NewConn \in ConnForm /\ ConnOK(NewConn, p) /\ LeftOf(NewConn.wire, NewConn.sent, 0) /\ NewConn.up
<1>1. /\ NewConn.wire = << >> /\ NewConn.sent = << >> /\ NewConn.open = TRUE /\ NewConn.up = TRUE
      /\ NewConn = [wire |-> << >>, sent |-> << >>, open |-> TRUE, up |-> TRUE]
  BY DEF NewConn
<1>2. DOMAIN << >> = {} /\ Len(<< >>) = 0 /\ << >> \in Seq(Parts) /\ << >> \in Seq(1..Puts)
  OBVIOUS
<1> QED  BY <1>1, <1>2 DEF ConnForm, ConnOK, Rising, Announced, LeftOf

\* A connection holds no message that is still to be put.
LEMMA UpTo ==
  ASSUME TransportInv, NEW p \in puts..Puts, NEW c \in DOMAIN conns
  PROVE  conns[c] \in ConnForm /\ ConnOK(conns[c], p) /\ (p = puts + 1 => ConnOK(conns[c], p - 1))
<1>1. conns[c] \in ConnForm /\ ConnOK(conns[c], puts) /\ puts \in Nat
  BY Elements DEF TransportInv, TransportTypes, ConnsOK
<1>2. conns[c].sent \in Seq(1..Puts)
  BY <1>1 DEF ConnForm
<1>3. \A i \in DOMAIN conns[c].sent : conns[c].sent[i] \in Nat /\ conns[c].sent[i] <= puts
  <2>1. \A i \in DOMAIN conns[c].sent : conns[c].sent[i] \in 1..Puts
    BY <1>2, Elements
  <2> QED  BY <1>1, <2>1 DEF ConnOK
<1>4. \A x \in Nat : x <= puts => x <= p
  BY <1>1
<1>5. p = puts + 1 => p - 1 = puts
  BY <1>1
<1> QED  BY <1>1, <1>3, <1>4, <1>5 DEF ConnOK

LEMMA ConnsAlone ==
  ASSUME TransportInv, puts' \in puts..Puts, conns' = conns
  PROVE  ConnsStep
<1>1. puts \in Nat /\ conns \in Seq(ConnForm)
  BY DEF TransportInv, TransportTypes
<1>2. \A c \in DOMAIN conns : Grows(conns[c], conns'[c], puts')
  <2>1. ASSUME NEW c \in DOMAIN conns PROVE Grows(conns[c], conns[c], puts')
    BY <1>1, <2>1, UpTo, SameGrows
  <2> QED  BY <2>1
<1>3. Len(conns) \in Nat
  BY <1>1, Elements
<1> QED  BY <1>1, <1>2, <1>3 DEF ConnsStep

LEMMA ConnHungUp ==
  ASSUME TransportInv, puts' \in puts..Puts, conns' = Hangup
  PROVE  ConnsStep /\ Len(conns') = Len(conns) /\ DOMAIN conns' = DOMAIN conns
<1>1. puts \in Nat /\ conns \in Seq(ConnForm)
  BY DEF TransportInv, TransportTypes
<1>2. CASE sock \notin DOMAIN conns
  BY <1>2, ConnsAlone DEF Hangup
<1>3. CASE sock \in DOMAIN conns
  <2>1. conns[sock] \in ConnForm
    BY <1>1, <1>3, Elements
  <2>2. PICK d : d = [conns[sock] EXCEPT !.open = FALSE]
    OBVIOUS
  <2>3. d \in ConnForm /\ d.wire = conns[sock].wire /\ d.sent = conns[sock].sent /\ d.up = conns[sock].up
    BY <2>1, <2>2 DEF ConnForm
  <2>4. conns' = [conns EXCEPT ![sock] = d]
    BY <1>3, <2>2 DEF Hangup
  <2>5. conns' \in Seq(ConnForm) /\ Len(conns') = Len(conns) /\ DOMAIN conns' = DOMAIN conns
    BY <1>1, <1>3, <2>3, <2>4
  <2>6. ASSUME NEW c \in DOMAIN conns PROVE Grows(conns[c], conns'[c], puts')
    <3>1. conns'[c] = IF c = sock THEN d ELSE conns[c]
      BY <1>1, <2>4
    <3>2. conns[c] \in ConnForm /\ ConnOK(conns[c], puts') /\ puts' \in Nat
      BY <1>1, UpTo
    <3>3. conns'[c] \in ConnForm
      BY <2>3, <3>1, <3>2
    <3>4. conns'[c].wire = conns[c].wire /\ conns'[c].sent = conns[c].sent /\ conns'[c].up = conns[c].up
      BY <2>3, <3>1
    <3> QED  BY <3>2, <3>3, <3>4, SameGrows
  <2>7. Len(conns) \in Nat
    BY <1>1, Elements
  <2> QED  BY <2>5, <2>6, <2>7 DEF ConnsStep
<1> QED  BY <1>2, <1>3

LEMMA ConnWritten ==
  ASSUME TransportInv, puts' = puts + 1, puts < Puts, sock \in DOMAIN conns,
         conns' = [conns EXCEPT ![sock] = Written(@, puts')]
  PROVE  ConnsStep /\ Len(conns') = Len(conns) /\ DOMAIN conns' = DOMAIN conns
<1>1. puts \in Nat /\ conns \in Seq(ConnForm) /\ puts' \in puts..Puts /\ puts' \in 1..Puts /\ Puts \in Nat
  BY SocketAssumption DEF TransportInv, TransportTypes
<1>2. PICK d : d = Written(conns[sock], puts')
  OBVIOUS
<1>3. Grows(conns[sock], d, puts')
  <2>1. conns[sock] \in ConnForm /\ ConnOK(conns[sock], puts' - 1)
    BY <1>1, UpTo
  <2> QED  BY <1>1, <1>2, <2>1, WrittenGrows
<1>4. conns' = [conns EXCEPT ![sock] = d]
  BY <1>2
<1>5. d \in ConnForm
  BY <1>3 DEF Grows
<1>6. conns' \in Seq(ConnForm) /\ Len(conns') = Len(conns) /\ DOMAIN conns' = DOMAIN conns
  BY <1>1, <1>4, <1>5
<1>7. ASSUME NEW c \in DOMAIN conns PROVE Grows(conns[c], conns'[c], puts')
  <2>1. conns'[c] = IF c = sock THEN d ELSE conns[c]
    BY <1>1, <1>4
  <2>2. conns[c] \in ConnForm /\ ConnOK(conns[c], puts') /\ puts' \in Nat
    BY <1>1, UpTo
  <2> QED  BY <1>3, <2>1, <2>2, SameGrows
<1>8. Len(conns) \in Nat
  BY <1>1, Elements
<1> QED  BY <1>6, <1>7, <1>8 DEF ConnsStep

LEMMA ConnAdded ==
  ASSUME TransportInv, listening, puts' \in puts..Puts, NEW d \in ConnForm,
         ConnOK(d, puts'), LeftOf(d.wire, d.sent, 0), conns' = Append(conns, d)
  PROVE  ConnsStep /\ Len(conns) + 1 \in DOMAIN conns'
<1>1. puts \in Nat /\ conns \in Seq(ConnForm)
  BY DEF TransportInv, TransportTypes
<1>2. /\ conns' \in Seq(ConnForm) /\ Len(conns') = Len(conns) + 1 /\ Len(conns) \in Nat
      /\ conns'[Len(conns) + 1] = d /\ \A i \in 1..Len(conns) : conns'[i] = conns[i]
      /\ DOMAIN conns = 1..Len(conns)
  BY <1>1, Appending, Elements
<1>3. DOMAIN conns' = 1..(Len(conns) + 1)
  BY <1>2, Elements
<1>4. ASSUME NEW c \in DOMAIN conns PROVE Grows(conns[c], conns'[c], puts')
  <2>1. conns'[c] = conns[c]
    BY <1>2
  <2>2. conns[c] \in ConnForm /\ ConnOK(conns[c], puts') /\ puts' \in Nat
    BY <1>1, UpTo
  <2> QED  BY <2>1, <2>2, SameGrows
<1>5. \A c \in DOMAIN conns' : c \notin DOMAIN conns => conns'[c] = d
  BY <1>2, <1>3
<1>6. Len(conns) <= Len(conns') /\ Len(conns) + 1 \in DOMAIN conns'
  BY <1>2, <1>3
<1> QED  BY <1>2, <1>4, <1>5, <1>6 DEF ConnsStep

BreakerForm == [state : {"CLOSED", "OPEN", "HALF_OPEN"}, failures : 0..Refusals]

LEMMA BreakerIs ==
  ASSUME breaker \in BreakerForm
  PROVE  /\ Closed \in BreakerForm /\ Checked \in BreakerForm
         /\ \A alone : BreakerOf(alone) \in BreakerForm
         /\ \A b \in BreakerForm : RecordSuccess(b) \in BreakerForm
<1>1. Closed \in BreakerForm
  BY SocketAssumption DEF Closed, BreakerForm
<1>2. Checked \in BreakerForm
  BY DEF Checked, BreakerForm
<1> QED  BY <1>1, <1>2 DEF BreakerOf, RecordSuccess

LEMMA FailedIs ==
  ASSUME NEW b \in BreakerForm, Failed(b)
  PROVE  breaker' \in BreakerForm /\ cooled' \in BOOLEAN
<1>1. b.failures \in 0..Refusals /\ b.state \in {"CLOSED", "OPEN", "HALF_OPEN"}
  BY DEF BreakerForm
<1>2. b.failures + 1 \in 0..Refusals /\ cooled' = FALSE /\ breaker' = RecordFailure(b)
  BY <1>1, SocketAssumption DEF Failed
<1>3. PICK x : x = IF b.failures + 1 >= FailureThreshold THEN "OPEN" ELSE b.state
  OBVIOUS
<1>4. x \in {"CLOSED", "OPEN", "HALF_OPEN"}
  BY <1>1, <1>3
<1>5. [failures |-> b.failures + 1, state |-> x] \in BreakerForm
  BY <1>2, <1>4 DEF BreakerForm
<1>6. RecordFailure(b) = b \/ RecordFailure(b) = [failures |-> b.failures + 1, state |-> x]
  BY <1>3 DEF RecordFailure
<1> QED  BY <1>2, <1>5, <1>6

LEMMA SenderSteps ==
  ASSUME TransportInv,
         \/ PutRefused \/ PutConnecting \/ Put \/ PutFails \/ PostUnanswered
         \/ ConnectAlone \/ ConnectFails \/ CloseSender \/ Cool
  PROVE  SenderStep
<1>1. /\ puts \in Nat /\ puts \in 0..Puts /\ Puts \in Nat /\ breaker \in BreakerForm /\ cooled \in BOOLEAN
      /\ sock \in {Absent, Dead, NoSock} \cup DOMAIN conns /\ conns \in Seq(ConnForm)
      /\ (type = "http" => sock = 1 /\ Len(conns) = 1 /\ conn = 1)
  BY SocketAssumption DEF TransportInv, TransportTypes, BreakerForm
<1>2. type = "http" => sock \in DOMAIN conns
  BY <1>1, Elements
<1>3. puts \in puts..Puts /\ (puts < Puts => puts + 1 \in puts..Puts /\ puts + 1 \in 0..Puts)
  BY <1>1
<1>4. Sending => UNCHANGED <<type, listening, conn, reading, got, cuts>>
  BY DEF Sending, receiverVars
<1>5. Called => /\ UNCHANGED <<type, listening, conn, reading, got, cuts>>
                /\ puts' = puts + 1 /\ puts < Puts /\ puts' \in puts..Puts /\ puts' \in 0..Puts
  BY <1>3, <1>4 DEF Called
<1> USE DEF BreakerForm
<1>6. CASE PutRefused
  <2>1. Called /\ UNCHANGED <<conns, sock, breaker, cooled>>
    BY <1>6 DEF PutRefused
  <2>2. ConnsStep
    BY <1>5, <2>1, ConnsAlone
  <2> QED  BY <1>1, <1>5, <2>1, <2>2 DEF SenderStep
<1>7. CASE PutConnecting
  <2>1. /\ Called /\ listening /\ (sock = NoSock \/ type = "zeromq") /\ sock' = Len(conns) + 1
        /\ cooled' = cooled /\ breaker' = RecordSuccess(BreakerOf(FALSE))
        /\ conns' = Append(conns, IF sock = Absent THEN NewConn ELSE Written(NewConn, puts'))
    BY <1>7 DEF PutConnecting, Connect, Connecting
  <2>2. type # "http"
    BY <1>1, <2>1 DEF NoSock
  <2>3. breaker' \in BreakerForm
    BY <1>1, <2>1, BreakerIs
  <2>4. puts' - 1 \in Nat /\ puts' \in 1..Puts
    BY <1>1, <1>5, <2>1
  <2>5. Grows(NewConn, Written(NewConn, puts'), puts')
    BY <2>4, NewConnIs, WrittenGrows
  <2>6. LeftOf(NewConn.wire, NewConn.sent, 0) /\ NewConn.up /\ 0 \in Nat
    BY <2>4, NewConnIs
  <2>7. PICK d : d = IF sock = Absent THEN NewConn ELSE Written(NewConn, puts')
    OBVIOUS
  <2>8. d \in ConnForm /\ ConnOK(d, puts') /\ LeftOf(d.wire, d.sent, 0)
    <3>1. CASE sock = Absent
      BY <2>4, <2>6, <2>7, <3>1, NewConnIs
    <3>2. CASE sock # Absent
      BY <2>5, <2>6, <2>7, <3>2 DEF Grows
    <3> QED  BY <3>1, <3>2
  <2>9. ConnsStep /\ Len(conns) + 1 \in DOMAIN conns'
    BY <1>5, <2>1, <2>7, <2>8, ConnAdded
  <2> QED  BY <1>1, <1>5, <2>1, <2>2, <2>3, <2>9 DEF SenderStep
<1>8. CASE Put
  <2>1. /\ Called /\ sock \in DOMAIN conns /\ conns' = [conns EXCEPT ![sock] = Written(@, puts')]
        /\ breaker' = RecordSuccess(Checked) /\ sock' = sock /\ cooled' = cooled
    BY <1>8 DEF Put
  <2>2. ConnsStep /\ Len(conns') = Len(conns) /\ DOMAIN conns' = DOMAIN conns
    BY <1>5, <2>1, ConnWritten
  <2>3. breaker' \in BreakerForm
    BY <1>1, <2>1, BreakerIs
  <2> QED  BY <1>1, <1>5, <2>1, <2>2, <2>3 DEF SenderStep
<1>9. CASE PutFails
  <2>1. /\ Called /\ Failed(Checked)
        /\ IF type = "uds" THEN sock' = sock /\ conns' = conns
           ELSE sock' = (IF type = "http" THEN sock ELSE NoSock) /\ conns' = Hangup
    BY <1>9 DEF PutFails
  <2>2. breaker' \in BreakerForm /\ cooled' \in BOOLEAN
    BY <1>1, <2>1, BreakerIs, FailedIs
  <2>3. CASE type = "uds"
    <3>1. ConnsStep
      BY <1>5, <2>1, <2>3, ConnsAlone
    <3> QED  BY <1>1, <1>5, <2>1, <2>2, <2>3, <3>1 DEF SenderStep
  <2>4. CASE type # "uds"
    <3>1. ConnsStep /\ Len(conns') = Len(conns) /\ DOMAIN conns' = DOMAIN conns
      BY <1>5, <2>1, <2>4, ConnHungUp
    <3> QED  BY <1>1, <1>2, <1>5, <2>1, <2>2, <2>4, <3>1 DEF SenderStep
  <2> QED  BY <2>3, <2>4
<1>10. CASE PostUnanswered
  <2>1. /\ type = "http" /\ Called /\ conns' = [conns EXCEPT ![sock] = Written(@, puts')]
        /\ sock' = sock /\ breaker' = breaker /\ cooled' = cooled
    BY <1>10 DEF PostUnanswered
  <2>2. ConnsStep /\ Len(conns') = Len(conns) /\ DOMAIN conns' = DOMAIN conns
    BY <1>2, <1>5, <2>1, ConnWritten
  <2> QED  BY <1>1, <1>5, <2>1, <2>2 DEF SenderStep
<1>11. CASE ConnectAlone
  <2>1. /\ Sending /\ listening /\ sock \notin DOMAIN conns /\ sock' = Len(conns) + 1 /\ cooled' = cooled
        /\ breaker' = RecordSuccess(BreakerOf(TRUE)) /\ conns' = Append(conns, NewConn) /\ puts' = puts
    BY <1>11 DEF ConnectAlone, Connect, Connecting
  <2>2. type # "http"
    BY <1>2, <2>1
  <2>3. breaker' \in BreakerForm
    BY <1>1, <2>1, BreakerIs
  <2>4. NewConn \in ConnForm /\ ConnOK(NewConn, puts') /\ LeftOf(NewConn.wire, NewConn.sent, 0)
    BY <1>1, <2>1, NewConnIs
  <2>5. ConnsStep /\ Len(conns) + 1 \in DOMAIN conns'
    BY <1>3, <2>1, <2>4, ConnAdded
  <2> QED  BY <1>1, <1>4, <2>1, <2>2, <2>3, <2>5 DEF SenderStep
<1>12. CASE ConnectFails
  <2>1. PICK alone \in BOOLEAN :
          /\ Connecting(alone) /\ Failed(BreakerOf(alone)) /\ sock' = Dead /\ conns' = conns
          /\ IF alone THEN Sending /\ puts' = puts ELSE Called
    BY <1>12 DEF ConnectFails
  <2>2. breaker' \in BreakerForm /\ cooled' \in BOOLEAN
    BY <1>1, <2>1, BreakerIs, FailedIs
  <2>3. sock \notin DOMAIN conns \/ sock = NoSock \/ type = "zeromq"
    BY <2>1 DEF Connecting
  <2>4. type # "http"
    BY <1>1, <1>2, <2>3 DEF NoSock
  <2>5. puts' \in puts..Puts /\ puts' \in 0..Puts
    BY <1>1, <1>3, <1>5, <2>1
  <2>6. ConnsStep
    BY <2>1, <2>5, ConnsAlone
  <2>7. UNCHANGED <<type, listening, conn, reading, got, cuts>>
    BY <1>4, <1>5, <2>1
  <2> QED  BY <2>1, <2>2, <2>4, <2>5, <2>6, <2>7 DEF SenderStep
<1>13. CASE CloseSender
  <2>1. /\ type # "http" /\ sock' = NoSock /\ conns' = Hangup /\ Sending
        /\ breaker' = breaker /\ cooled' = cooled /\ puts' = puts
    BY <1>13 DEF CloseSender
  <2>2. ConnsStep
    BY <1>3, <2>1, ConnHungUp
  <2> QED  BY <1>1, <1>4, <2>1, <2>2 DEF SenderStep
<1>14. CASE Cool
  <2>1. /\ UNCHANGED <<type, listening, conn, reading, got, cuts>>
        /\ conns' = conns /\ sock' = sock /\ puts' = puts /\ breaker' = breaker /\ cooled' = TRUE
    BY <1>14 DEF Cool, receiverVars
  <2>2. ConnsStep
    BY <1>3, <2>1, ConnsAlone
  <2> QED  BY <1>1, <2>1, <2>2 DEF SenderStep
<1> QED  BY <1>6, <1>7, <1>8, <1>9, <1>10, <1>11, <1>12, <1>13, <1>14

-----------------------------------------------------------------------------
(* The steps of the receiver.                                              *)

\* Between two messages, or after a frame was cut, it does not matter where get is.
LEMMA HearsBetween ==
  ASSUME NEW c, NEW g, NEW r \in ReadingForms, NEW whole \in BOOLEAN, Hears(c, g, r, whole),
         NEW r2 \in {Idle, AtLength}, NEW whole2 \in BOOLEAN, whole2 => whole /\ r.at # "body"
  PROVE  Hears(c, g, r2, whole2)
<1>1. r2.at # "body" /\ r2 # Garbage
  BY ReadingIs
<1>2. ASSUME whole2 PROVE InStep(c, g, r2)
  <2>1. InStep(c, g, r) /\ r.at # "body"
    BY <1>2 DEF Hears
  <2> QED  BY <1>1, <2>1 DEF InStep, Taken
<1> QED  BY <1>1, <1>2 DEF Hears

LEMMA HearsNothing ==
  ASSUME NEW c \in ConnForm, LeftOf(c.wire, c.sent, 0), NEW whole \in BOOLEAN
  PROVE  Hears(c, << >>, Idle, whole)
<1>1. Idle.at # "body" /\ Idle # Garbage
  BY ReadingIs
<1>2. Len(c.sent) \in Nat
  BY Elements DEF ConnForm
<1>3. DOMAIN << >> = {} /\ Len(<< >>) = 0
  OBVIOUS
<1>4. Taken(<< >>, Idle) = 0
  BY <1>1, <1>3 DEF Taken
<1> QED  BY <1>1, <1>2, <1>3, <1>4 DEF Hears, InStep, Rising, Range

\* Nothing on the wire is not half a frame.
LEMMA NoHalf ==
  ASSUME NEW c \in ConnForm, NEW g \in Seq(1..Puts), NEW r, InStep(c, g, r), r.at = "body"
  PROVE  c.wire # << >>
<1>1. Len(c.sent) \in Nat /\ Len(g) \in Nat
  BY Elements DEF ConnForm
<1>2. Len(c.wire) = 2 * Len(c.sent) - (2 * Len(g) + 1)
  BY DEF InStep, LeftOf, Taken
<1>3. 0 # 2 * Len(c.sent) - (2 * Len(g) + 1)
  BY <1>1
<1>4. Len(<< >>) = 0
  OBVIOUS
<1> QED  BY <1>2, <1>3, <1>4

LEMMA ReceiverSteps ==
  ASSUME TransportInv, AcceptConn \/ BeginGet \/ Receive \/ CutFrame \/ GetDone
  PROVE  TransportInv'
<1>1. /\ listening /\ listening' = listening /\ type' = type /\ puts' = puts
      /\ sock' = sock /\ breaker' = breaker /\ cooled' = cooled
  BY DEF AcceptConn, BeginGet, Receive, CutFrame, GetDone, Reading, senderVars
<1>2. /\ conns \in Seq(ConnForm) /\ conn \in {0} \cup DOMAIN conns /\ reading \in ReadingForms
      /\ got \in Seq(1..Puts) /\ puts \in Nat /\ cuts \in 0..Cuts
      /\ (type = "http" => sock = 1 /\ Len(conns) = 1 /\ conn = 1)
      /\ Cuts \in Nat /\ 0 \notin DOMAIN conns
  BY SocketAssumption DEF TransportInv, TransportTypes
<1>3. \A c \in DOMAIN conns : /\ conns[c] \in ConnForm /\ ConnOK(conns[c], puts)
                              /\ c # conn /\ conns[c].up => LeftOf(conns[c].wire, conns[c].sent, 0)
  BY <1>2, Elements DEF TransportInv, ConnsOK
<1>4. conn # 0 => /\ conn \in DOMAIN conns /\ conns[conn].up
                  /\ Hears(conns[conn], got, reading, cuts = 0)
  BY <1>1, <1>2 DEF TransportInv, GetOK
<1>5. conn = 0 => got = << >> /\ reading = Idle
  BY DEF TransportInv, GetOK
<1>6. Idle \in ReadingForms /\ AtLength \in ReadingForms /\ Garbage \in ReadingForms
  BY DEF ReadingForms
<1>7. ASSUME conns' = conns, conn' \in {0} \cup DOMAIN conns, reading' \in ReadingForms,
             got' \in Seq(1..Puts), cuts' \in 0..Cuts, type = "http" => conn' = conn
      PROVE  TransportTypes'
  BY <1>1, <1>7 DEF TransportInv, TransportTypes
<1>8. ASSUME conns' = conns, conn' = conn PROVE ConnsOK'
  BY <1>1, <1>8 DEF TransportInv, ConnsOK
<1>9. ASSUME NEW w \in BOOLEAN, w = (cuts' = 0), conn' # 0, conns'[conn'].up, Hears(conns'[conn'], got', reading', w)
      PROVE  GetOK'
  <2>1. listening' /\ (listening' /\ cuts' = 0) = w
    BY <1>1, <1>9
  <2> QED  BY <1>9, <2>1 DEF GetOK
<1>10. PICK w \in BOOLEAN : w = (cuts = 0)
  OBVIOUS
<1>11. CASE AcceptConn
  <2>1. PICK c \in DOMAIN conns : conns[c].up /\ conn' = c
    BY <1>11 DEF AcceptConn
  <2>2. conn = 0 /\ conns' = conns /\ reading' = reading /\ got' = got /\ cuts' = cuts
    BY <1>11 DEF AcceptConn
  <2>3. LeftOf(conns[c].wire, conns[c].sent, 0) /\ conns[c] \in ConnForm
    BY <1>2, <1>3, <2>1, <2>2
  <2>4. Hears(conns[c], << >>, Idle, w)
    BY <2>3, HearsNothing
  <2>5. TransportTypes'
    BY <1>2, <1>7, <2>1, <2>2
  <2>6. ConnsOK'
    BY <1>1, <1>2, <1>3, <2>1, <2>2 DEF ConnsOK
  <2>7. GetOK'
    BY <1>2, <1>5, <1>9, <1>10, <2>1, <2>2, <2>4
  <2> QED  BY <2>5, <2>6, <2>7 DEF TransportInv
<1>12. CASE BeginGet
  <2>1. /\ conn # 0 /\ reading = Idle /\ reading' = AtLength
        /\ conns' = conns /\ conn' = conn /\ got' = got /\ cuts' = cuts
    BY <1>12 DEF BeginGet
  <2>2. Hears(conns[conn], got, AtLength, w)
    BY <1>2, <1>4, <1>10, <2>1, HearsBetween, ReadingIs
  <2>3. TransportTypes' /\ ConnsOK'
    BY <1>2, <1>6, <1>7, <1>8, <2>1
  <2>4. GetOK'
    BY <1>4, <1>9, <1>10, <2>1, <2>2
  <2> QED  BY <2>3, <2>4 DEF TransportInv
<1>13. CASE CutFrame
  <2>1. /\ reading.at \in {"body", "garbage"} /\ cuts < Cuts /\ cuts' = cuts + 1 /\ reading' = Idle
        /\ conns' = conns /\ conn' = conn /\ got' = got
    BY <1>13 DEF CutFrame
  <2>2. conn # 0
    BY <1>5, <2>1, ReadingIs
  <2>3. Hears(conns[conn], got, Idle, FALSE)
    BY <1>2, <1>4, <1>10, <2>2, HearsBetween
  <2>4. cuts' \in 0..Cuts /\ cuts' # 0
    BY <1>2, <2>1
  <2>5. TransportTypes' /\ ConnsOK'
    BY <1>2, <1>6, <1>7, <1>8, <2>1, <2>4
  <2>6. GetOK'
    BY <1>4, <1>9, <2>1, <2>2, <2>3, <2>4
  <2> QED  BY <2>5, <2>6 DEF TransportInv
<1>14. CASE GetDone
  <2>1. /\ reading # Idle /\ (reading = Garbage \/ conns[conn].wire = << >>) /\ reading' = Idle
        /\ conns' = conns /\ conn' = conn /\ got' = got /\ cuts' = cuts
    BY <1>14 DEF GetDone, Arrived
  <2>2. conn # 0
    BY <1>5, <2>1
  <2>3. conns[conn] \in ConnForm /\ Hears(conns[conn], got, reading, w)
    BY <1>3, <1>4, <1>10, <2>2
  <2>4. w => reading.at # "body"
    BY <1>2, <2>1, <2>3, NoHalf DEF Hears, InStep
  <2>5. Hears(conns[conn], got, Idle, w)
    BY <1>2, <2>3, <2>4, HearsBetween
  <2>6. TransportTypes' /\ ConnsOK'
    BY <1>2, <1>6, <1>7, <1>8, <2>1
  <2>7. GetOK'
    BY <1>4, <1>9, <1>10, <2>1, <2>2, <2>5
  <2> QED  BY <2>6, <2>7 DEF TransportInv
<1>15. CASE Receive
  <2>1. /\ conn # 0 /\ conns[conn].wire # << >> /\ conn' = conn /\ cuts' = cuts
        /\ conns' = [conns EXCEPT ![conn].wire = Tail(@)]
    BY <1>15 DEF Receive, Arrived
  <2>2. PICK c \in ConnForm : c = conns[conn]
    BY <1>3, <1>4, <2>1
  <2>3. PICK d : d = [c EXCEPT !.wire = Tail(@)]
    OBVIOUS
  <2>4. /\ conn \in DOMAIN conns /\ ConnOK(c, puts) /\ c.up /\ c.wire # << >> /\ Hears(c, got, reading, w)
    BY <1>3, <1>4, <1>10, <2>1, <2>2
  <2>5. d \in ConnForm /\ d.wire = Tail(c.wire) /\ d.sent = c.sent /\ d.up = c.up
    <3>1. c.wire \in Seq(Parts)
      BY DEF ConnForm
    <3>2. Tail(c.wire) \in Seq(Parts)
      BY <3>1, <2>4
    <3> QED  BY <2>3, <3>2 DEF ConnForm
  <2>6. conns' = [conns EXCEPT ![conn] = d]
    BY <2>1, <2>2, <2>3, <2>4
  <2>7. /\ conns' \in Seq(ConnForm) /\ Len(conns') = Len(conns) /\ DOMAIN conns' = DOMAIN conns
        /\ \A k \in DOMAIN conns : conns'[k] = IF k = conn THEN d ELSE conns[k]
    BY <1>2, <2>4, <2>5, <2>6
  <2>8. ConnOK(d, puts)
    BY <1>2, <2>4, <2>5, PartLess
  <2>9. ConnsOK'
    <3>1. ASSUME NEW k \in DOMAIN conns
          PROVE  /\ ConnOK(conns'[k], puts)
                 /\ k # conn /\ conns'[k].up => LeftOf(conns'[k].wire, conns'[k].sent, 0)
      BY <1>3, <2>7, <2>8
    <3> QED  BY <1>1, <2>1, <2>7, <3>1 DEF ConnsOK
  <2>10. reading' \in ReadingForms /\ got' \in Seq(1..Puts) /\ Hears(d, got', reading', w)
    <3>1. CASE reading = AtLength /\ Head(c.wire).part = "length" /\ reading' = Body(Head(c.wire).of) /\ got' = got
      <4>1. Hears(d, got, Body(Head(c.wire).of), w)
        BY <1>2, <2>4, <2>5, <3>1, LengthRead
      <4>2. Head(c.wire).of \in 1..Puts
        <5>1. c.wire \in Seq(Parts)
          BY DEF ConnForm
        <5>2. Head(c.wire) \in Parts
          BY <5>1, <2>4
        <5> QED  BY <5>2 DEF Parts
      <4>3. Body(Head(c.wire).of) \in ReadingForms
        BY <4>2 DEF ReadingForms
      <4> QED  BY <1>2, <3>1, <4>1, <4>3
    <3>2. CASE reading.at = "body" /\ reading' = Idle /\ got' = Append(got, reading.of)
      <4>1. Hears(d, Append(got, reading.of), Idle, w)
        BY <1>2, <2>4, <2>5, <3>2, BodyRead
      <4>2. reading.of \in 1..Puts
        BY <1>2, <3>2, ReadingIs
      <4>3. Append(got, reading.of) \in Seq(1..Puts)
        BY <1>2, <4>2, Appending
      <4> QED  BY <1>6, <3>2, <4>1, <4>3
    <3>3. CASE /\ reading = Garbage \/ (reading = AtLength /\ Head(c.wire).part = "body")
               /\ reading' = Garbage /\ got' = got
      <4>1. Hears(d, got, Garbage, w)
        BY <1>2, <2>4, <2>5, <3>3, NonsenseRead
      <4> QED  BY <1>2, <1>6, <3>3, <4>1
    <3> QED  BY <1>15, <2>2, <3>1, <3>2, <3>3 DEF Receive, Arrived
  <2>11. conns'[conn'] = d /\ conn' # 0
    BY <2>1, <2>4, <2>7
  <2>12. GetOK'
    BY <1>9, <1>10, <2>1, <2>4, <2>5, <2>10, <2>11
  <2>13. TransportTypes'
    BY <1>1, <1>2, <2>1, <2>7, <2>10 DEF TransportInv, TransportTypes
  <2> QED  BY <2>9, <2>12, <2>13 DEF TransportInv
<1> QED  BY <1>11, <1>12, <1>13, <1>14, <1>15

LEMMA ReceiverEnds ==
  ASSUME TransportInv, StopListening
  PROVE  TransportInv'
<1>1. /\ listening' = FALSE /\ reading' = Idle /\ type' = type /\ puts' = puts
      /\ sock' = sock /\ breaker' = breaker /\ cooled' = cooled /\ conn' = conn /\ got' = got /\ cuts' = cuts
      /\ conns' = [c \in DOMAIN conns |-> [conns[c] EXCEPT !.up = FALSE, !.wire = << >>]]
  BY DEF StopListening, senderVars
<1>2. conns \in Seq(ConnForm) /\ Idle \in ReadingForms /\ conn \in {0} \cup DOMAIN conns
  BY DEF TransportInv, TransportTypes, ReadingForms
<1>3. ASSUME NEW c \in DOMAIN conns
      PROVE  /\ conns'[c] \in ConnForm /\ conns'[c].up = FALSE /\ conns'[c].wire = << >>
             /\ conns'[c].sent = conns[c].sent /\ ConnOK(conns'[c], puts)
  <2>1. conns[c] \in ConnForm /\ ConnOK(conns[c], puts)
    BY <1>2, Elements DEF TransportInv, ConnsOK
  <2>2. PICK d : d = [conns[c] EXCEPT !.up = FALSE, !.wire = << >>]
    OBVIOUS
  <2>3. << >> \in Seq(Parts) /\ DOMAIN << >> = {}
    OBVIOUS
  <2>4. d \in ConnForm /\ d.up = FALSE /\ d.wire = << >> /\ d.sent = conns[c].sent
    BY <2>1, <2>2, <2>3 DEF ConnForm
  <2>5. ConnOK(d, puts)
    BY <2>1, <2>3, <2>4 DEF ConnOK, Announced
  <2>6. conns'[c] = d
    BY <1>1, <2>2
  <2> QED  BY <2>4, <2>5, <2>6
<1>4. conns' \in Seq(ConnForm) /\ Len(conns') = Len(conns) /\ DOMAIN conns' = DOMAIN conns
  <2>1. DOMAIN conns = 1..Len(conns) /\ Len(conns) \in Nat
    BY <1>2, Elements
  <2>2. DOMAIN conns' = DOMAIN conns
    BY <1>1
  <2>3. conns' = [c \in 1..Len(conns) |-> conns'[c]]
    BY <1>1, <2>1
  <2>4. \A c \in 1..Len(conns) : conns'[c] \in ConnForm
    BY <1>3, <2>1
  <2>5. PICK f : f = conns'
    OBVIOUS
  <2>6. PICK n \in Nat : n = Len(conns)
    BY <2>1
  <2>7. f = [c \in 1..n |-> f[c]] /\ \A c \in 1..n : f[c] \in ConnForm
    BY <2>3, <2>4, <2>5, <2>6
  <2>8. f \in Seq(ConnForm) /\ Len(f) = n
    BY <2>7
  <2> QED  BY <2>2, <2>5, <2>6, <2>8
<1>5. TransportTypes'
  BY <1>1, <1>2, <1>4 DEF TransportInv, TransportTypes
<1>6. ConnsOK'
  BY <1>1, <1>3, <1>4 DEF ConnsOK
<1>7. ASSUME conn # 0 PROVE Hears(conns'[conn], got, Idle, FALSE)
  <2>1. conn \in DOMAIN conns /\ Rising(got) /\ Range(got) \subseteq Range(conns[conn].sent)
    BY <1>2, <1>7 DEF TransportInv, GetOK, Hears
  <2>2. conns'[conn].wire = << >> /\ conns'[conn].sent = conns[conn].sent
    BY <1>3, <2>1
  <2>3. DOMAIN << >> = {} /\ Idle.at # "body"
    BY ReadingIs
  <2> QED  BY <2>1, <2>2, <2>3 DEF Hears
<1>8. GetOK'
  <2>1. (listening' /\ cuts' = 0) = FALSE
    BY <1>1
  <2>2. conn' = 0 => got' = << >>
    BY <1>1 DEF TransportInv, GetOK
  <2> QED  BY <1>1, <1>7, <2>1, <2>2 DEF GetOK
<1> QED  BY <1>5, <1>6, <1>8 DEF TransportInv

LEMMA ReceiverBegins ==
  ASSUME TransportInv, Listen
  PROVE  TransportInv'
<1>1. /\ ~ listening /\ listening' = TRUE /\ got' = << >> /\ cuts' = 0
      /\ type' = type /\ sock' = sock /\ breaker' = breaker /\ cooled' = cooled /\ puts' = puts
      /\ reading' = reading /\ reading = Idle
  BY DEF Listen, senderVars, TransportInv, GetOK
<1>2. /\ << >> \in Seq(1..Puts) /\ 0 \in 0..Cuts /\ conns \in Seq(ConnForm) /\ puts \in Nat
      /\ (type = "http" => sock = 1 /\ Len(conns) = 1 /\ conn = 1)
  BY SocketAssumption DEF TransportInv, TransportTypes
<1>3. CASE type = "http"
  <2>1. conns' = << NewConn >> /\ conn' = 1 /\ sock' = 1
    BY <1>1, <1>2, <1>3 DEF Listen
  <2>2. NewConn \in ConnForm /\ ConnOK(NewConn, puts) /\ LeftOf(NewConn.wire, NewConn.sent, 0) /\ NewConn.up
    BY <1>2, NewConnIs
  <2>3. conns' \in Seq(ConnForm) /\ Len(conns') = 1 /\ DOMAIN conns' = {1} /\ conns'[1] = NewConn
    BY <2>1, <2>2
  <2>4. TransportTypes'
    BY <1>1, <1>2, <2>1, <2>3 DEF TransportInv, TransportTypes
  <2>5. ConnsOK'
    BY <1>1, <2>1, <2>2, <2>3 DEF ConnsOK
  <2>6. Hears(NewConn, << >>, Idle, TRUE)
    BY <2>2, HearsNothing
  <2>7. (listening' /\ cuts' = 0) = TRUE
    BY <1>1
  <2>8. GetOK'
    BY <1>1, <2>1, <2>2, <2>3, <2>6, <2>7 DEF GetOK
  <2> QED  BY <2>4, <2>5, <2>8 DEF TransportInv
<1>4. CASE type # "http"
  <2>1. conns' = conns /\ conn' = 0
    BY <1>4 DEF Listen
  <2>2. TransportTypes'
    BY <1>1, <1>2, <1>4, <2>1 DEF TransportInv, TransportTypes
  <2>3. \A c \in DOMAIN conns : ConnOK(conns[c], puts) /\ ~ conns[c].up
    <3>1. \A c \in DOMAIN conns : conns[c].up => listening
      BY DEF TransportInv, ConnsOK
    <3> QED  BY <1>1, <3>1 DEF TransportInv, ConnsOK
  <2>4. ConnsOK'
    BY <1>1, <2>1, <2>3 DEF ConnsOK
  <2>5. GetOK'
    BY <1>1, <2>1 DEF GetOK
  <2> QED  BY <2>2, <2>4, <2>5 DEF TransportInv
<1> QED  BY <1>3, <1>4

LEMMA TransportInit ==
  ASSUME SocketInit
  PROVE  TransportInv
<1>1. /\ type \in SocketTypes /\ listening = TRUE /\ cooled = FALSE
      /\ breaker = [state |-> "CLOSED", failures |-> 0]
      /\ conns = (IF type = "http" THEN <<NewConn>> ELSE << >>)
      /\ conn = Len(conns) /\ reading = Idle /\ got = << >> /\ puts = 0 /\ cuts = 0
  BY DEF SocketInit
<1>2. /\ << >> \in Seq(1..Puts) /\ 0 \in 0..Cuts /\ 0 \in 0..Puts /\ Idle \in ReadingForms
      /\ [state |-> "CLOSED", failures |-> 0] \in [state : {"CLOSED", "OPEN", "HALF_OPEN"}, failures : 0..Refusals]
  BY SocketAssumption DEF ReadingForms
<1>3. sock = IF type \in {"grpc", "zeromq"} THEN Absent ELSE IF type = "http" THEN 1 ELSE NoSock
  BY DEF SocketInit
<1>4. CASE type = "http"
  <2>1. conns = << NewConn >> /\ conn = 1 /\ sock = 1
    BY <1>1, <1>3, <1>4
  <2>2. NewConn \in ConnForm /\ ConnOK(NewConn, 0) /\ LeftOf(NewConn.wire, NewConn.sent, 0) /\ NewConn.up
    BY NewConnIs
  <2>3. conns \in Seq(ConnForm) /\ Len(conns) = 1 /\ DOMAIN conns = {1} /\ conns[1] = NewConn
    BY <2>1, <2>2
  <2>4. Hears(NewConn, << >>, Idle, TRUE)
    BY <2>2, HearsNothing
  <2>5. (listening /\ cuts = 0) = TRUE
    BY <1>1
  <2>6. TransportTypes
    BY <1>1, <1>2, <1>4, <2>1, <2>3 DEF TransportTypes
  <2>7. ConnsOK
    BY <1>1, <2>1, <2>2, <2>3 DEF ConnsOK
  <2>8. GetOK
    BY <1>1, <2>1, <2>2, <2>3, <2>4, <2>5 DEF GetOK
  <2> QED  BY <2>6, <2>7, <2>8 DEF TransportInv
<1>5. CASE type # "http"
  <2>1. conns = << >> /\ conns \in Seq(ConnForm) /\ DOMAIN conns = {} /\ conn = 0
    BY <1>1, <1>5
  <2>2. sock \in {Absent, NoSock}
    BY <1>3, <1>5
  <2> QED  BY <1>1, <1>2, <1>5, <2>1, <2>2 DEF TransportInv, TransportTypes, ConnsOK, GetOK
<1> QED  BY <1>4, <1>5

LEMMA TransportStep ==
  ASSUME TransportInv, [SocketNext]_socketVars
  PROVE  TransportInv'
<1>1. CASE UNCHANGED socketVars
  BY <1>1 DEF socketVars, senderVars, receiverVars, TransportInv, TransportTypes, ConnsOK, GetOK
<1>2. CASE \/ PutRefused \/ PutConnecting \/ Put \/ PutFails \/ PostUnanswered
           \/ ConnectAlone \/ ConnectFails \/ CloseSender \/ Cool
  BY <1>2, SenderSteps, SenderKeeps
<1>3. CASE AcceptConn \/ BeginGet \/ Receive \/ CutFrame \/ GetDone
  BY <1>3, ReceiverSteps
<1> QED  BY <1>1, <1>2, <1>3, ReceiverEnds, ReceiverBegins DEF SocketNext

\* Every connection carries frames, the breaker is in one of its states, and get is where it
\* can be: SocketTypeOK.
THEOREM SocketTypeCorrect == SocketSpec => []SocketTypeOK
<1>1. TransportInv => SocketTypeOK
  <2>1. SUFFICES ASSUME TransportInv PROVE SocketTypeOK
    OBVIOUS
  <2>2. \A c \in DOMAIN conns : conns[c] \in ConnForm
    BY <2>1, Elements DEF TransportInv, TransportTypes
  <2>3. \A c \in DOMAIN conns : /\ conns[c].wire \in Seq(Parts) /\ conns[c].sent \in Seq(1..Puts)
                                /\ conns[c].open \in BOOLEAN /\ conns[c].up \in BOOLEAN
    BY <2>2 DEF ConnForm
  <2>4. reading \in [at : {"idle", "length", "body", "garbage"}, of : 0..Puts]
    <3>1. reading \in ReadingForms /\ 0 \in 0..Puts /\ 1..Puts \subseteq 0..Puts
      BY <2>1, SocketAssumption DEF TransportInv, TransportTypes
    <3> QED  BY <3>1 DEF ReadingForms, Idle, AtLength, Garbage, Body
  <2> QED  BY <2>1, <2>3, <2>4 DEF TransportInv, TransportTypes, SocketTypeOK
<1> QED  BY <1>1, TransportInit, TransportStep, PTL DEF SocketSpec

\* While the receiver that accepted a connection lives, get returns what put wrote to it, each
\* message once and in order, and the rest is on the wire; after a timeout inside a frame
\* some are missing and still none is made up, repeated or out of turn: HeardAsWritten.
THEOREM HeardIsWritten == SocketSpec => []HeardAsWritten
<1>1. TransportInv => HeardAsWritten
  <2>1. SUFFICES ASSUME TransportInv, conn # 0
                 PROVE  /\ \A i, j \in DOMAIN got : i < j => got[i] < got[j]
                        /\ Range(got) \subseteq Range(conns[conn].sent)
                        /\ listening /\ cuts = 0 =>
                              /\ IsPrefix(got, conns[conn].sent)
                              /\ reading.at = "body" =>
                                    /\ Len(got) < Len(conns[conn].sent)
                                    /\ reading.of = conns[conn].sent[Len(got) + 1]
                              /\ LeftOf(conns[conn].wire, conns[conn].sent, PartsRead)
    BY DEF HeardAsWritten
  <2>2. Hears(conns[conn], got, reading, listening /\ cuts = 0)
    BY <2>1 DEF TransportInv, GetOK
  <2>3. ASSUME listening /\ cuts = 0
        PROVE  /\ IsPrefix(got, conns[conn].sent)
               /\ reading.at = "body" => /\ Len(got) < Len(conns[conn].sent)
                                         /\ reading.of = conns[conn].sent[Len(got) + 1]
               /\ LeftOf(conns[conn].wire, conns[conn].sent, PartsRead)
    <3>1. InStep(conns[conn], got, reading)
      BY <2>2, <2>3 DEF Hears
    <3>2. conn \in DOMAIN conns /\ conns \in Seq(ConnForm) /\ got \in Seq(1..Puts)
      BY <2>1 DEF TransportInv, TransportTypes
    <3>3. conns[conn].sent \in Seq(1..Puts)
      <4>1. conns[conn] \in ConnForm
        BY <3>2, Elements
      <4> QED  BY <4>1 DEF ConnForm
    <3>4. PICK s \in Seq(1..Puts), g \in Seq(1..Puts) : s = conns[conn].sent /\ g = got
      BY <3>2, <3>3
    <3>5. Len(g) <= Len(s) /\ \A i \in DOMAIN g : g[i] = s[i]
      BY <3>1, <3>4 DEF InStep
    <3>6. IsPrefix(g, s)
      BY <3>5, Elements DEF IsPrefix
    <3> QED  BY <3>1, <3>4, <3>6 DEF InStep, Taken, PartsRead
  <2> QED  BY <2>2, <2>3 DEF Hears, Rising
<1> QED  BY <1>1, TransportInit, TransportStep, PTL DEF SocketSpec

-----------------------------------------------------------------------------
(* The seven parts together, as MCRecords explores them.                   *)

\* A step of one part leaves the state of the others alone.
LEMMA StepOfAPart ==
  ASSUME [RecordsNext]_recordsVars
  PROVE  /\ [EnforcerNext]_enforcerVars /\ [TraceNext]_traceVars /\ [SocketNext]_socketVars
         /\ [CapabilityNext]_capabilityVars /\ [AuditNext]_auditVars
         /\ [LedgerNext]_ledgerVars /\ [CustodyNext]_custodyVars
<1>1. CASE UNCHANGED recordsVars
  BY <1>1 DEF recordsVars, enforcerRest
<1>2. CASE RecordsNext
  BY <1>2 DEF RecordsNext, enforcerRest
<1> QED  BY <1>1, <1>2

\* A history of the seven parts together is one of each part's own specification, so whatever
\* is proved of a part holds beside the others.
THEOREM RecordsRunsItsParts ==
  RecordsSpec => /\ EnforcerSpec /\ TraceSpec /\ SocketSpec /\ CapabilitySpec
                 /\ AuditSpec /\ LedgerSpec /\ CustodySpec
<1>1. RecordsInit => /\ EnforcerInit /\ TraceInit /\ SocketInit /\ CapabilityInit
                     /\ AuditInit /\ LedgerInit /\ CustodyInit
  BY DEF RecordsInit
<1> QED
  BY <1>1, StepOfAPart, PTL
  DEF RecordsSpec, EnforcerSpec, TraceSpec, SocketSpec, CapabilitySpec, AuditSpec, LedgerSpec, CustodySpec

\* Type correctness of the seven parts in one history.
THEOREM RecordsTypeCorrect == RecordsSpec => []RecordsTypeOK
<1>1. RecordsSpec => []EnforcerTypeOK /\ []TraceTypeOK /\ []SocketTypeOK /\ []CapabilityTypeOK
  BY RecordsRunsItsParts, EnforcerTypeCorrect, TraceTypeCorrect, SocketTypeCorrect, CapabilityTypeCorrect, PTL
<1>2. RecordsSpec => []AuditTypeOK /\ []LedgerTypeOK /\ []CustodyTypeOK
  BY RecordsRunsItsParts, AuditTypeCorrect, EvidenceTypeCorrect, CustodyTypeCorrect, PTL
<1>3. EnforcerTypeOK /\ TraceTypeOK /\ SocketTypeOK /\ CapabilityTypeOK
         /\ AuditTypeOK /\ LedgerTypeOK /\ CustodyTypeOK
        => RecordsTypeOK
  BY DEF RecordsTypeOK
<1> QED  BY <1>1, <1>2, <1>3, PTL
==============================================================================
