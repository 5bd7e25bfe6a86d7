------------------------------ MODULE TraceStore ------------------------------
(***************************************************************************)
(* TraceStore of observability.py: a bounded deque of trace entries behind *)
(* a lock.  A record_* method builds its entry before it takes the lock    *)
(* and gets its number under it; a query copies the deque under the lock   *)
(* and works on the copy.  The threads that record are the service loop    *)
(* and its callers, those that read are the HTTP threads (/traces).  The   *)
(* entries are frozen, the dicts they hold are not: Damage is a change of  *)
(* one after its hash was taken.                                           *)
(***************************************************************************)
EXTENDS Integers, FiniteSets, Sequences, SequencesExt

CONSTANTS
    Recorders,         \* threads that record
    Readers,           \* threads that query
    Traces,            \* trace ids
    TraceTypes,        \* the trace types in use, a subset of those of TypeOrder
    MaxTraceEntries,   \* _MAX_TRACE_ENTRIES
    Recordings         \* bound: entries recorded in a run

\* type_order of reconstruct_replay
TypeOrder == <<"producer_lineage", "adapter", "governance", "execution", "contract_lineage">>

ASSUME TraceStoreAssumption ==
    /\ MaxTraceEntries \in Nat \ {0} /\ Recordings \in Nat
    /\ TraceTypes \subseteq Range(TypeOrder)

VARIABLES
    entries,       \* _entries
    counter,       \* _sequence_counter
    unrecorded,    \* the entry each recorder has built and not yet recorded
    view,          \* what each reader copied, and for which trace it asked
    damaged,       \* the numbers of the entries whose data was changed
    recorded       \* history: every entry recorded, in order

traceVars == <<entries, counter, unrecorded, view, damaged, recorded>>

Entry   == [trace : Traces, type : TraceTypes, sequence : Nat]
NoEntry == [trace |-> "none", type |-> "none", sequence |-> 0]
NoView  == [copy |-> <<>>, trace |-> "none", at |-> 0]

TraceInit ==
    /\ entries = <<>> /\ counter = 0 /\ recorded = <<>> /\ damaged = {}
    /\ unrecorded = [t \in Recorders |-> NoEntry] /\ view = [r \in Readers |-> NoView]

-----------------------------------------------------------------------------
(* Recording.                                                              *)

\* The record_* methods up to record: TraceEntry(...), sequence 0.
BuildEntry(t, trace, type) ==
    /\ unrecorded[t] = NoEntry
    /\ unrecorded' = [unrecorded EXCEPT ![t] = [trace |-> trace, type |-> type, sequence |-> 0]]
    /\ UNCHANGED <<entries, counter, view, damaged, recorded>>

\* deque(maxlen=...): an append to a full deque drops the entry at the other end.
Kept(s) == IF Len(s) > MaxTraceEntries THEN Tail(s) ELSE s

Numbered(e) == IF e.sequence = 0 THEN [e EXCEPT !.sequence = counter + 1] ELSE e

Record(t) ==
    /\ unrecorded[t] # NoEntry /\ Len(recorded) < Recordings
    /\ counter' = counter + 1
    /\ entries' = Kept(Append(entries, Numbered(unrecorded[t])))
    /\ recorded' = Append(recorded, Numbered(unrecorded[t]))
    /\ unrecorded' = [unrecorded EXCEPT ![t] = NoEntry]
    /\ UNCHANGED <<view, damaged>>

\* Mutant: a clear that starts the numbers again.
ClearAll ==
    /\ entries # <<>> /\ entries' = <<>> /\ counter' = 0
    /\ UNCHANGED <<unrecorded, view, damaged, recorded>>

\* The counter goes on: clear() forgets the entries and not their number.
Clear ==
    /\ entries # <<>> /\ entries' = <<>>
    /\ UNCHANGED <<counter, unrecorded, view, damaged, recorded>>

Damage(n) ==
    /\ damaged = {} /\ n \in {e.sequence : e \in Range(entries)}
    /\ damaged' = {n}
    /\ UNCHANGED <<entries, counter, unrecorded, view, recorded>>

-----------------------------------------------------------------------------
(* Queries.                                                                *)

\* query(): the copy is taken under the lock, and filtered after it.  No two entries are
\* equal, and what reads the answer sorts it: the entries are a set.
CopyEntries(r, trace) ==
    /\ view[r] = NoView
    /\ view' = [view EXCEPT ![r] = [copy |-> entries, trace |-> trace, at |-> Len(recorded)]]
    /\ UNCHANGED <<entries, counter, unrecorded, damaged, recorded>>

Answer(r) ==
    /\ view[r] # NoView /\ view' = [view EXCEPT ![r] = NoView]
    /\ UNCHANGED <<entries, counter, unrecorded, damaged, recorded>>

Query(copy, trace) == {e \in Range(copy) : e.trace = trace}

\* type_order.get(entry.trace_type)
Stage(e) == CHOOSE i \in DOMAIN TypeOrder : TypeOrder[i] = e.type

\* Mutant: the numbers alone give the order.
SoonerByNumber(a, b) == a.sequence < b.sequence

Sooner(a, b) ==
    Stage(a) < Stage(b) \/ (Stage(a) = Stage(b) /\ a.sequence < b.sequence)

\* sorted() by stage and number.
Chain(copy, trace) ==
    LET found == Query(copy, trace)
    IN  CHOOSE s \in [1..Cardinality(found) -> found] :
            \A i, j \in DOMAIN s : i < j => Sooner(s[i], s[j])

ReconstructReplay(copy, trace) ==
    [chain |-> Chain(copy, trace),
     valid |-> /\ Query(copy, trace) # {}
               /\ \A e \in Query(copy, trace) : e.sequence \notin damaged]

\* The span id of export_opentelemetry is a digest of this pair.
Span(e) == <<e.trace, e.sequence>>

TraceNext ==
    \/ \E t \in Recorders :
          \/ \E trace \in Traces, type \in TraceTypes : BuildEntry(t, trace, type)
          \/ Record(t)
    \/ \E r \in Readers : (\E trace \in Traces : CopyEntries(r, trace)) \/ Answer(r)
    \/ Clear
    \/ \E n \in 1..counter : Damage(n)

TraceSpec == TraceInit /\ [][TraceNext]_traceVars
-----------------------------------------------------------------------------
(* What the trace store must guarantee.                                    *)

TraceTypeOK ==
    /\ entries \in Seq(Entry) /\ recorded \in Seq(Entry) /\ counter \in Nat
    /\ unrecorded \in [Recorders -> Entry \cup {NoEntry}]
    /\ \A r \in Readers : /\ view[r].copy \in Seq(Entry) /\ view[r].at \in Nat
                          /\ view[r].trace \in Traces \cup {"none"}
    /\ damaged \subseteq Nat

\* The numbers are dense and say how old an entry is: whichever threads recorded in between,
\* the n-th entry recorded in the life of the store has number n, and the ones held are the
\* last of them.  So two entries never export the same span, not even across a clear.
NumberedByRecording ==
    /\ Len(entries) <= MaxTraceEntries /\ Len(entries) <= Len(recorded)
    /\ \A i \in DOMAIN entries :
          entries[i] = recorded[Len(recorded) - Len(entries) + i]
    /\ \A i \in DOMAIN recorded : recorded[i].sequence = i
    /\ \A i, j \in DOMAIN recorded : Span(recorded[i]) = Span(recorded[j]) => i = j

\* The places, in the order of recording, of the entries of its trace that reader r copied.
Copied(r) ==
    {n \in (view[r].at - Len(view[r].copy) + 1)..view[r].at : recorded[n].trace = view[r].trace}

\* A reconstruction tells the stages of a contract in the order of the pipeline and, within
\* a stage, in the order they were recorded, whatever else was recorded, cleared or dropped
\* between the copy and the answer.  It tells each entry once, and an entry of the trace is
\* missing from it only if it is older than every entry the copy holds.
ReconstructsRecordedPath ==
    \A r \in Readers : view[r] # NoView =>
        LET chain == ReconstructReplay(view[r].copy, view[r].trace).chain
        IN  /\ Range(chain) = {recorded[n] : n \in Copied(r)}
            /\ \A i, j \in DOMAIN chain : i < j =>
                  \/ Stage(chain[i]) < Stage(chain[j])
                  \/ /\ chain[i].type = chain[j].type
                     /\ \E m, n \in Copied(r) :
                           m < n /\ chain[i] = recorded[m] /\ chain[j] = recorded[n]
=============================================================================
