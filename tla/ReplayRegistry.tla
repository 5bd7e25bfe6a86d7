--------------------------- MODULE ReplayRegistry ---------------------------
(***************************************************************************)
(* The durable replay registry of replay_registry.py, called by threads   *)
(* that share one instance.                                               *)
(*                                                                         *)
(* submit() reads the clock and rejects a stale message before it takes   *)
(* the lock; under the lock it looks the message up, assigns the next     *)
(* sequence number, and writes the whole registry to a .tmp file that     *)
(* then replaces the backing file.  Every one of these is a step here, so *)
(* that another thread, an I/O error or a crash can come between any two. *)
(* A Python dict from message to entry is a function that is 0 where the  *)
(* dict has no key: no decision reads an entry's other fields.            *)
(***************************************************************************)
EXTENDS Naturals, Sequences, FiniteSets

CONSTANTS
    Threads,     \* the threads that share the registry
    Msgs,        \* message identifiers
    Ages,        \* ages (now - issued_at) a caller's message may have
    TTL,         \* ttl_seconds
    MaxGap,      \* max_sequence_gap
    Ops,         \* the operations the threads use: "submit", "reset"
    Faults,      \* what may go wrong: "io", "restart", "damage"
    None,        \* no thread, no message
    Absent,      \* the backing file does not exist
    Torn         \* the file's content is not a registry

Snapshot == [counter : Nat, entries : [Msgs -> Nat]]

ASSUME RegistryAssumption ==
    /\ Ages \subseteq Nat /\ TTL \in Nat
    /\ MaxGap \in Nat \ {0}          \* config.validate refuses 0
    /\ Ops \subseteq {"submit", "reset"}
    /\ Faults \subseteq {"io", "restart", "damage"}
    /\ None \notin Threads /\ None \notin Msgs
    /\ Absent \notin Snapshot /\ Torn \notin Snapshot

VARIABLES
    pc,          \* where each thread is in its call
    op,          \* which operation it runs
    arg,         \* the message it submits
    decision,    \* the RegistryDecision it is about to return
    lock,        \* the holder of _lock
    entries,     \* _entries: message -> sequence number
    counter,     \* _sequence_counter
    tmp,         \* content of the .tmp file (a leftover counts as Absent: none reads it)
    file,        \* content of the backing file
    granted      \* history: acceptances since the registry's memory began

registryVars == <<pc, op, arg, decision, lock, entries, counter, tmp, file, granted>>
memoryVars   == <<entries, counter>>
callVars     == <<op, arg>>

Empty == [counter |-> 0, entries |-> [m \in Msgs |-> 0]]

Pending == [seq |-> 0, status |-> "PENDING"]

\* Points between submit()'s entry and the return of its lock.
CriticalSteps == {"locked", "assigning", "writing", "replacing"}

Statuses == {"PENDING", "VALID", "DUPLICATE", "STALE", "FUTURE", "RAISED", "CLEARED"}

RegistryInit ==
    /\ pc = [t \in Threads |-> "idle"]
    /\ op = [t \in Threads |-> "none"]
    /\ arg = [t \in Threads |-> None]
    /\ decision = [t \in Threads |-> Pending]
    /\ lock = None
    /\ entries = Empty.entries /\ counter = Empty.counter
    /\ tmp = Absent /\ file = Absent
    /\ granted = << >>

-----------------------------------------------------------------------------
(* Reads.  Each takes the lock, so it sees no half-made change of memory.  *)

IsKnown(m)    == entries[m] # 0
SequenceCount == counter
EntryCount    == Cardinality({m \in Msgs : IsKnown(m)})

ValidateSequenceOrder(n) ==
    IF n <= 0 THEN "STALE"
    ELSE IF n > counter + MaxGap THEN "FUTURE"
    ELSE "VALID"

-----------------------------------------------------------------------------
(* The persisted form, and what _load makes of it.                         *)

Memory == [counter |-> counter, entries |-> entries]

\* Mutant: the counter is not read back.
LoadWithoutCounter(content) ==
    IF content \in {Absent, Torn} THEN Empty ELSE [counter |-> 0, entries |-> content.entries]

Load(content) == IF content \in {Absent, Torn} THEN Empty ELSE content

-----------------------------------------------------------------------------
(* submit() and reset(), step by step.                                     *)

Goto(t, label) == pc' = [pc EXCEPT ![t] = label]

Decide(t, status, n) ==
    /\ Goto(t, "decided")
    /\ decision' = [decision EXCEPT ![t] = [seq |-> n, status |-> status]]

\* A call begins with the clock: a message older than the TTL never gets to the lock.
RejectStale(t, m, age) ==
    /\ "submit" \in Ops /\ pc[t] = "idle"
    /\ age > TTL
    /\ op' = [op EXCEPT ![t] = "submit"]
    /\ arg' = [arg EXCEPT ![t] = m]
    /\ Decide(t, "STALE", 0)
    /\ UNCHANGED <<lock, memoryVars, tmp, file, granted>>

Submit(t, m, age) ==
    /\ "submit" \in Ops /\ pc[t] = "idle"
    /\ age <= TTL
    /\ op' = [op EXCEPT ![t] = "submit"]
    /\ arg' = [arg EXCEPT ![t] = m]
    /\ Goto(t, "waiting")
    /\ UNCHANGED <<decision, lock, memoryVars, tmp, file, granted>>

Reset(t) ==
    /\ "reset" \in Ops /\ pc[t] = "idle"
    /\ op' = [op EXCEPT ![t] = "reset"]
    /\ Goto(t, "waiting")
    /\ UNCHANGED <<arg, decision, lock, memoryVars, tmp, file, granted>>

\* Mutant: no lock around the check and the assignment.
AcquireUnlocked(t) ==
    /\ pc[t] = "waiting"
    /\ lock' = t
    /\ Goto(t, "locked")
    /\ UNCHANGED <<callVars, decision, memoryVars, tmp, file, granted>>

Acquire(t) ==
    /\ pc[t] = "waiting" /\ lock = None
    /\ lock' = t
    /\ Goto(t, "locked")
    /\ UNCHANGED <<callVars, decision, memoryVars, tmp, file, granted>>

\* with self._lock: the lock goes back on return and on an exception alike.
Leave(t, status, n) ==
    /\ Decide(t, status, n)
    /\ lock' = None

RejectDuplicate(t) ==
    /\ pc[t] = "locked" /\ op[t] = "submit"
    /\ IsKnown(arg[t])
    /\ Leave(t, "DUPLICATE", entries[arg[t]])
    /\ UNCHANGED <<callVars, memoryVars, tmp, file, granted>>

NotADuplicate(t) ==
    /\ pc[t] = "locked" /\ op[t] = "submit"
    /\ ~ IsKnown(arg[t])
    /\ Goto(t, "assigning")
    /\ UNCHANGED <<callVars, decision, lock, memoryVars, tmp, file, granted>>

\* The gap is always 1, so the FUTURE branch is dead for every legal MaxGap.
AssignSequence(t) ==
    LET next == counter + 1 IN
    /\ pc[t] = "assigning"
    /\ IF next - counter > MaxGap
       THEN Leave(t, "FUTURE", 0) /\ UNCHANGED memoryVars
       ELSE /\ counter' = next
            /\ entries' = [entries EXCEPT ![arg[t]] = next]
            /\ decision' = [decision EXCEPT ![t] = [seq |-> next, status |-> "PENDING"]]
            /\ Goto(t, "writing")
            /\ UNCHANGED lock
    /\ UNCHANGED <<callVars, tmp, file, granted>>

ClearMemory(t) ==
    /\ pc[t] = "locked" /\ op[t] = "reset"
    /\ entries' = Empty.entries /\ counter' = Empty.counter
    /\ granted' = << >>
    /\ Goto(t, "writing")
    /\ UNCHANGED <<callVars, decision, lock, tmp, file>>

WriteTmp(t) ==
    /\ pc[t] = "writing"
    /\ tmp' = Memory
    /\ Goto(t, "replacing")
    /\ UNCHANGED <<callVars, decision, lock, memoryVars, file, granted>>

\* tmp.replace(path): the rename commits the write.
ReplaceFile(t) ==
    /\ pc[t] = "replacing"
    /\ file' = tmp
    /\ tmp' = Absent
    /\ UNCHANGED <<callVars, memoryVars>>

AcceptMessage(t) ==
    /\ op[t] = "submit"
    /\ ReplaceFile(t)
    /\ Leave(t, "VALID", decision[t].seq)
    /\ granted' = Append(granted, [msg |-> arg[t], seq |-> decision[t].seq])

FinishReset(t) ==
    /\ op[t] = "reset"
    /\ ReplaceFile(t)
    /\ Leave(t, "CLEARED", 0)
    /\ UNCHANGED granted

\* Mutant: a failed write is swallowed and VALID answered.
PersistFailureSwallowed(t) ==
    /\ "io" \in Faults
    /\ pc[t] \in {"writing", "replacing"} /\ op[t] = "submit"
    /\ tmp' = Absent
    /\ Leave(t, "VALID", decision[t].seq)
    /\ granted' = Append(granted, [msg |-> arg[t], seq |-> decision[t].seq])
    /\ UNCHANGED <<callVars, memoryVars, file>>

\* write_text or replace raises: nothing undoes the change of memory.
PersistFails(t) ==
    /\ "io" \in Faults
    /\ pc[t] \in {"writing", "replacing"}
    /\ tmp' = Absent
    /\ Leave(t, "RAISED", decision[t].seq)
    /\ UNCHANGED <<callVars, memoryVars, file, granted>>

\* The caller takes the decision, or the exception.
Return(t) ==
    /\ pc[t] = "decided"
    /\ Goto(t, "idle")
    /\ op' = [op EXCEPT ![t] = "none"]
    /\ arg' = [arg EXCEPT ![t] = None]
    /\ decision' = [decision EXCEPT ![t] = Pending]
    /\ UNCHANGED <<lock, memoryVars, tmp, file, granted>>

-----------------------------------------------------------------------------
(* The environment.                                                        *)

\* Mutant: the new registry does not load its file.
RestartForgets ==
    /\ "restart" \in Faults
    /\ pc' = [t \in Threads |-> "idle"]
    /\ op' = [t \in Threads |-> "none"]
    /\ arg' = [t \in Threads |-> None]
    /\ decision' = [t \in Threads |-> Pending]
    /\ lock' = None
    /\ entries' = Empty.entries /\ counter' = Empty.counter
    /\ tmp' = Absent
    /\ UNCHANGED <<file, granted>>

\* The process dies and a new one constructs the registry on the same path.
Restart ==
    /\ "restart" \in Faults
    /\ pc' = [t \in Threads |-> "idle"]
    /\ op' = [t \in Threads |-> "none"]
    /\ arg' = [t \in Threads |-> None]
    /\ decision' = [t \in Threads |-> Pending]
    /\ lock' = None
    /\ entries' = Load(file).entries /\ counter' = Load(file).counter
    /\ tmp' = Absent
    /\ UNCHANGED <<file, granted>>

\* Something outside the program damages the backing file: the case _load survives.
FileDamaged ==
    /\ "damage" \in Faults
    /\ file # Torn
    /\ file' = Torn
    /\ granted' = << >>
    /\ UNCHANGED <<pc, callVars, decision, lock, memoryVars, tmp>>

-----------------------------------------------------------------------------
\* The steps of a call that has begun.
RunCall(t) ==
    \/ Acquire(t) \/ RejectDuplicate(t) \/ NotADuplicate(t) \/ AssignSequence(t)
    \/ ClearMemory(t) \/ WriteTmp(t) \/ AcceptMessage(t) \/ FinishReset(t)
    \/ PersistFails(t)

BeginCall(t) == Reset(t) \/ \E m \in Msgs, age \in Ages : RejectStale(t, m, age) \/ Submit(t, m, age)

RegistryNext ==
    \/ \E t \in Threads : BeginCall(t) \/ RunCall(t) \/ Return(t)
    \/ Restart
    \/ FileDamaged

RegistrySpec == RegistryInit /\ [][RegistryNext]_registryVars
-----------------------------------------------------------------------------
(* What the registry must guarantee.                                       *)

\* Every variable holds a value of its type.
RegistryTypeOK ==
    /\ pc \in [Threads -> {"idle", "waiting", "decided"} \cup CriticalSteps]
    /\ op \in [Threads -> {"none", "submit", "reset"}]
    /\ arg \in [Threads -> Msgs \cup {None}]
    /\ decision \in [Threads -> [seq : Nat, status : Statuses]]
    /\ lock \in Threads \cup {None}
    /\ entries \in [Msgs -> Nat] /\ counter \in Nat
    /\ tmp \in Snapshot \cup {Absent}
    /\ file \in Snapshot \cup {Absent, Torn}
    /\ granted \in Seq([msg : Msgs, seq : Nat])

\* "Each message is accepted once" (lines 17-22), through races of two callers, failed
\* writes, crashes between any two steps and restarts: of two acceptances the later is
\* of another message, and has the greater sequence number.
AcceptedOnceInOrder ==
    \A i, j \in DOMAIN granted :
        i < j => /\ granted[i].msg # granted[j].msg
                 /\ granted[i].seq < granted[j].seq

\* "Registry is written to disk on every VALID acceptance" (line 24): once VALID has
\* been answered, a process that starts now from the file knows the message, under the
\* same number, and would number the next one higher.
AcceptedIsDurable ==
    \A i \in DOMAIN granted :
        LET restarted == Load(file) IN
        /\ restarted.entries[granted[i].msg] = granted[i].seq
        /\ restarted.counter >= granted[i].seq

\* Every sequence number up to the counter belongs to exactly one message, and no number
\* beyond it to any, in a registry image r.
Dense(r) ==
    /\ \A m \in Msgs : r.entries[m] <= r.counter
    /\ \A n \in 1..r.counter : \E m \in Msgs : r.entries[m] = n
    /\ \A m, n \in Msgs : r.entries[m] = r.entries[n] /\ r.entries[m] # 0 => m = n

\* The numbering has no gap and no number twice, in memory and in what a restart would
\* load, also after a write has failed with the memory already changed.
NumberingDense == Dense(Memory) /\ Dense(Load(file))

-----------------------------------------------------------------------------
(* Why: an invariant that every step keeps, and from which the guarantees  *)
(* follow.                                                                 *)

\* The lock is held by the one thread inside the critical section.
LockDiscipline == \A t \in Threads : lock = t <=> pc[t] \in CriticalSteps

\* A submission carries a message; one about to be assigned a number has none yet.
CallsCarryMessages ==
    \A t \in Threads :
        /\ pc[t] # "idle" /\ op[t] = "submit" => arg[t] \in Msgs
        /\ pc[t] \in {"waiting", "locked", "writing", "replacing"} => op[t] \in {"submit", "reset"}
        /\ pc[t] = "assigning" => op[t] = "submit" /\ ~ IsKnown(arg[t])

\* A registry image r holds every acceptance, and its counter is not behind any.
HoldsGrants(r) ==
    \A i \in DOMAIN granted :
        /\ granted[i].seq \in 1..r.counter
        /\ r.entries[granted[i].msg] = granted[i].seq

\* Acceptances are numbered upwards.
GrantsIncrease == \A i, j \in DOMAIN granted : i < j => granted[i].seq < granted[j].seq

\* A write under way carries the memory as it is, and a number above all acceptances.
WriteInProgress ==
    \A t \in Threads :
        /\ pc[t] = "replacing" => tmp = Memory
        /\ pc[t] \in {"writing", "replacing"} /\ op[t] = "submit" =>
               /\ decision[t].seq = counter /\ entries[arg[t]] = counter /\ counter > 0
               /\ \A i \in DOMAIN granted : granted[i].seq < counter

RegistryInv ==
    /\ RegistryTypeOK
    /\ LockDiscipline
    /\ CallsCarryMessages
    /\ HoldsGrants(Memory) /\ HoldsGrants(Load(file))
    /\ GrantsIncrease
    /\ WriteInProgress
    /\ NumberingDense

-----------------------------------------------------------------------------
\* The registry keeps the promise of ReplayLedger.
Ledger == INSTANCE ReplayLedger WITH ledger <- granted

KeepsLedger == Ledger!LedgerSpec
=============================================================================
