------------------------ MODULE ReplayRegistryProofs ------------------------
(***************************************************************************)
(* Proofs about ReplayRegistry and ReplayAuthority for every number of     *)
(* threads and messages, every TTL and gap, and every sequence of failed   *)
(* writes, damaged files and restarts.                                     *)
(*                                                                         *)
(* The registry's argument, RegistryInv: the holder of the lock is the one *)
(* inside the critical section, and memory, file and a write under way hold*)
(* every acceptance.  The authority's, AccountInv: as long as the registry *)
(* has not been emptied over its head, an accepted record is in the lineage*)
(* or is carried by the thread that will write it there.                   *)
(***************************************************************************)
EXTENDS ReplayAuthority, FiniteSetTheorems, WellFoundedInduction, TLAPS

USE RegistryAssumption DEF Goto, memoryVars, callVars

-----------------------------------------------------------------------------
(* Types.                                                                  *)

LEMMA EmptyType == Empty \in Snapshot
  BY DEF Empty, Snapshot

\* What _load makes of any file is a registry image.
LEMMA LoadType ==
  ASSUME NEW f \in Snapshot \cup {Absent, Torn}
  PROVE  Load(f) \in Snapshot
  BY EmptyType DEF Load

LEMMA TypeInit == RegistryInit => RegistryTypeOK
  BY EmptyType DEF RegistryInit, RegistryTypeOK, Snapshot, Statuses, Pending, Empty

\* A decision of a known status is a decision, and leaves its thread at "decided".
LEMMA DecideType ==
  ASSUME RegistryTypeOK, NEW t \in Threads, NEW status \in Statuses, NEW n \in Nat,
         Decide(t, status, n)
  PROVE  /\ decision' \in [Threads -> [seq : Nat, status : Statuses]]
         /\ pc' \in [Threads -> {"idle", "waiting", "decided"} \cup CriticalSteps]
  BY DEF RegistryTypeOK, Decide

\* The gap a new number makes is 1, so with a legal MaxGap AssignSequence always assigns.
LEMMA AssignAssigns ==
  ASSUME RegistryTypeOK, NEW t \in Threads, AssignSequence(t)
  PROVE  /\ pc[t] = "assigning"
         /\ counter' = counter + 1
         /\ entries' = [entries EXCEPT ![arg[t]] = counter + 1]
         /\ decision' = [decision EXCEPT ![t] = [seq |-> counter + 1, status |-> "PENDING"]]
         /\ pc' = [pc EXCEPT ![t] = "writing"]
         /\ UNCHANGED <<op, arg, lock, tmp, file, granted>>
<1>1. ~ ((counter + 1) - counter > MaxGap)
  BY DEF RegistryTypeOK
<1>2. QED BY <1>1 DEF AssignSequence

LEMMA TypeNext ==
  RegistryTypeOK /\ CallsCarryMessages /\ [RegistryNext]_registryVars => RegistryTypeOK'
<1> SUFFICES ASSUME RegistryTypeOK, CallsCarryMessages, [RegistryNext]_registryVars
             PROVE  RegistryTypeOK'
  OBVIOUS
<1> USE DEF RegistryTypeOK
<1>a. ASSUME NEW t \in Threads, NEW m \in Msgs, NEW age \in Ages, RejectStale(t, m, age)
      PROVE  RegistryTypeOK'
  BY <1>a, DecideType DEF RejectStale, Statuses
<1>b. ASSUME NEW t \in Threads, NEW m \in Msgs, NEW age \in Ages, Submit(t, m, age)
      PROVE  RegistryTypeOK'
  BY <1>b DEF Submit
<1>c. ASSUME NEW t \in Threads, Reset(t) PROVE RegistryTypeOK'
  BY <1>c DEF Reset
<1>d. ASSUME NEW t \in Threads, Acquire(t) PROVE RegistryTypeOK'
  BY <1>d DEF Acquire, CriticalSteps
<1>e. ASSUME NEW t \in Threads, RejectDuplicate(t) PROVE RegistryTypeOK'
  <2>1. entries[arg[t]] \in Nat
    BY <1>e DEF RejectDuplicate, CallsCarryMessages
  <2>2. QED BY <1>e, <2>1, DecideType DEF RejectDuplicate, Leave, Statuses
<1>f. ASSUME NEW t \in Threads, NotADuplicate(t) PROVE RegistryTypeOK'
  BY <1>f DEF NotADuplicate, CriticalSteps
<1>g. ASSUME NEW t \in Threads, AssignSequence(t) PROVE RegistryTypeOK'
  <2>1. /\ counter' = counter + 1
        /\ entries' = [entries EXCEPT ![arg[t]] = counter + 1]
        /\ decision' = [decision EXCEPT ![t] = [seq |-> counter + 1, status |-> "PENDING"]]
        /\ pc' = [pc EXCEPT ![t] = "writing"]
        /\ UNCHANGED <<op, arg, lock, tmp, file, granted>>
    BY <1>g, AssignAssigns
  <2>2. counter' \in Nat /\ entries' = [entries EXCEPT ![arg[t]] = counter']
    BY <2>1
  <2>3. entries' \in [Msgs -> Nat]
    BY <2>2
  <2>4. decision' \in [Threads -> [seq : Nat, status : Statuses]]
    BY <2>1 DEF Statuses
  <2>5. pc' \in [Threads -> {"idle", "waiting", "decided"} \cup CriticalSteps]
    BY <2>1 DEF CriticalSteps
  <2>6. QED BY <2>1, <2>2, <2>3, <2>4, <2>5
<1>h. ASSUME NEW t \in Threads, ClearMemory(t) PROVE RegistryTypeOK'
  BY <1>h, EmptyType DEF ClearMemory, Snapshot, CriticalSteps
<1>i. ASSUME NEW t \in Threads, WriteTmp(t) PROVE RegistryTypeOK'
  BY <1>i DEF WriteTmp, Memory, Snapshot, CriticalSteps
<1>j. ASSUME NEW t \in Threads, AcceptMessage(t) PROVE RegistryTypeOK'
  <2>1. arg[t] \in Msgs /\ decision[t].seq \in Nat
    BY <1>j DEF AcceptMessage, ReplaceFile, CallsCarryMessages
  <2>2. granted' \in Seq([msg : Msgs, seq : Nat])
    BY <1>j, <2>1 DEF AcceptMessage
  <2>3. QED BY <1>j, <2>1, <2>2, DecideType DEF AcceptMessage, ReplaceFile, Leave, Statuses
<1>k. ASSUME NEW t \in Threads, FinishReset(t) PROVE RegistryTypeOK'
  BY <1>k, DecideType DEF FinishReset, ReplaceFile, Leave, Statuses
<1>l. ASSUME NEW t \in Threads, PersistFails(t) PROVE RegistryTypeOK'
  BY <1>l, DecideType DEF PersistFails, Leave, Statuses
<1>m. ASSUME NEW t \in Threads, Return(t) PROVE RegistryTypeOK'
  BY <1>m DEF Return, Pending, Statuses
<1>n. CASE Restart
  BY <1>n, LoadType DEF Restart, Snapshot, Pending, Statuses
<1>o. CASE FileDamaged
  BY <1>o DEF FileDamaged
<1>p. CASE UNCHANGED registryVars
  BY <1>p DEF registryVars
<1>q. QED
  BY <1>a, <1>b, <1>c, <1>d, <1>e, <1>f, <1>g, <1>h, <1>i, <1>j, <1>k, <1>l, <1>m, <1>n, <1>o,
     <1>p DEF RegistryNext, BeginCall, RunCall

-----------------------------------------------------------------------------
(* Mutual exclusion: the thread inside the critical section holds the lock.  *)

LEMMA OneInside ==
  ASSUME LockDiscipline, NEW s \in Threads, NEW t \in Threads,
         pc[s] \in CriticalSteps, pc[t] \in CriticalSteps
  PROVE  s = t
  BY DEF LockDiscipline

LEMMA LockNext ==
  RegistryTypeOK /\ LockDiscipline /\ [RegistryNext]_registryVars => LockDiscipline'
<1> SUFFICES ASSUME RegistryTypeOK, LockDiscipline, [RegistryNext]_registryVars,
                    NEW s \in Threads
             PROVE  (lock = s <=> pc[s] \in CriticalSteps)'
  BY DEF LockDiscipline
<1> USE DEF CriticalSteps
<1>1. /\ lock = s <=> pc[s] \in CriticalSteps
      /\ \A t \in Threads : lock = t <=> pc[t] \in CriticalSteps
      /\ pc \in [Threads -> {"idle", "waiting", "decided"} \cup CriticalSteps]
  BY DEF LockDiscipline, RegistryTypeOK
<1>a. ASSUME NEW t \in Threads, NEW m \in Msgs, NEW age \in Ages, RejectStale(t, m, age)
      PROVE  (lock = s <=> pc[s] \in CriticalSteps)'
  BY <1>1, <1>a DEF RejectStale, Decide
<1>b. ASSUME NEW t \in Threads, NEW m \in Msgs, NEW age \in Ages, Submit(t, m, age)
      PROVE  (lock = s <=> pc[s] \in CriticalSteps)'
  BY <1>1, <1>b DEF Submit
<1>c. ASSUME NEW t \in Threads, Reset(t)
      PROVE  (lock = s <=> pc[s] \in CriticalSteps)'
  BY <1>1, <1>c DEF Reset
<1>d. ASSUME NEW t \in Threads, Acquire(t)
      PROVE  (lock = s <=> pc[s] \in CriticalSteps)'
  BY <1>1, <1>d DEF Acquire
<1>e. ASSUME NEW t \in Threads, RejectDuplicate(t)
      PROVE  (lock = s <=> pc[s] \in CriticalSteps)'
  BY <1>1, <1>e DEF RejectDuplicate, Leave, Decide
<1>f. ASSUME NEW t \in Threads, NotADuplicate(t)
      PROVE  (lock = s <=> pc[s] \in CriticalSteps)'
  BY <1>1, <1>f DEF NotADuplicate
<1>g. ASSUME NEW t \in Threads, AssignSequence(t)
      PROVE  (lock = s <=> pc[s] \in CriticalSteps)'
  <2>1. pc[t] = "assigning" /\ pc' = [pc EXCEPT ![t] = "writing"] /\ lock' = lock
    BY <1>g, AssignAssigns
  <2>2. QED BY <1>1, <2>1
<1>h. ASSUME NEW t \in Threads, ClearMemory(t)
      PROVE  (lock = s <=> pc[s] \in CriticalSteps)'
  BY <1>1, <1>h DEF ClearMemory
<1>i. ASSUME NEW t \in Threads, WriteTmp(t)
      PROVE  (lock = s <=> pc[s] \in CriticalSteps)'
  BY <1>1, <1>i DEF WriteTmp
<1>j. ASSUME NEW t \in Threads, AcceptMessage(t)
      PROVE  (lock = s <=> pc[s] \in CriticalSteps)'
  BY <1>1, <1>j DEF AcceptMessage, ReplaceFile, Leave, Decide
<1>k. ASSUME NEW t \in Threads, FinishReset(t)
      PROVE  (lock = s <=> pc[s] \in CriticalSteps)'
  BY <1>1, <1>k DEF FinishReset, ReplaceFile, Leave, Decide
<1>l. ASSUME NEW t \in Threads, PersistFails(t)
      PROVE  (lock = s <=> pc[s] \in CriticalSteps)'
  BY <1>1, <1>l DEF PersistFails, Leave, Decide
<1>m. ASSUME NEW t \in Threads, Return(t)
      PROVE  (lock = s <=> pc[s] \in CriticalSteps)'
  BY <1>1, <1>m DEF Return
<1>n. CASE Restart
  BY <1>n DEF Restart
<1>o. CASE FileDamaged
  BY <1>1, <1>o DEF FileDamaged
<1>p. CASE UNCHANGED registryVars
  BY <1>1, <1>p DEF registryVars
<1>q. QED
  BY <1>a, <1>b, <1>c, <1>d, <1>e, <1>f, <1>g, <1>h, <1>i, <1>j, <1>k, <1>l, <1>m, <1>n, <1>o,
     <1>p DEF RegistryNext, BeginCall, RunCall

-----------------------------------------------------------------------------
(* What a call carries.                                                     *)

LEMMA CallsNext ==
  RegistryTypeOK /\ LockDiscipline /\ CallsCarryMessages /\ [RegistryNext]_registryVars
    => CallsCarryMessages'
<1> DEFINE Carries(s) ==
      /\ pc[s] # "idle" /\ op[s] = "submit" => arg[s] \in Msgs
      /\ pc[s] \in {"waiting", "locked", "writing", "replacing"} => op[s] \in {"submit", "reset"}
      /\ pc[s] = "assigning" => op[s] = "submit" /\ ~ IsKnown(arg[s])
<1> SUFFICES ASSUME RegistryTypeOK, LockDiscipline, CallsCarryMessages,
                    [RegistryNext]_registryVars, NEW s \in Threads
             PROVE  Carries(s)'
  BY DEF CallsCarryMessages
<1>1. Carries(s)
  BY DEF CallsCarryMessages
<1>2. /\ pc \in [Threads -> {"idle", "waiting", "decided"} \cup CriticalSteps]
      /\ op \in [Threads -> {"none", "submit", "reset"}]
      /\ arg \in [Threads -> Msgs \cup {None}]
      /\ entries \in [Msgs -> Nat]
  BY DEF RegistryTypeOK
<1>3. \A t \in Threads : pc[s] = "assigning" /\ pc[t] \in CriticalSteps => s = t
  BY OneInside DEF CriticalSteps
<1> USE <1>1, <1>2 DEF IsKnown
<1> HIDE DEF Carries
<1>a. ASSUME NEW t \in Threads, NEW m \in Msgs, NEW age \in Ages, RejectStale(t, m, age)
      PROVE  Carries(s)'
  BY <1>a DEF Carries, RejectStale, Decide
<1>b. ASSUME NEW t \in Threads, NEW m \in Msgs, NEW age \in Ages, Submit(t, m, age)
      PROVE  Carries(s)'
  BY <1>b DEF Carries, Submit
<1>c. ASSUME NEW t \in Threads, Reset(t) PROVE Carries(s)'
  BY <1>c DEF Carries, Reset
<1>d. ASSUME NEW t \in Threads, Acquire(t) PROVE Carries(s)'
  BY <1>d DEF Carries, Acquire
<1>e. ASSUME NEW t \in Threads, RejectDuplicate(t) PROVE Carries(s)'
  BY <1>e DEF Carries, RejectDuplicate, Leave, Decide
<1>f. ASSUME NEW t \in Threads, NotADuplicate(t) PROVE Carries(s)'
  BY <1>f DEF Carries, NotADuplicate
<1>g. ASSUME NEW t \in Threads, AssignSequence(t) PROVE Carries(s)'
  <2>1. /\ pc[t] = "assigning" /\ pc' = [pc EXCEPT ![t] = "writing"]
        /\ UNCHANGED <<op, arg>>
    BY <1>g, AssignAssigns
  <2>2. CASE s = t
    BY <2>1, <2>2 DEF Carries
  <2>3. CASE s # t
    <3>1. pc[s] # "assigning"
      BY <1>3, <2>1, <2>3 DEF CriticalSteps
    <3>2. QED BY <2>1, <2>3, <3>1 DEF Carries
  <2>4. QED BY <2>2, <2>3
<1>h. ASSUME NEW t \in Threads, ClearMemory(t) PROVE Carries(s)'
  BY <1>h DEF Carries, ClearMemory, Empty
<1>i. ASSUME NEW t \in Threads, WriteTmp(t) PROVE Carries(s)'
  BY <1>i DEF Carries, WriteTmp
<1>j. ASSUME NEW t \in Threads, AcceptMessage(t) PROVE Carries(s)'
  BY <1>j DEF Carries, AcceptMessage, ReplaceFile, Leave, Decide
<1>k. ASSUME NEW t \in Threads, FinishReset(t) PROVE Carries(s)'
  BY <1>k DEF Carries, FinishReset, ReplaceFile, Leave, Decide
<1>l. ASSUME NEW t \in Threads, PersistFails(t) PROVE Carries(s)'
  BY <1>l DEF Carries, PersistFails, Leave, Decide
<1>m. ASSUME NEW t \in Threads, Return(t) PROVE Carries(s)'
  BY <1>m DEF Carries, Return
<1>n. CASE Restart
  BY <1>n DEF Carries, Restart
<1>o. CASE FileDamaged
  BY <1>o DEF Carries, FileDamaged
<1>p. CASE UNCHANGED registryVars
  BY <1>p DEF Carries, registryVars
<1>q. QED
  BY <1>a, <1>b, <1>c, <1>d, <1>e, <1>f, <1>g, <1>h, <1>i, <1>j, <1>k, <1>l, <1>m, <1>n, <1>o,
     <1>p DEF RegistryNext, BeginCall, RunCall

-----------------------------------------------------------------------------
(* Acceptances.  Only six kinds of step touch the memory, the file or the   *)
(* history; for the others there is nothing to show.                        *)

LEMMA StepsThatMatter ==
  ASSUME [RegistryNext]_registryVars
  PROVE  \/ \E t \in Threads : \/ AssignSequence(t) \/ ClearMemory(t)
                               \/ AcceptMessage(t) \/ FinishReset(t)
         \/ Restart \/ FileDamaged
         \/ UNCHANGED <<entries, counter, file, granted>>
  BY DEF RegistryNext, BeginCall, RunCall, registryVars, RejectStale, Submit, Reset, Acquire,
         RejectDuplicate, NotADuplicate, WriteTmp, PersistFails, Return

\* The shape of a memory image, and the one that the file just replaced gives.
LEMMA MemoryIsImage == RegistryTypeOK => Memory \in Snapshot
  BY DEF RegistryTypeOK, Memory, Snapshot

LEMMA ReplaceLoads ==
  ASSUME RegistryTypeOK, WriteInProgress, NEW t \in Threads, ReplaceFile(t)
  PROVE  Load(file') = Memory
<1>1. file' = Memory
  BY DEF WriteInProgress, ReplaceFile
<1>2. Memory \notin {Absent, Torn}
  BY MemoryIsImage
<1>3. QED BY <1>1, <1>2 DEF Load

\* A restarted registry's memory is what the file loads to.
LEMMA RestartLoads == RegistryTypeOK /\ Restart => Memory' = Load(file) /\ file' = file
<1> SUFFICES ASSUME RegistryTypeOK, Restart PROVE Memory' = Load(file) /\ file' = file
  OBVIOUS
<1>1. Load(file) \in Snapshot
  BY LoadType DEF RegistryTypeOK
<1>2. QED BY <1>1 DEF Restart, Memory, Snapshot

LEMMA Elements ==
  \A S : \A s \in Seq(S) : /\ DOMAIN s = 1..Len(s) /\ Len(s) \in Nat
                           /\ \A i \in DOMAIN s : s[i] \in S
  OBVIOUS

LEMMA MemoryHoldsNext ==
  RegistryInv /\ [RegistryNext]_registryVars => HoldsGrants(Memory)'
<1> SUFFICES ASSUME RegistryInv, [RegistryNext]_registryVars PROVE HoldsGrants(Memory)'
  OBVIOUS
<1>0. \A i \in DOMAIN granted : granted[i] \in [msg : Msgs, seq : Nat]
  <2>1. granted \in Seq([msg : Msgs, seq : Nat])
    BY DEF RegistryInv, RegistryTypeOK
  <2>2. QED BY <2>1, Elements
<1> USE DEF HoldsGrants
<1>1. /\ counter \in Nat /\ entries \in [Msgs -> Nat]
      /\ granted \in Seq([msg : Msgs, seq : Nat])
      /\ \A i \in DOMAIN granted :
            /\ granted[i].seq \in 1..counter /\ granted[i].msg \in Msgs
            /\ entries[granted[i].msg] = granted[i].seq
  <2>1. /\ counter \in Nat /\ entries \in [Msgs -> Nat]
        /\ granted \in Seq([msg : Msgs, seq : Nat])
    BY DEF RegistryInv, RegistryTypeOK
  <2>2. Memory.counter = counter /\ Memory.entries = entries
    BY DEF Memory
  <2>3. \A i \in DOMAIN granted :
           granted[i].seq \in 1..counter /\ entries[granted[i].msg] = granted[i].seq
    BY <2>2 DEF RegistryInv
  <2>5. \A i \in DOMAIN granted : granted[i].msg \in Msgs
    BY <1>0
  <2>6. QED BY <2>1, <2>3, <2>5
<1>a. ASSUME NEW t \in Threads, AssignSequence(t) PROVE HoldsGrants(Memory)'
  <2>1. /\ counter' = counter + 1 /\ granted' = granted
        /\ entries' = [entries EXCEPT ![arg[t]] = counter + 1]
    BY <1>a, AssignAssigns DEF RegistryInv
  <2>2. ~ IsKnown(arg[t])
    BY <1>a, AssignAssigns DEF RegistryInv, CallsCarryMessages
  <2>3. \A i \in DOMAIN granted : granted[i].msg # arg[t]
    BY <1>1, <2>2 DEF IsKnown
  <2>4. QED BY <1>1, <2>1, <2>3 DEF Memory
<1>b. ASSUME NEW t \in Threads, ClearMemory(t) PROVE HoldsGrants(Memory)'
  BY <1>b DEF ClearMemory
<1>c. ASSUME NEW t \in Threads, AcceptMessage(t) PROVE HoldsGrants(Memory)'
  <2>1. /\ counter' = counter /\ entries' = entries
        /\ granted' = Append(granted, [msg |-> arg[t], seq |-> decision[t].seq])
    BY <1>c DEF AcceptMessage, ReplaceFile
  <2>2. decision[t].seq = counter /\ entries[arg[t]] = counter /\ counter > 0
    BY <1>c DEF AcceptMessage, ReplaceFile, RegistryInv, WriteInProgress
  <2>3. QED BY <1>1, <2>1, <2>2 DEF Memory
<1>d. ASSUME NEW t \in Threads, FinishReset(t) PROVE HoldsGrants(Memory)'
  BY <1>1, <1>d DEF FinishReset, ReplaceFile, Memory
<1>e. CASE Restart
  BY <1>e, RestartLoads DEF Restart, RegistryInv
<1>f. CASE FileDamaged
  BY <1>f DEF FileDamaged
<1>g. CASE UNCHANGED <<entries, counter, file, granted>>
  BY <1>1, <1>g DEF Memory
<1>q. QED BY <1>a, <1>b, <1>c, <1>d, <1>e, <1>f, <1>g, StepsThatMatter

LEMMA FileHoldsNext ==
  RegistryInv /\ [RegistryNext]_registryVars => HoldsGrants(Load(file))'
<1> SUFFICES ASSUME RegistryInv, [RegistryNext]_registryVars PROVE HoldsGrants(Load(file))'
  OBVIOUS
<1>a. ASSUME NEW t \in Threads, AssignSequence(t) PROVE HoldsGrants(Load(file))'
  <2>1. file' = file /\ granted' = granted
    BY <1>a, AssignAssigns DEF RegistryInv
  <2>2. QED BY <2>1 DEF RegistryInv, HoldsGrants, Load
<1>b. ASSUME NEW t \in Threads, ClearMemory(t) PROVE HoldsGrants(Load(file))'
  BY <1>b DEF ClearMemory, HoldsGrants
<1>c. ASSUME NEW t \in Threads, ReplaceFile(t), AcceptMessage(t) \/ FinishReset(t)
      PROVE  HoldsGrants(Load(file))'
  <2>1. Load(file') = Memory'
    BY <1>c, ReplaceLoads DEF RegistryInv, ReplaceFile, Memory
  <2>2. HoldsGrants(Memory)'
    BY MemoryHoldsNext
  <2>3. QED BY <2>1, <2>2 DEF Load, HoldsGrants
<1>d. CASE Restart
  BY <1>d DEF Restart, RegistryInv, HoldsGrants, Load
<1>e. CASE FileDamaged
  BY <1>e DEF FileDamaged, HoldsGrants
<1>f. CASE UNCHANGED <<entries, counter, file, granted>>
  BY <1>f DEF RegistryInv, HoldsGrants, Load
<1>q. QED BY <1>a, <1>b, <1>c, <1>d, <1>e, <1>f, StepsThatMatter DEF AcceptMessage, FinishReset

LEMMA IncreaseNext ==
  RegistryInv /\ [RegistryNext]_registryVars => GrantsIncrease'
<1> SUFFICES ASSUME RegistryInv, [RegistryNext]_registryVars PROVE GrantsIncrease'
  OBVIOUS
<1>1. /\ GrantsIncrease
      /\ granted \in Seq([msg : Msgs, seq : Nat])
  BY DEF RegistryInv, RegistryTypeOK
<1>a. ASSUME NEW t \in Threads, AcceptMessage(t) PROVE GrantsIncrease'
  <2>1. granted' = Append(granted, [msg |-> arg[t], seq |-> decision[t].seq])
    BY <1>a DEF AcceptMessage
  <2>2. \A i \in DOMAIN granted : granted[i].seq < decision[t].seq
    BY <1>a DEF AcceptMessage, ReplaceFile, RegistryInv, WriteInProgress
  <2>3. QED BY <1>1, <2>1, <2>2 DEF GrantsIncrease
<1>b. CASE granted' = granted
  BY <1>1, <1>b DEF GrantsIncrease
<1>c. CASE granted' = << >>
  BY <1>c DEF GrantsIncrease
<1>d. ASSUME NEW t \in Threads, AssignSequence(t) PROVE granted' = granted
  BY <1>d, AssignAssigns DEF RegistryInv
<1>q. QED
  BY <1>a, <1>b, <1>c, <1>d, StepsThatMatter DEF ClearMemory, FinishReset, Restart, FileDamaged

-----------------------------------------------------------------------------
(* A write under way.  While one thread writes, no other is inside, so the  *)
(* memory, the .tmp file and the history stay as the writer left them.      *)

LEMMA WriteNext ==
  RegistryInv /\ [RegistryNext]_registryVars => WriteInProgress'
<1> DEFINE Tmp(s)   == pc[s] = "replacing" => tmp = Memory
           Carry(s) == pc[s] \in {"writing", "replacing"} /\ op[s] = "submit" =>
                          /\ decision[s].seq = counter /\ entries[arg[s]] = counter
                          /\ counter > 0
                          /\ \A i \in DOMAIN granted : granted[i].seq < counter
<1> SUFFICES ASSUME RegistryInv, [RegistryNext]_registryVars, NEW s \in Threads
             PROVE  Tmp(s)' /\ Carry(s)'
  BY DEF WriteInProgress
<1>1. Tmp(s) /\ Carry(s)
  BY DEF RegistryInv, WriteInProgress
<1>2. /\ pc \in [Threads -> {"idle", "waiting", "decided"} \cup CriticalSteps]
      /\ op \in [Threads -> {"none", "submit", "reset"}]
      /\ arg \in [Threads -> Msgs \cup {None}]
      /\ decision \in [Threads -> [seq : Nat, status : Statuses]]
      /\ counter \in Nat /\ entries \in [Msgs -> Nat]
      /\ granted \in Seq([msg : Msgs, seq : Nat])
  BY DEF RegistryInv, RegistryTypeOK
<1>3. ASSUME NEW t \in Threads, pc[t] \in CriticalSteps, s # t
      PROVE  pc[s] \notin {"writing", "replacing"}
  BY <1>3, OneInside DEF RegistryInv, CriticalSteps
<1> HIDE DEF Tmp, Carry
\* A step of another thread leaves s where it is.
<1>4. ASSUME NEW t \in Threads, pc[t] \in CriticalSteps, s # t,
             pc'[s] = pc[s]
      PROVE  Tmp(s)' /\ Carry(s)'
  BY <1>3, <1>4 DEF Tmp, Carry
\* A step that leaves what a write carries alone, and takes s to no such point.
<1>5. ASSUME pc'[s] \notin {"writing", "replacing"}
      PROVE  Tmp(s)' /\ Carry(s)'
  BY <1>5 DEF Tmp, Carry
<1>6. ASSUME UNCHANGED <<tmp, entries, counter, granted>>,
             pc'[s] = pc[s] /\ op'[s] = op[s] /\ arg'[s] = arg[s] /\ decision'[s] = decision[s]
      PROVE  Tmp(s)' /\ Carry(s)'
  BY <1>1, <1>6 DEF Tmp, Carry, Memory
<1> USE <1>2
<1>a. ASSUME NEW t \in Threads, NEW m \in Msgs, NEW age \in Ages, RejectStale(t, m, age)
      PROVE  Tmp(s)' /\ Carry(s)'
  <2>1. CASE s = t
    BY <1>a, <1>5, <2>1 DEF RejectStale, Decide
  <2>2. CASE s # t
    BY <1>a, <1>6, <2>2 DEF RejectStale, Decide
  <2>3. QED BY <2>1, <2>2
<1>b. ASSUME NEW t \in Threads, NEW m \in Msgs, NEW age \in Ages, Submit(t, m, age)
      PROVE  Tmp(s)' /\ Carry(s)'
  <2>1. CASE s = t
    BY <1>b, <1>5, <2>1 DEF Submit
  <2>2. CASE s # t
    BY <1>b, <1>6, <2>2 DEF Submit
  <2>3. QED BY <2>1, <2>2
<1>c. ASSUME NEW t \in Threads, Reset(t) PROVE Tmp(s)' /\ Carry(s)'
  <2>1. CASE s = t
    BY <1>c, <1>5, <2>1 DEF Reset
  <2>2. CASE s # t
    BY <1>c, <1>6, <2>2 DEF Reset
  <2>3. QED BY <2>1, <2>2
<1>d. ASSUME NEW t \in Threads, Acquire(t) PROVE Tmp(s)' /\ Carry(s)'
  <2>1. CASE s = t
    BY <1>d, <1>5, <2>1 DEF Acquire
  <2>2. CASE s # t
    BY <1>d, <1>6, <2>2 DEF Acquire
  <2>3. QED BY <2>1, <2>2
<1>m. ASSUME NEW t \in Threads, Return(t) PROVE Tmp(s)' /\ Carry(s)'
  <2>1. CASE s = t
    BY <1>m, <1>5, <2>1 DEF Return
  <2>2. CASE s # t
    BY <1>m, <1>6, <2>2 DEF Return
  <2>3. QED BY <2>1, <2>2
<1>e. ASSUME NEW t \in Threads, RejectDuplicate(t) PROVE Tmp(s)' /\ Carry(s)'
  <2>1. CASE s = t
    BY <1>e, <1>5, <2>1 DEF RejectDuplicate, Leave, Decide
  <2>2. CASE s # t
    BY <1>e, <1>4, <2>2 DEF RejectDuplicate, Leave, Decide, CriticalSteps
  <2>3. QED BY <2>1, <2>2
<1>f. ASSUME NEW t \in Threads, NotADuplicate(t) PROVE Tmp(s)' /\ Carry(s)'
  <2>1. CASE s = t
    BY <1>f, <1>5, <2>1 DEF NotADuplicate
  <2>2. CASE s # t
    BY <1>f, <1>4, <2>2 DEF NotADuplicate, CriticalSteps
  <2>3. QED BY <2>1, <2>2
<1>j. ASSUME NEW t \in Threads, AcceptMessage(t) PROVE Tmp(s)' /\ Carry(s)'
  <2>1. CASE s = t
    BY <1>j, <1>5, <2>1 DEF AcceptMessage, ReplaceFile, Leave, Decide
  <2>2. CASE s # t
    BY <1>j, <1>4, <2>2 DEF AcceptMessage, ReplaceFile, Leave, Decide, CriticalSteps
  <2>3. QED BY <2>1, <2>2
<1>k. ASSUME NEW t \in Threads, FinishReset(t) PROVE Tmp(s)' /\ Carry(s)'
  <2>1. CASE s = t
    BY <1>k, <1>5, <2>1 DEF FinishReset, ReplaceFile, Leave, Decide
  <2>2. CASE s # t
    BY <1>k, <1>4, <2>2 DEF FinishReset, ReplaceFile, Leave, Decide, CriticalSteps
  <2>3. QED BY <2>1, <2>2
<1>l. ASSUME NEW t \in Threads, PersistFails(t) PROVE Tmp(s)' /\ Carry(s)'
  <2>1. CASE s = t
    BY <1>l, <1>5, <2>1 DEF PersistFails, Leave, Decide
  <2>2. CASE s # t
    BY <1>l, <1>4, <2>2 DEF PersistFails, Leave, Decide, CriticalSteps
  <2>3. QED BY <2>1, <2>2
<1>g. ASSUME NEW t \in Threads, AssignSequence(t) PROVE Tmp(s)' /\ Carry(s)'
  <2>1. /\ pc[t] = "assigning" /\ pc' = [pc EXCEPT ![t] = "writing"]
        /\ counter' = counter + 1
        /\ entries' = [entries EXCEPT ![arg[t]] = counter + 1]
        /\ decision' = [decision EXCEPT ![t] = [seq |-> counter + 1, status |-> "PENDING"]]
        /\ UNCHANGED <<op, arg, granted>>
    BY <1>g, AssignAssigns DEF RegistryInv
  <2>2. CASE s = t
    <3>1. arg[t] \in Msgs
      BY <2>1 DEF RegistryInv, CallsCarryMessages
    <3>2. decision'[t].seq = counter' /\ entries'[arg'[t]] = counter' /\ counter' > 0
      BY <2>1, <3>1
    <3>3. \A i \in DOMAIN granted' : granted'[i].seq < counter'
      BY <2>1 DEF RegistryInv, HoldsGrants, Memory
    <3>4. pc'[t] = "writing"
      BY <2>1
    <3>5. QED BY <2>2, <3>2, <3>3, <3>4 DEF Tmp, Carry
  <2>3. CASE s # t
    BY <1>4, <2>1, <2>3 DEF CriticalSteps
  <2>4. QED BY <2>2, <2>3
<1>h. ASSUME NEW t \in Threads, ClearMemory(t) PROVE Tmp(s)' /\ Carry(s)'
  <2>1. CASE s = t
    BY <1>h, <2>1 DEF ClearMemory, Tmp, Carry
  <2>2. CASE s # t
    BY <1>h, <1>4, <2>2 DEF ClearMemory, CriticalSteps
  <2>3. QED BY <2>1, <2>2
<1>i. ASSUME NEW t \in Threads, WriteTmp(t) PROVE Tmp(s)' /\ Carry(s)'
  <2>1. CASE s = t
    BY <1>1, <1>i, <2>1 DEF WriteTmp, Tmp, Carry, Memory
  <2>2. CASE s # t
    BY <1>i, <1>4, <2>2 DEF WriteTmp, CriticalSteps
  <2>3. QED BY <2>1, <2>2
<1>n. CASE Restart
  BY <1>n, <1>5 DEF Restart
<1>o. CASE FileDamaged
  BY <1>1, <1>o DEF FileDamaged, Tmp, Carry, Memory
<1>p. CASE UNCHANGED registryVars
  BY <1>p, <1>6 DEF registryVars
<1>q. QED
  BY <1>a, <1>b, <1>c, <1>d, <1>e, <1>f, <1>g, <1>h, <1>i, <1>j, <1>k, <1>l, <1>m, <1>n, <1>o,
     <1>p DEF RegistryInv, RegistryNext, BeginCall, RunCall

-----------------------------------------------------------------------------
(* Numbering.                                                               *)

LEMMA EmptyDense == Dense(Empty)
  BY DEF Dense, Empty

\* A number above all others goes to a message that had none.
LEMMA AssignDense ==
  ASSUME RegistryTypeOK, CallsCarryMessages, Dense(Memory), NEW t \in Threads, AssignSequence(t)
  PROVE  Dense(Memory')
<1>1. /\ counter' = counter + 1
      /\ entries' = [entries EXCEPT ![arg[t]] = counter + 1]
      /\ pc[t] = "assigning"
  BY AssignAssigns
<1>2. entries[arg[t]] = 0 /\ arg[t] \in Msgs
  BY <1>1 DEF CallsCarryMessages, IsKnown
<1>3. /\ counter \in Nat /\ entries \in [Msgs -> Nat]
      /\ \A m \in Msgs : entries[m] <= counter
      /\ \A n \in 1..counter : \E m \in Msgs : entries[m] = n
      /\ \A m, n \in Msgs : entries[m] = entries[n] /\ entries[m] # 0 => m = n
  BY DEF RegistryTypeOK, Dense, Memory
<1>4. \A m \in Msgs : entries'[m] <= counter'
  BY <1>1, <1>2, <1>3
<1>5. ASSUME NEW n \in 1..counter' PROVE \E m \in Msgs : entries'[m] = n
  <2>1. CASE n = counter + 1
    <3>1. entries'[arg[t]] = n
      BY <1>1, <1>2, <1>3, <2>1
    <3>2. QED BY <1>2, <3>1
  <2>2. CASE n # counter + 1
    <3>1. n \in 1..counter
      BY <1>1, <1>3, <2>2
    <3>2. PICK m \in Msgs : entries[m] = n
      BY <1>3, <3>1
    <3>3. m # arg[t]
      BY <1>2, <1>3, <3>1, <3>2
    <3>4. QED BY <1>1, <1>3, <3>2, <3>3
  <2>3. QED BY <2>1, <2>2
<1>6. \A m, n \in Msgs : entries'[m] = entries'[n] /\ entries'[m] # 0 => m = n
  BY <1>1, <1>2, <1>3
<1>7. QED BY <1>4, <1>5, <1>6 DEF Dense, Memory

LEMMA DenseNext ==
  RegistryInv /\ [RegistryNext]_registryVars => NumberingDense'
<1> SUFFICES ASSUME RegistryInv, [RegistryNext]_registryVars
             PROVE  Dense(Memory') /\ Dense(Load(file'))
  BY DEF NumberingDense, Dense, Memory, Load
<1>1. Dense(Memory) /\ Dense(Load(file))
  BY DEF RegistryInv, NumberingDense
<1>a. ASSUME NEW t \in Threads, AssignSequence(t) PROVE Dense(Memory') /\ Dense(Load(file'))
  <2>1. file' = file
    BY <1>a, AssignAssigns DEF RegistryInv
  <2>2. QED BY <1>1, <1>a, <2>1, AssignDense DEF RegistryInv
<1>b. ASSUME NEW t \in Threads, ClearMemory(t) PROVE Dense(Memory') /\ Dense(Load(file'))
  <2>1. Memory' = Empty /\ file' = file
    BY <1>b DEF ClearMemory, Memory, Empty
  <2>2. QED BY <1>1, <2>1, EmptyDense
<1>c. ASSUME NEW t \in Threads, ReplaceFile(t) PROVE Dense(Memory') /\ Dense(Load(file'))
  <2>1. Memory' = Memory
    BY <1>c DEF ReplaceFile, Memory
  <2>2. QED BY <1>1, <1>c, <2>1, ReplaceLoads DEF RegistryInv
<1>d. CASE Restart
  BY <1>1, <1>d, RestartLoads DEF RegistryInv
<1>e. CASE FileDamaged
  <2>1. Memory' = Memory /\ Load(file') = Empty
    BY <1>e DEF FileDamaged, Memory, Load
  <2>2. QED BY <1>1, <2>1, EmptyDense
<1>f. CASE UNCHANGED <<entries, counter, file, granted>>
  BY <1>1, <1>f DEF Memory
<1>q. QED BY <1>a, <1>b, <1>c, <1>d, <1>e, <1>f, StepsThatMatter DEF AcceptMessage, FinishReset

-----------------------------------------------------------------------------
(* The invariant, and what it gives.                                        *)

LEMMA InvInit == RegistryInit => RegistryInv
<1> SUFFICES ASSUME RegistryInit PROVE RegistryInv
  OBVIOUS
<1>1. RegistryTypeOK
  BY TypeInit
<1>2. LockDiscipline /\ CallsCarryMessages /\ WriteInProgress
  BY DEF RegistryInit, LockDiscipline, CallsCarryMessages, WriteInProgress, CriticalSteps
<1>3. HoldsGrants(Memory) /\ HoldsGrants(Load(file)) /\ GrantsIncrease
  BY DEF RegistryInit, HoldsGrants, GrantsIncrease
<1>4. Memory = Empty /\ Load(file) = Empty
  BY DEF RegistryInit, Memory, Empty, Load
<1>5. NumberingDense
  BY <1>4, EmptyDense DEF NumberingDense
<1>6. QED BY <1>1, <1>2, <1>3, <1>5 DEF RegistryInv

LEMMA InvNext == RegistryInv /\ [RegistryNext]_registryVars => RegistryInv'
  BY TypeNext, LockNext, CallsNext, MemoryHoldsNext, FileHoldsNext, IncreaseNext, WriteNext,
     DenseNext DEF RegistryInv

\* Every reachable state of the registry satisfies the inductive invariant.
THEOREM RegistryInvariant == RegistrySpec => []RegistryInv
  BY InvInit, InvNext, PTL DEF RegistrySpec

\* Type correctness, for any threads and messages.
THEOREM RegistryTypeCorrect == RegistrySpec => []RegistryTypeOK
<1>1. RegistryInv => RegistryTypeOK
  BY DEF RegistryInv
<1>2. QED BY RegistryInvariant, <1>1, PTL

\* No message is accepted twice and numbers only grow, whatever races, failed writes and
\* restarts submit() (replay_registry.py:84-143) goes through.
THEOREM AcceptsOnce == RegistrySpec => []AcceptedOnceInOrder
<1>1. RegistryInv => AcceptedOnceInOrder
  <2> SUFFICES ASSUME RegistryInv, NEW i \in DOMAIN granted, NEW j \in DOMAIN granted, i < j
               PROVE  granted[i].msg # granted[j].msg /\ granted[i].seq < granted[j].seq
    BY DEF AcceptedOnceInOrder
  <2>1. granted[i].seq < granted[j].seq /\ granted[i].seq \in Nat
    BY DEF RegistryInv, GrantsIncrease, HoldsGrants, Memory, RegistryTypeOK
  <2>2. /\ entries[granted[i].msg] = granted[i].seq
        /\ entries[granted[j].msg] = granted[j].seq
    BY DEF RegistryInv, HoldsGrants, Memory
  <2>3. QED BY <2>1, <2>2
<1>2. QED BY RegistryInvariant, <1>1, PTL

\* A VALID decision is on disk when it is answered: _persist (lines 187-199) precedes it, and
\* nothing later takes it away.
THEOREM AcceptanceSurvives == RegistrySpec => []AcceptedIsDurable
<1>1. RegistryInv => AcceptedIsDurable
  <2> SUFFICES ASSUME RegistryInv, NEW i \in DOMAIN granted
               PROVE  /\ Load(file).entries[granted[i].msg] = granted[i].seq
                      /\ Load(file).counter >= granted[i].seq
    BY DEF AcceptedIsDurable
  <2>1. Load(file).counter \in Nat
    BY LoadType DEF RegistryInv, RegistryTypeOK, Snapshot
  <2>2. QED BY <2>1 DEF RegistryInv, HoldsGrants
<1>2. QED BY RegistryInvariant, <1>1, PTL

\* The numbering has neither gap nor repetition, in memory and in the file.
THEOREM NumbersAreDense == RegistrySpec => []NumberingDense
<1>1. RegistryInv => NumberingDense
  BY DEF RegistryInv
<1>2. QED BY RegistryInvariant, <1>1, PTL

\* The registry implements the accept-once ledger.
THEOREM ImplementsLedger == RegistrySpec => KeepsLedger
<1>1. RegistryInit => Ledger!LedgerInit
  BY DEF RegistryInit, Ledger!LedgerInit
<1>2. RegistryInv /\ [RegistryNext]_registryVars => [Ledger!LedgerNext]_granted
  <2> SUFFICES ASSUME RegistryInv, [RegistryNext]_registryVars
               PROVE  Ledger!LedgerNext \/ UNCHANGED granted
    OBVIOUS
  <2>a. ASSUME NEW t \in Threads, AcceptMessage(t) PROVE Ledger!Accept
    <3> DEFINE new == [msg |-> arg[t], seq |-> decision[t].seq]
    <3>1. /\ granted' = Append(granted, new)
          /\ granted \in Seq([msg : Msgs, seq : Nat])
      BY <2>a DEF AcceptMessage, RegistryInv, RegistryTypeOK
    <3>2. /\ decision[t].seq = counter /\ entries[arg[t]] = counter /\ counter > 0
          /\ \A i \in DOMAIN granted : granted[i].seq < counter
          /\ arg[t] \in Msgs /\ counter \in Nat
      BY <2>a DEF AcceptMessage, ReplaceFile, RegistryInv, WriteInProgress, RegistryTypeOK,
                  CallsCarryMessages
    <3>3. \A i \in DOMAIN granted : granted[i].msg # arg[t] /\ granted[i].seq \in Nat
      BY <3>2 DEF RegistryInv, HoldsGrants, Memory
    <3>4. new \in Ledger!Acceptance
      BY <3>2 DEF Ledger!Acceptance
    <3>5. granted' # << >> /\ granted'[Len(granted')] = new
      BY <3>1
    <3>6. QED BY <3>1, <3>2, <3>3, <3>4, <3>5 DEF Ledger!Accept
  <2>b. CASE granted' = << >>
    BY <2>b DEF Ledger!LedgerNext, Ledger!GiveUp
  <2>c. ASSUME NEW t \in Threads, AssignSequence(t) PROVE granted' = granted
    BY <2>c, AssignAssigns DEF RegistryInv
  <2>q. QED
    BY <2>a, <2>b, <2>c, StepsThatMatter
       DEF Ledger!LedgerNext, ClearMemory, FinishReset, Restart, FileDamaged
<1>3. QED
  BY <1>1, <1>2, RegistryInvariant, PTL DEF RegistrySpec, KeepsLedger, Ledger!LedgerSpec

-----------------------------------------------------------------------------
(* The authority: its types.                                               *)

Verdict == [seq : Nat, status : Statuses \cup {"NONE"}]
Record  == [msg : Msgs, seq : Nat]

\* Insert keeps a dict of records.
LEMMA InsertType ==
  ASSUME NEW dict \in Seq(Record), NEW r \in Record
  PROVE  Insert(dict, r) \in Seq(Record)
<1>1. CASE \E i \in DOMAIN dict : dict[i].msg = r.msg
  <2> DEFINE d == [i \in DOMAIN dict |-> IF dict[i].msg = r.msg THEN r ELSE dict[i]]
  <2>1. DOMAIN dict = 1..Len(dict) /\ Len(dict) \in Nat
    OBVIOUS
  <2>2. d \in [1..Len(dict) -> Record]
    BY <2>1
  <2>3. d \in Seq(Record)
    BY <2>1, <2>2
  <2> QED  BY <1>1, <2>3 DEF Insert
<1>2. CASE ~ \E i \in DOMAIN dict : dict[i].msg = r.msg
  BY <1>2 DEF Insert
<1> QED  BY <1>1, <1>2

\* What a step of the registry leaves of the authority's own variables.
LEMMA InRegistryType ==
  ASSUME AuthorityTypeOK, RegistryTypeOK', NEW t \in Threads, InRegistry(t)
  PROVE  AuthorityTypeOK'
<1>1. issued' \in Seq(Record)
  <2>1. issued \in Seq(Record) /\ granted \in Seq(Record) /\ granted' \in Seq(Record)
    BY DEF AuthorityTypeOK, RegistryTypeOK, Record
  <2>2. CASE wiped'
    BY <2>2 DEF InRegistry
  <2>3. CASE ~ wiped' /\ Len(granted') > Len(granted)
    <3>1. issued' = Append(issued, Last(granted'))
      BY <2>3 DEF InRegistry
    <3>2. Last(granted') \in Record
      BY <2>1, <2>3 DEF Last
    <3> QED  BY <2>1, <3>1, <3>2
  <2>4. CASE ~ wiped' /\ ~ (Len(granted') > Len(granted))
    BY <2>1, <2>4 DEF InRegistry
  <2> QED  BY <2>2, <2>3, <2>4
<1>2. wiped' \in BOOLEAN
  BY DEF InRegistry, AuthorityTypeOK
<1> QED  BY <1>1, <1>2 DEF InRegistry, AuthorityTypeOK, dictVars, Record

LEMMA StoreVerdictType ==
  ASSUME AuthorityTypeOK, NEW t \in Threads, arg[t] \in Msgs, StoreVerdict(t)
  PROVE  AuthorityTypeOK'
<1>1. decision[t] \in Verdict
  BY DEF AuthorityTypeOK, RegistryTypeOK, Verdict
<1>2. RegistryTypeOK'
  BY DEF StoreVerdict, AuthorityTypeOK, RegistryTypeOK, registryVars
<1> QED  BY <1>1, <1>2 DEF StoreVerdict, AuthorityTypeOK, Verdict

LEMMA StoreLineageType ==
  ASSUME AuthorityTypeOK, RegistryTypeOK', NEW t \in Threads, arg[t] \in Msgs, StoreLineage(t)
  PROVE  AuthorityTypeOK'
<1>1. [msg |-> arg[t], seq |-> decision[t].seq] \in Record
  BY DEF AuthorityTypeOK, RegistryTypeOK, Record
<1>2. lineage' \in Seq(Record)
  BY <1>1, InsertType DEF StoreLineage, AuthorityTypeOK, Record
<1> QED  BY <1>2 DEF StoreLineage, AuthorityTypeOK, Record

LEMMA QuietAuthorityType ==
  ASSUME AuthorityTypeOK, RegistryTypeOK', UNCHANGED authorityOwnVars
  PROVE  AuthorityTypeOK'
  BY DEF AuthorityTypeOK, authorityOwnVars, dictVars

-----------------------------------------------------------------------------
(* The authority's account.  What a thread was answered and has not yet    *)
(* written, and what the registry accepted: either in the lineage or still *)
(* in the hands of the thread that submitted it.                           *)

Valid(t) == op[t] = "submit" /\ pc[t] = "decided" /\ decision[t].status = "VALID"

RecordOf(t) == [msg |-> arg[t], seq |-> decision[t].seq]

ThreadOK(t) ==
    /\ pc[t] = "decided" /\ op[t] = "submit" /\ decision[t].status \in {"VALID", "DUPLICATE"} =>
          decision[t].seq = entries[arg[t]] /\ entries[arg[t]] # 0
    /\ Valid(t) => RecordOf(t) \in Range(issued)
    /\ stage[t] = "stored" => verdicts[arg[t]] # NoVerdict
    /\ pc[t] \in {"writing", "replacing"} =>
          op[t] = "submit" /\ \A i \in DOMAIN issued : issued[i].seq < counter

StageOK(t) == stage[t] = "stored" => Answered(t) /\ op[t] = "submit"

IssuedOK ==
    /\ \A i, j \in DOMAIN issued : i < j => issued[i].seq < issued[j].seq
    /\ \A i \in DOMAIN issued : issued[i].seq \in 1..counter /\ entries[issued[i].msg] = issued[i].seq

VerdictsOK ==
    \A m \in Msgs : verdicts[m].status \in {"VALID", "DUPLICATE"} =>
        verdicts[m].seq = entries[m] /\ entries[m] # 0

LineageOK ==
    /\ Range(lineage) \subseteq Range(issued)
    /\ \A i, j \in DOMAIN lineage : lineage[i].msg = lineage[j].msg => i = j
    /\ \A i \in DOMAIN lineage : verdicts[lineage[i].msg] # NoVerdict
    /\ \A r \in Range(issued) : r \in Range(lineage) \/ \E t \in Threads : Valid(t) /\ RecordOf(t) = r

AccountInv ==
    /\ \A t \in Threads : StageOK(t)
    /\ IsFiniteSet(Submitted)
    /\ ~ wiped => (\A t \in Threads : ThreadOK(t)) /\ IssuedOK /\ VerdictsOK /\ LineageOK

AuthorityInv == RegistryInv /\ AuthorityTypeOK /\ AccountInv

SameThread(s) == pc'[s] = pc[s] /\ op'[s] = op[s] /\ arg'[s] = arg[s] /\ decision'[s] = decision[s]

\* A step of one thread leaves the others where they are.
LEMMA OthersStay ==
  ASSUME RegistryTypeOK, NEW t \in Threads, NEW s \in Threads, s # t,
         \/ RunCall(t) \/ Return(t) \/ Reset(t) \/ BeginCall(t)
         \/ \E m \in Msgs : Submit(t, m, 0)
  PROVE  pc'[s] = pc[s] /\ op'[s] = op[s] /\ arg'[s] = arg[s] /\ decision'[s] = decision[s]
<1> USE DEF RegistryTypeOK
<1>1. CASE Return(t)
  BY <1>1 DEF Return
<1>2. CASE Reset(t)
  BY <1>2 DEF Reset
<1>3. CASE \E m \in Msgs : Submit(t, m, 0)
  BY <1>3 DEF Submit
<1>4. CASE RunCall(t)
  <2>1. CASE Acquire(t) \/ RejectDuplicate(t) \/ NotADuplicate(t) \/ ClearMemory(t)
    BY <2>1 DEF Acquire, RejectDuplicate, NotADuplicate, ClearMemory, Leave, Decide
  <2>2. CASE AssignSequence(t)
    BY <2>2, AssignAssigns
  <2>3. CASE WriteTmp(t) \/ AcceptMessage(t) \/ FinishReset(t) \/ PersistFails(t)
    BY <2>3 DEF WriteTmp, AcceptMessage, FinishReset, ReplaceFile, PersistFails, Leave, Decide
  <2> QED  BY <1>4, <2>1, <2>2, <2>3 DEF RunCall
<1>5. CASE BeginCall(t)
  BY <1>5 DEF BeginCall, Reset, Submit, RejectStale, Decide
<1> QED  BY <1>1, <1>2, <1>3, <1>4, <1>5

\* A call in the registry keeps its operation and its argument, and does not return.
LEMMA CallRuns ==
  ASSUME RegistryTypeOK, NEW t \in Threads, RunCall(t)
  PROVE  /\ op' = op /\ arg' = arg
         /\ pc[t] \notin {"idle", "decided"} /\ pc'[t] # "idle"
<1> USE DEF RegistryTypeOK, CriticalSteps
<1>1. CASE Acquire(t) \/ RejectDuplicate(t) \/ NotADuplicate(t) \/ ClearMemory(t)
  BY <1>1 DEF Acquire, RejectDuplicate, NotADuplicate, ClearMemory, Leave, Decide
<1>2. CASE AssignSequence(t)
  BY <1>2, AssignAssigns
<1>3. CASE WriteTmp(t) \/ AcceptMessage(t) \/ FinishReset(t) \/ PersistFails(t)
  BY <1>3 DEF WriteTmp, AcceptMessage, FinishReset, ReplaceFile, PersistFails, Leave, Decide
<1> QED  BY <1>1, <1>2, <1>3 DEF RunCall

\* Every step of the authority is one of the registry, or none.
LEMMA AuthorityRegistryStep ==
  ASSUME [AuthorityNext]_authorityVars
  PROVE  [RegistryNext]_registryVars
<1>1. ASSUME NEW t \in Threads, BeginCall(t) \/ InRegistry(t) PROVE RegistryNext
  BY <1>1 DEF InRegistry, RegistryNext
<1>2. ASSUME NEW t \in Threads, StoreVerdict(t) PROVE UNCHANGED registryVars
  BY <1>2 DEF StoreVerdict
<1>3. ASSUME NEW t \in Threads, StoreLineage(t) \/ PropagateException(t) \/ RegistryEmptied(t)
      PROVE  RegistryNext
  BY <1>3 DEF StoreLineage, PropagateException, RegistryEmptied, RegistryNext
<1>4. CASE AuthorityRestart \/ FileDamaged
  BY <1>4 DEF AuthorityRestart, RegistryNext
<1>5. CASE UNCHANGED authorityVars
  BY <1>5 DEF authorityVars
<1> QED  BY <1>1, <1>2, <1>3, <1>4, <1>5 DEF AuthorityNext, AuthorityStep

LEMMA AuthorityTypes ==
  ASSUME AuthorityInv, RegistryTypeOK', [AuthorityNext]_authorityVars
  PROVE  AuthorityTypeOK'
<1>1. AuthorityTypeOK
  BY DEF AuthorityInv
<1>2. \A t \in Threads : pc[t] # "idle" /\ op[t] = "submit" => arg[t] \in Msgs
  BY DEF AuthorityInv, RegistryInv, CallsCarryMessages
<1>3. ASSUME NEW t \in Threads, InRegistry(t) PROVE AuthorityTypeOK'
  BY <1>1, <1>3, InRegistryType
<1>4. ASSUME NEW t \in Threads, StoreVerdict(t) PROVE AuthorityTypeOK'
  BY <1>1, <1>2, <1>4, StoreVerdictType DEF StoreVerdict, Answered
<1>5. ASSUME NEW t \in Threads, StoreLineage(t) PROVE AuthorityTypeOK'
  BY <1>1, <1>2, <1>5, StoreLineageType DEF StoreLineage, Answered
<1>6. CASE UNCHANGED authorityOwnVars
  BY <1>1, <1>6, QuietAuthorityType
<1>7. CASE AuthorityRestart
  <2>1. NoVerdict \in Verdict /\ << >> \in Seq(Record)
    BY DEF NoVerdict, Verdict, Statuses
  <2>2. verdicts' \in [Msgs -> Verdict] /\ stage' \in [Threads -> {"none", "stored"}]
    BY <1>7, <2>1 DEF AuthorityRestart
  <2> QED  BY <1>7, <2>1, <2>2 DEF AuthorityRestart, AuthorityTypeOK, Verdict, Record
<1> QED
  BY <1>3, <1>4, <1>5, <1>6, <1>7
     DEF AuthorityNext, AuthorityStep, PropagateException, RegistryEmptied, authorityVars

\* A step by which thread t moves on with nothing to write: the registry's memory and the
\* authority's dicts stay, and the other threads where they are.
LEMMA ThreadMoves ==
  ASSUME AuthorityInv, NEW t \in Threads, \A s \in Threads \ {t} : SameThread(s),
         ~ Valid(t), stage[t] = "none",
         UNCHANGED <<entries, counter, issued, verdicts, lineage, stage>>, ~ wiped' => ~ wiped,
         ~ wiped' => ThreadOK(t)'
  PROVE  AccountInv'
<1> USE DEF AccountInv
<1>1. ASSUME NEW s \in Threads PROVE StageOK(s)'
  <2>1. CASE s = t
    BY <2>1 DEF StageOK
  <2>2. CASE s # t
    BY <2>2 DEF AuthorityInv, StageOK, SameThread, Answered
  <2> QED  BY <2>1, <2>2
<1>2. IsFiniteSet(Submitted')
  BY DEF AuthorityInv, Submitted
<1>3. ASSUME ~ wiped'
      PROVE  (\A s \in Threads : ThreadOK(s)') /\ IssuedOK' /\ VerdictsOK' /\ LineageOK'
  <2>1. (\A s \in Threads : ThreadOK(s)) /\ IssuedOK /\ VerdictsOK /\ LineageOK
    BY <1>3 DEF AuthorityInv
  <2>2. ASSUME NEW s \in Threads, s # t PROVE ThreadOK(s)'
    BY <2>1, <2>2 DEF ThreadOK, SameThread, Valid, RecordOf
  <2>3. IssuedOK' /\ VerdictsOK'
    BY <2>1 DEF IssuedOK, VerdictsOK
  <2>4. LineageOK'
    <3>1. ASSUME NEW r \in Range(issued), NEW s \in Threads, Valid(s), RecordOf(s) = r
          PROVE  Valid(s)' /\ RecordOf(s)' = r
      BY <3>1 DEF SameThread, Valid, RecordOf
    <3> QED  BY <2>1, <3>1 DEF LineageOK
  <2> QED  BY <1>3, <2>2, <2>3, <2>4
<1> QED  BY <1>1, <1>2, <1>3

\* The parts of the invariant that the steps below use.
LEMMA Parts ==
  ASSUME AuthorityInv
  PROVE  /\ RegistryTypeOK /\ AuthorityTypeOK /\ LockDiscipline /\ CallsCarryMessages
         /\ WriteInProgress
         /\ \A t \in Threads : StageOK(t)
         /\ IsFiniteSet(Submitted)
         /\ ~ wiped => (\A t \in Threads : ThreadOK(t)) /\ IssuedOK /\ VerdictsOK /\ LineageOK
  BY DEF AuthorityInv, RegistryInv, AccountInv

\* The registry's steps that neither number a message nor accept one nor clear the memory.
LEMMA QuietCallKeeps ==
  ASSUME AuthorityInv, NEW t \in Threads, InRegistry(t),
         \/ Acquire(t) \/ RejectDuplicate(t) \/ NotADuplicate(t) \/ WriteTmp(t)
         \/ FinishReset(t) \/ PersistFails(t)
  PROVE  AccountInv'
<1>1. RunCall(t) /\ UNCHANGED <<entries, counter, granted, verdicts, lineage, stage>>
  BY DEF InRegistry, dictVars, RunCall, Acquire, RejectDuplicate, NotADuplicate, WriteTmp,
         FinishReset, ReplaceFile, PersistFails
<1>2. \A s \in Threads \ {t} : SameThread(s)
  BY <1>1, Parts, OthersStay DEF SameThread
<1>3. op'[t] = op[t] /\ arg'[t] = arg[t] /\ pc[t] \notin {"idle", "decided"}
  BY <1>1, Parts, CallRuns
<1>4. ~ Valid(t) /\ stage[t] = "none"
  BY <1>3, Parts DEF Valid, StageOK, Answered, AuthorityTypeOK
<1>5. ~ wiped' => ~ wiped /\ issued' = issued
  <2>1. Len(granted) \in Nat
    BY Parts DEF RegistryTypeOK
  <2>2. ~ (Len(granted') > Len(granted))
    BY <1>1, <2>1
  <2>3. ~ wiped' => ~ wiped
    BY Zenon DEF InRegistry
  <2> QED  BY <2>2, <2>3 DEF InRegistry
<1>6. ASSUME ~ wiped' PROVE ThreadOK(t)'
  <2>1. ThreadOK(t) /\ IssuedOK /\ stage'[t] = "none"
    BY <1>1, <1>4, <1>5, <1>6, Parts
  <2>2. CASE Acquire(t) \/ NotADuplicate(t) \/ WriteTmp(t)
    <3>1. pc'[t] \in {"locked", "assigning", "replacing"} /\ (pc'[t] = "replacing" => pc[t] = "writing")
      BY <2>2, Parts DEF Acquire, NotADuplicate, WriteTmp, RegistryTypeOK
    <3> QED  BY <1>1, <1>3, <1>5, <1>6, <2>1, <3>1 DEF ThreadOK, Valid
  <2>3. CASE RejectDuplicate(t)
    <3>1. pc'[t] = "decided" /\ decision'[t] = [seq |-> entries[arg[t]], status |-> "DUPLICATE"]
      BY <2>3, Parts DEF RejectDuplicate, Leave, Decide, RegistryTypeOK
    <3>2. entries[arg[t]] # 0
      BY <2>3 DEF RejectDuplicate, IsKnown
    <3> QED  BY <1>1, <1>3, <2>1, <3>1, <3>2 DEF ThreadOK, Valid
  <2>4. CASE FinishReset(t) \/ PersistFails(t)
    <3>1. /\ pc'[t] = "decided"
          /\ decision'[t].status \in {"CLEARED", "RAISED"}
      BY <2>4, Parts DEF FinishReset, ReplaceFile, PersistFails, Leave, Decide, RegistryTypeOK
    <3> QED  BY <2>1, <3>1 DEF ThreadOK, Valid
  <2> QED  BY <2>2, <2>3, <2>4
<1>7. CASE wiped'
  <2>1. ASSUME NEW s \in Threads PROVE StageOK(s)'
    BY <1>1, <1>2, <1>4, Parts DEF StageOK, SameThread, Answered
  <2>2. Submitted' = Submitted
    BY <1>1 DEF Submitted
  <2> QED  BY <1>7, <2>1, <2>2, Parts DEF AccountInv
<1>8. CASE ~ wiped'
  BY <1>1, <1>2, <1>4, <1>5, <1>6, <1>8, ThreadMoves
<1> QED  BY <1>7, <1>8

LEMMA BeginCallKeeps ==
  ASSUME AuthorityInv, NEW t \in Threads, BeginCall(t), UNCHANGED authorityOwnVars
  PROVE  AccountInv'
<1>1. UNCHANGED <<entries, counter, issued, verdicts, lineage, stage, wiped>>
  BY DEF BeginCall, Reset, Submit, RejectStale, authorityOwnVars, dictVars
<1>2. \A s \in Threads \ {t} : SameThread(s)
  BY Parts, OthersStay DEF SameThread
<1>3. pc[t] = "idle"
  BY DEF BeginCall, Reset, Submit, RejectStale
<1>4. ~ Valid(t) /\ stage[t] = "none"
  BY <1>3, Parts DEF Valid, StageOK, Answered, AuthorityTypeOK
<1>5. pc'[t] = "waiting" \/ (pc'[t] = "decided" /\ decision'[t].status = "STALE")
  <2>1. pc \in [Threads -> {"idle", "waiting", "decided"} \cup CriticalSteps]
        /\ decision \in [Threads -> [seq : Nat, status : Statuses]]
    BY Parts DEF RegistryTypeOK
  <2>2. ASSUME NEW m \in Msgs, NEW age \in Ages, RejectStale(t, m, age)
        PROVE  pc'[t] = "decided" /\ decision'[t].status = "STALE"
    BY <2>1, <2>2 DEF RejectStale, Decide
  <2>3. ASSUME Reset(t) \/ \E m \in Msgs, age \in Ages : Submit(t, m, age) PROVE pc'[t] = "waiting"
    BY <2>1, <2>3 DEF Reset, Submit
  <2> QED  BY <2>2, <2>3 DEF BeginCall
<1>6. ThreadOK(t)'
  BY <1>1, <1>4, <1>5 DEF ThreadOK, Valid
<1> QED  BY <1>1, <1>2, <1>4, <1>6, ThreadMoves

\* A call that ends with nothing to write: an exception, or a reset of the registry alone.
LEMMA QuietReturnKeeps ==
  ASSUME AuthorityInv, NEW t \in Threads, PropagateException(t) \/ RegistryEmptied(t)
  PROVE  AccountInv'
<1>1. Return(t) /\ UNCHANGED <<entries, counter, issued, verdicts, lineage, stage, wiped>>
  BY DEF PropagateException, RegistryEmptied, Return, authorityOwnVars, dictVars
<1>2. \A s \in Threads \ {t} : SameThread(s)
  BY <1>1, Parts, OthersStay DEF SameThread
<1>3. ~ Valid(t) /\ stage[t] = "none"
  BY Parts DEF PropagateException, RegistryEmptied, Valid, StageOK, Answered, AuthorityTypeOK
<1>4. pc'[t] = "idle"
  BY <1>1, Parts DEF Return, RegistryTypeOK
<1>5. ThreadOK(t)'
  BY <1>1, <1>3, <1>4 DEF ThreadOK, Valid
<1> QED  BY <1>1, <1>2, <1>3, <1>5, ThreadMoves

\* From here on until a restart the account promises nothing.
LEMMA ClearMemoryKeeps ==
  ASSUME AuthorityInv, NEW t \in Threads, InRegistry(t), ClearMemory(t)
  PROVE  AccountInv'
<1>1. RunCall(t) /\ pc[t] = "locked" /\ UNCHANGED <<verdicts, stage>>
  BY DEF InRegistry, dictVars, RunCall, ClearMemory
<1>2. wiped'
  BY DEF InRegistry, ClearMemory
<1>3. \A s \in Threads \ {t} : SameThread(s)
  BY <1>1, Parts, OthersStay DEF SameThread
<1>4. ASSUME NEW s \in Threads PROVE StageOK(s)'
  BY <1>1, <1>3, Parts DEF StageOK, SameThread, Answered
<1>5. Submitted' = Submitted
  BY <1>1 DEF Submitted
<1> QED  BY <1>2, <1>4, <1>5, Parts DEF AccountInv

\* A new number goes to a message that had none: nothing told or recorded is about it.
LEMMA AssignKeeps ==
  ASSUME AuthorityInv, NEW t \in Threads, InRegistry(t), AssignSequence(t)
  PROVE  AccountInv'
<1>1. RunCall(t) /\ UNCHANGED <<verdicts, lineage, stage, granted>>
  BY Parts, AssignAssigns DEF InRegistry, dictVars, RunCall
<1>2. \A s \in Threads \ {t} : SameThread(s)
  BY <1>1, Parts, OthersStay DEF SameThread
<1>3. /\ pc[t] = "assigning" /\ pc'[t] = "writing" /\ op[t] = "submit" /\ op' = op
      /\ arg' = arg /\ counter' = counter + 1 /\ counter \in Nat
      /\ entries' = [entries EXCEPT ![arg[t]] = counter + 1]
      /\ entries \in [Msgs -> Nat] /\ arg[t] \in Msgs /\ entries[arg[t]] = 0
  <2>1. pc[t] = "assigning" /\ entries' = [entries EXCEPT ![arg[t]] = counter + 1]
        /\ pc' = [pc EXCEPT ![t] = "writing"] /\ counter' = counter + 1 /\ op' = op /\ arg' = arg
    BY Parts, AssignAssigns
  <2>2. op[t] = "submit" /\ ~ IsKnown(arg[t]) /\ arg[t] \in Msgs
    BY <2>1, Parts DEF CallsCarryMessages
  <2> QED  BY <2>1, <2>2, Parts DEF IsKnown, RegistryTypeOK
<1>4. ~ Valid(t) /\ stage[t] = "none"
  BY <1>3, Parts DEF Valid, StageOK, Answered, AuthorityTypeOK
<1>5. \A m \in Msgs : entries[m] # 0 => entries'[m] = entries[m]
  BY <1>3
<1>6. ~ wiped' => ~ wiped /\ issued' = issued
  <2>1. ~ (Len(granted') > Len(granted))
    <3>1. Len(granted) \in Nat
      BY Parts DEF RegistryTypeOK
    <3> QED  BY <1>1, <3>1
  <2>2. ~ wiped' => ~ wiped
    BY Zenon DEF InRegistry
  <2> QED  BY <2>1, <2>2 DEF InRegistry
<1>7. ASSUME NEW s \in Threads PROVE StageOK(s)'
  BY <1>1, <1>2, <1>4, Parts DEF StageOK, SameThread, Answered
<1>8. Submitted' = Submitted
  BY <1>1 DEF Submitted
<1>9. ASSUME ~ wiped'
      PROVE  (\A s \in Threads : ThreadOK(s)') /\ IssuedOK' /\ VerdictsOK' /\ LineageOK'
  <2>1. (\A s \in Threads : ThreadOK(s)) /\ IssuedOK /\ VerdictsOK /\ LineageOK /\ issued' = issued
    BY <1>6, <1>9, Parts
  <2>2. \A i \in DOMAIN issued : issued[i].msg \in Msgs /\ issued[i].seq \in Nat
    <3>1. issued \in Seq(Record)
      BY Parts DEF AuthorityTypeOK, Record
    <3>2. \A i \in DOMAIN issued : issued[i] \in Record
      BY <3>1, Elements
    <3> QED  BY <3>2 DEF Record
  <2>3. IssuedOK'
    <3>1. ASSUME NEW i \in DOMAIN issued
          PROVE  issued[i].seq \in 1..(counter + 1) /\ entries'[issued[i].msg] = issued[i].seq
      <4>1. issued[i].seq \in 1..counter /\ entries[issued[i].msg] = issued[i].seq
        BY <2>1 DEF IssuedOK
      <4>2. issued[i].seq # 0 /\ issued[i].seq \in 1..(counter + 1)
        BY <1>3, <4>1
      <4> QED  BY <1>5, <2>2, <4>1, <4>2
    <3> QED  BY <1>3, <2>1, <3>1 DEF IssuedOK
  <2>4. VerdictsOK'
    BY <1>1, <1>5, <2>1 DEF VerdictsOK
  <2>5. LineageOK'
    <3>1. ASSUME NEW r \in Range(issued), NEW s \in Threads, Valid(s), RecordOf(s) = r
          PROVE  Valid(s)' /\ RecordOf(s)' = r
      BY <1>2, <1>4, <3>1 DEF SameThread, Valid, RecordOf
    <3> QED  BY <1>1, <2>1, <3>1 DEF LineageOK
  <2>6. ASSUME NEW s \in Threads PROVE ThreadOK(s)'
    <3>1. CASE s = t
      <4>1. \A i \in DOMAIN issued : issued[i].seq < counter + 1
        BY <1>3, <2>1 DEF IssuedOK
      <4> QED  BY <1>1, <1>3, <1>4, <2>1, <3>1, <4>1 DEF ThreadOK, Valid
    <3>2. CASE s # t
      <4>1. SameThread(s) /\ ThreadOK(s)
        BY <1>2, <2>1, <3>2
      <4>2. pc[s] \notin CriticalSteps
        BY <1>3, <3>2, Parts, OneInside DEF CriticalSteps
      <4>3. pc[s] = "decided" /\ op[s] = "submit" => arg[s] \in Msgs
        BY Parts DEF CallsCarryMessages
      <4> QED  BY <1>1, <1>5, <2>1, <4>1, <4>2, <4>3
               DEF ThreadOK, SameThread, Valid, RecordOf, CriticalSteps
    <3> QED  BY <3>1, <3>2
  <2> QED  BY <2>3, <2>4, <2>5, <2>6
<1> QED  BY <1>7, <1>8, <1>9, Parts DEF AccountInv

\* The registry accepts: the record is issued, and in the hands of the submitting thread.
LEMMA AcceptKeeps ==
  ASSUME AuthorityInv, NEW t \in Threads, InRegistry(t), AcceptMessage(t)
  PROVE  AccountInv'
<1>1. RunCall(t) /\ UNCHANGED <<entries, counter, op, arg, verdicts, lineage, stage>>
  BY DEF InRegistry, dictVars, RunCall, AcceptMessage, ReplaceFile, Leave, Decide
<1>2. \A s \in Threads \ {t} : SameThread(s)
  BY <1>1, Parts, OthersStay DEF SameThread
<1>3. /\ op[t] = "submit" /\ pc[t] = "replacing" /\ pc'[t] = "decided" /\ arg[t] \in Msgs
      /\ decision'[t] = [seq |-> decision[t].seq, status |-> "VALID"]
      /\ granted' = Append(granted, RecordOf(t))
      /\ decision[t].seq = counter /\ entries[arg[t]] = counter /\ counter > 0 /\ counter \in Nat
  <2>1. op[t] = "submit" /\ pc[t] = "replacing" /\ granted' = Append(granted, RecordOf(t))
    BY DEF AcceptMessage, ReplaceFile, RecordOf
  <2>2. pc'[t] = "decided" /\ decision'[t] = [seq |-> decision[t].seq, status |-> "VALID"]
    BY Parts DEF AcceptMessage, Leave, Decide, RegistryTypeOK
  <2> QED  BY <2>1, <2>2, Parts DEF CallsCarryMessages, WriteInProgress, RegistryTypeOK
<1>4. ~ Valid(t) /\ stage[t] = "none"
  BY <1>3, Parts DEF Valid, StageOK, Answered, AuthorityTypeOK
<1>5. RecordOf(t) \in Record /\ issued \in Seq(Record) /\ granted \in Seq(Record)
  BY <1>3, Parts DEF RecordOf, Record, AuthorityTypeOK, RegistryTypeOK
<1>6. ~ wiped' => ~ wiped /\ issued' = Append(issued, RecordOf(t))
  <2>1. Len(granted') > Len(granted) /\ Last(granted') = RecordOf(t)
    <3>1. PICK r \in Record : r = RecordOf(t)
      BY <1>5
    <3>2. \A g \in Seq(Record) : Len(Append(g, r)) > Len(g) /\ Last(Append(g, r)) = r
      BY DEF Last
    <3> QED  BY <1>3, <1>5, <3>1, <3>2
  <2>2. ~ wiped' => ~ wiped
    BY Zenon DEF InRegistry
  <2> QED  BY <2>1, <2>2 DEF InRegistry
<1>7. ASSUME NEW s \in Threads PROVE StageOK(s)'
  BY <1>1, <1>2, <1>4, Parts DEF StageOK, SameThread, Answered
<1>8. Submitted' = Submitted
  BY <1>1 DEF Submitted
<1>9. ASSUME ~ wiped'
      PROVE  (\A s \in Threads : ThreadOK(s)') /\ IssuedOK' /\ VerdictsOK' /\ LineageOK'
  <2>1. /\ (\A s \in Threads : ThreadOK(s)) /\ IssuedOK /\ VerdictsOK /\ LineageOK
        /\ issued' = Append(issued, RecordOf(t))
    BY <1>6, <1>9, Parts
  <2>2. PICK r \in Record : r = RecordOf(t)
    BY <1>5
  <2>3. r.msg = arg[t] /\ r.seq = counter
    BY <1>3, <2>2 DEF RecordOf
  <2>4. PICK n \in Nat : n = Len(issued)
    BY <1>5
  <2>5. /\ DOMAIN issued = 1..n /\ DOMAIN issued' = 1..(n + 1)
        /\ \A i \in 1..n : issued'[i] = issued[i]
        /\ issued'[n + 1] = r
    <3>1. \A q \in Seq(Record) : /\ DOMAIN q = 1..Len(q) /\ DOMAIN Append(q, r) = 1..(Len(q) + 1)
                                 /\ \A i \in 1..Len(q) : Append(q, r)[i] = q[i]
                                 /\ Append(q, r)[Len(q) + 1] = r
      OBVIOUS
    <3> QED  BY <1>5, <2>1, <2>2, <2>4, <3>1
  <2>6. Range(issued') = Range(issued) \cup {r}
    BY <2>4, <2>5 DEF Range
  <2>7. \A i \in 1..n : issued[i].seq < counter
    BY <1>3, <2>1, <2>5 DEF ThreadOK
  <2>8. IssuedOK'
    <3>1. ASSUME NEW i \in 1..(n + 1), NEW j \in 1..(n + 1), i < j
          PROVE  issued'[i].seq < issued'[j].seq
      <4>1. i \in 1..n /\ (j \in 1..n \/ j = n + 1)
        BY <3>1
      <4> QED  BY <2>1, <2>3, <2>5, <2>7, <3>1, <4>1 DEF IssuedOK
    <3>2. ASSUME NEW i \in 1..(n + 1)
          PROVE  issued'[i].seq \in 1..counter /\ entries[issued'[i].msg] = issued'[i].seq
      <4>1. i \in 1..n \/ i = n + 1
        OBVIOUS
      <4>2. counter \in 1..counter
        BY <1>3
      <4> QED  BY <1>3, <2>1, <2>3, <2>5, <4>1, <4>2 DEF IssuedOK
    <3> QED  BY <1>1, <2>5, <3>1, <3>2 DEF IssuedOK
  <2>9. VerdictsOK'
    BY <1>1, <2>1 DEF VerdictsOK
  <2>10. Valid(t)' /\ RecordOf(t)' = r
    BY <1>1, <1>3, <2>2 DEF Valid, RecordOf
  <2>11. LineageOK'
    <3>1. ASSUME NEW x \in Range(issued), NEW s \in Threads, Valid(s), RecordOf(s) = x
          PROVE  Valid(s)' /\ RecordOf(s)' = x
      BY <1>2, <1>4, <3>1 DEF SameThread, Valid, RecordOf
    <3>2. \A x \in Range(issued') : x \in Range(lineage) \/ \E s \in Threads : Valid(s)' /\ RecordOf(s)' = x
      BY <2>1, <2>6, <2>10, <3>1 DEF LineageOK
    <3> QED  BY <1>1, <2>1, <2>6, <3>2 DEF LineageOK
  <2>12. ASSUME NEW s \in Threads PROVE ThreadOK(s)'
    <3>1. CASE s = t
      BY <1>1, <1>3, <1>4, <2>2, <2>6, <2>10, <3>1 DEF ThreadOK
    <3>2. CASE s # t
      <4>1. SameThread(s) /\ ThreadOK(s)
        BY <1>2, <2>1, <3>2
      <4>2. pc[s] \notin CriticalSteps
        BY <1>3, <3>2, Parts, OneInside DEF CriticalSteps
      <4> QED  BY <1>1, <2>6, <4>1, <4>2 DEF ThreadOK, SameThread, Valid, RecordOf, CriticalSteps
    <3> QED  BY <3>1, <3>2
  <2> QED  BY <2>8, <2>9, <2>11, <2>12
<1> QED  BY <1>7, <1>8, <1>9, Parts DEF AccountInv

LEMMA StoreVerdictKeeps ==
  ASSUME AuthorityInv, NEW t \in Threads, StoreVerdict(t)
  PROVE  AccountInv'
<1>1. /\ pc[t] = "decided" /\ op[t] = "submit" /\ stage[t] = "none" /\ arg[t] \in Msgs
      /\ verdicts' = [verdicts EXCEPT ![arg[t]] = decision[t]]
      /\ stage' = [stage EXCEPT ![t] = "stored"]
      /\ UNCHANGED <<pc, op, arg, decision, entries, counter, lineage, issued, wiped>>
      /\ Answered(t)
  BY Parts DEF StoreVerdict, Answered, registryVars, CallsCarryMessages
<1>2. verdicts \in [Msgs -> Verdict] /\ decision[t] \in Verdict /\ decision[t] # NoVerdict
      /\ stage \in [Threads -> {"none", "stored"}]
  BY Parts DEF AuthorityTypeOK, RegistryTypeOK, Verdict, Statuses, NoVerdict
<1>3. ASSUME NEW s \in Threads PROVE StageOK(s)'
  BY <1>1, <1>2, Parts DEF StageOK, Answered
<1>4. IsFiniteSet(Submitted')
  <2>1. Submitted' = Submitted \cup {arg[t]}
    BY <1>1, <1>2 DEF Submitted
  <2> QED  BY <2>1, Parts, FS_AddElement
<1>5. ASSUME ~ wiped'
      PROVE  (\A s \in Threads : ThreadOK(s)') /\ IssuedOK' /\ VerdictsOK' /\ LineageOK'
  <2>1. (\A s \in Threads : ThreadOK(s)) /\ IssuedOK /\ VerdictsOK /\ LineageOK
    BY <1>1, <1>5, Parts
  <2>2. \A m \in Msgs : verdicts[m] # NoVerdict => verdicts'[m] # NoVerdict
    BY <1>1, <1>2
  <2>3. ASSUME NEW s \in Threads PROVE ThreadOK(s)'
    <3>1. stage'[s] = "stored" => verdicts'[arg[s]] # NoVerdict
      <4>1. CASE s = t
        BY <1>1, <1>2, <4>1
      <4>2. CASE s # t
        <5>1. stage'[s] = "stored" => stage[s] = "stored" /\ arg[s] \in Msgs
          BY <1>1, <1>2, <4>2, Parts DEF StageOK, Answered, CallsCarryMessages
        <5> QED  BY <2>1, <2>2, <5>1 DEF ThreadOK
      <4> QED  BY <4>1, <4>2
    <3> QED  BY <1>1, <2>1, <3>1 DEF ThreadOK, Valid, RecordOf
  <2>4. IssuedOK'
    BY <1>1, <2>1 DEF IssuedOK
  <2>5. VerdictsOK'
    <3>1. decision[t].status \in {"VALID", "DUPLICATE"} =>
              decision[t].seq = entries[arg[t]] /\ entries[arg[t]] # 0
      BY <1>1, <2>1 DEF ThreadOK
    <3> QED  BY <1>1, <1>2, <2>1, <3>1 DEF VerdictsOK
  <2>6. LineageOK'
    <3>1. \A i \in DOMAIN lineage : lineage[i].msg \in Msgs
      <4>1. lineage \in Seq(Record)
        BY Parts DEF AuthorityTypeOK, Record
      <4>2. \A i \in DOMAIN lineage : lineage[i] \in Record
        BY <4>1, Elements
      <4> QED  BY <4>2 DEF Record
    <3>2. \A s \in Threads : Valid(s)' = Valid(s) /\ RecordOf(s)' = RecordOf(s)
      BY <1>1 DEF Valid, RecordOf
    <3>3. \A i \in DOMAIN lineage : verdicts'[lineage[i].msg] # NoVerdict
      BY <2>1, <2>2, <3>1 DEF LineageOK
    <3> QED  BY <1>1, <2>1, <3>2, <3>3 DEF LineageOK
  <2> QED  BY <2>3, <2>4, <2>5, <2>6
<1> QED  BY <1>3, <1>4, <1>5 DEF AccountInv

\* A record that is in the lineage already is the same record: storing it changes nothing.
LEMMA InsertIssued ==
  ASSUME AuthorityInv, ~ wiped, NEW t \in Threads, Valid(t)
  PROVE  \/ Insert(lineage, RecordOf(t)) = lineage /\ RecordOf(t) \in Range(lineage)
         \/ /\ Insert(lineage, RecordOf(t)) = Append(lineage, RecordOf(t))
            /\ \A i \in DOMAIN lineage : lineage[i].msg # arg[t]
<1>1. /\ (\A s \in Threads : ThreadOK(s)) /\ IssuedOK /\ LineageOK
      /\ lineage \in Seq(Record) /\ issued \in Seq(Record)
  BY Parts DEF AuthorityTypeOK, Record
<1>2. RecordOf(t).msg = arg[t] /\ RecordOf(t).seq = entries[arg[t]]
  BY <1>1 DEF ThreadOK, Valid, RecordOf
<1>3. \A i \in DOMAIN lineage : lineage[i].seq = entries[lineage[i].msg] /\ lineage[i] \in Record
  <2>1. ASSUME NEW i \in DOMAIN lineage PROVE lineage[i].seq = entries[lineage[i].msg]
    <3>1. lineage[i] \in Range(issued)
      BY <1>1 DEF LineageOK, Range
    <3>2. PICK k \in DOMAIN issued : lineage[i] = issued[k]
      BY <3>1 DEF Range
    <3> QED  BY <1>1, <3>2 DEF IssuedOK
  <2> QED  BY <1>1, <2>1, Elements
<1>4. ASSUME NEW i \in DOMAIN lineage, lineage[i].msg = arg[t] PROVE lineage[i] = RecordOf(t)
  <2>1. lineage[i].seq = entries[arg[t]] /\ lineage[i] \in Record
    BY <1>3, <1>4
  <2> QED  BY <1>2, <1>4, <2>1 DEF RecordOf, Record
<1>5. CASE \E i \in DOMAIN lineage : lineage[i].msg = arg[t]
  <2>1. RecordOf(t) \in Range(lineage)
    BY <1>4, <1>5 DEF Range
  <2>2. DOMAIN lineage = 1..Len(lineage) /\ lineage = [i \in DOMAIN lineage |-> lineage[i]]
    BY <1>1
  <2>3. Insert(lineage, RecordOf(t)) =
          [i \in DOMAIN lineage |-> IF lineage[i].msg = arg[t] THEN RecordOf(t) ELSE lineage[i]]
    BY <1>2, <1>5 DEF Insert
  <2>4. \A i \in DOMAIN lineage : (IF lineage[i].msg = arg[t] THEN RecordOf(t) ELSE lineage[i]) = lineage[i]
    BY <1>4
  <2>5. Insert(lineage, RecordOf(t)) = [i \in DOMAIN lineage |-> lineage[i]]
    BY <2>3, <2>4
  <2> QED  BY <2>1, <2>2, <2>5
<1>6. CASE \A i \in DOMAIN lineage : lineage[i].msg # arg[t]
  BY <1>2, <1>6 DEF Insert
<1> QED  BY <1>5, <1>6

LEMMA StoreLineageKeeps ==
  ASSUME AuthorityInv, NEW t \in Threads, StoreLineage(t)
  PROVE  AccountInv'
<1>1. /\ pc[t] = "decided" /\ op[t] = "submit" /\ stage[t] = "stored" /\ arg[t] \in Msgs
      /\ lineage' = IF decision[t].status = "VALID" THEN Insert(lineage, RecordOf(t)) ELSE lineage
      /\ stage' = [stage EXCEPT ![t] = "none"]
      /\ UNCHANGED <<entries, counter, verdicts, issued, wiped>> /\ Return(t)
  BY Parts DEF StoreLineage, Answered, CallsCarryMessages, Return, RecordOf
<1>2. \A s \in Threads \ {t} : SameThread(s)
  BY <1>1, Parts, OthersStay DEF SameThread
<1>3. pc'[t] = "idle" /\ stage'[t] = "none" /\ (\A s \in Threads \ {t} : stage'[s] = stage[s])
  BY <1>1, Parts DEF Return, RegistryTypeOK, AuthorityTypeOK
<1>4. ASSUME NEW s \in Threads PROVE StageOK(s)'
  BY <1>2, <1>3, Parts DEF StageOK, SameThread, Answered
<1>5. Submitted' = Submitted
  BY <1>1 DEF Submitted
<1>6. ASSUME ~ wiped'
      PROVE  (\A s \in Threads : ThreadOK(s)') /\ IssuedOK' /\ VerdictsOK' /\ LineageOK'
  <2>1. (\A s \in Threads : ThreadOK(s)) /\ IssuedOK /\ VerdictsOK /\ LineageOK /\ ~ wiped
    BY <1>1, <1>6, Parts
  <2>2. ASSUME NEW s \in Threads PROVE ThreadOK(s)'
    <3>1. CASE s = t
      BY <1>3, <3>1 DEF ThreadOK, Valid
    <3>2. CASE s # t
      <4>1. SameThread(s) /\ ThreadOK(s) /\ stage'[s] = stage[s]
        BY <1>2, <1>3, <2>1, <3>2
      <4> QED  BY <1>1, <4>1 DEF ThreadOK, SameThread, Valid, RecordOf
    <3> QED  BY <3>1, <3>2
  <2>3. IssuedOK' /\ VerdictsOK'
    BY <1>1, <2>1 DEF IssuedOK, VerdictsOK
  <2>4. \A s \in Threads \ {t} : Valid(s)' = Valid(s) /\ RecordOf(s)' = RecordOf(s)
    BY <1>2 DEF SameThread, Valid, RecordOf
  <2>5. CASE lineage' = lineage /\ (Valid(t) => RecordOf(t) \in Range(lineage))
    <3>1. \A r \in Range(issued) : r \in Range(lineage) \/ \E s \in Threads : Valid(s)' /\ RecordOf(s)' = r
      BY <2>1, <2>4, <2>5 DEF LineageOK
    <3>2. LineageOK'
      BY <1>1, <2>1, <2>5, <3>1 DEF LineageOK
    <3> QED  BY <2>2, <2>3, <3>2
  <2>6. CASE /\ Valid(t) /\ lineage' = Append(lineage, RecordOf(t))
             /\ \A i \in DOMAIN lineage : lineage[i].msg # arg[t]
    <3>1. PICK r \in Record : r = RecordOf(t)
      BY <1>1, Parts DEF RecordOf, Record, RegistryTypeOK
    <3>2. r.msg = arg[t] /\ r \in Range(issued)
      BY <2>1, <2>6, <3>1 DEF RecordOf, ThreadOK
    <3>3. PICK n \in Nat : n = Len(lineage)
      BY Parts DEF AuthorityTypeOK
    <3>4. /\ DOMAIN lineage = 1..n /\ DOMAIN lineage' = 1..(n + 1)
          /\ \A i \in 1..n : lineage'[i] = lineage[i]
          /\ lineage'[n + 1] = r
      <4>1. \A q \in Seq(Record) : /\ DOMAIN q = 1..Len(q) /\ DOMAIN Append(q, r) = 1..(Len(q) + 1)
                                   /\ \A i \in 1..Len(q) : Append(q, r)[i] = q[i]
                                   /\ Append(q, r)[Len(q) + 1] = r
        OBVIOUS
      <4>2. lineage \in Seq(Record)
        BY Parts DEF AuthorityTypeOK, Record
      <4> QED  BY <2>6, <3>1, <3>3, <4>1, <4>2
    <3>5. Range(lineage') = Range(lineage) \cup {r}
      BY <3>3, <3>4 DEF Range
    <3>6. \A i, j \in DOMAIN lineage' : lineage'[i].msg = lineage'[j].msg => i = j
      <4>1. ASSUME NEW i \in 1..(n + 1), NEW j \in 1..(n + 1), lineage'[i].msg = lineage'[j].msg
            PROVE  i = j
        <5>1. (i \in 1..n \/ i = n + 1) /\ (j \in 1..n \/ j = n + 1)
          OBVIOUS
        <5> QED  BY <2>1, <2>6, <3>2, <3>4, <4>1, <5>1 DEF LineageOK
      <4> QED  BY <3>4, <4>1
    <3>7. verdicts[r.msg] # NoVerdict
      BY <1>1, <2>1, <3>2 DEF ThreadOK
    <3>8. \A i \in DOMAIN lineage' : verdicts[lineage'[i].msg] # NoVerdict
      <4>1. \A i \in 1..(n + 1) : i \in 1..n \/ i = n + 1
        OBVIOUS
      <4> QED  BY <2>1, <3>4, <3>7, <4>1 DEF LineageOK
    <3>9. \A x \in Range(issued) : x \in Range(lineage') \/ \E s \in Threads : Valid(s)' /\ RecordOf(s)' = x
      BY <2>1, <2>4, <3>1, <3>5 DEF LineageOK
    <3>10. LineageOK'
      BY <1>1, <2>1, <3>2, <3>5, <3>6, <3>8, <3>9 DEF LineageOK
    <3> QED  BY <2>2, <2>3, <3>10
  <2> QED  BY <1>1, <2>1, <2>5, <2>6, InsertIssued DEF Valid
<1> QED  BY <1>4, <1>5, <1>6, Parts DEF AccountInv

\* A new process, or the first: nothing is told, nothing recorded, nobody has a verdict.
LEMMA FreshAccount ==
  ASSUME pc = [t \in Threads |-> "idle"], stage = [t \in Threads |-> "none"],
         verdicts = [m \in Msgs |-> NoVerdict], lineage = << >>, issued = << >>, wiped = FALSE
  PROVE  AccountInv
<1>1. Submitted = {}
  BY DEF Submitted
<1>2. IsFiniteSet(Submitted)
  BY <1>1, FS_EmptySet
<1>3. DOMAIN lineage = {} /\ DOMAIN issued = {} /\ Range(lineage) = {} /\ Range(issued) = {}
  BY DEF Range
<1>4. \A t \in Threads : pc[t] = "idle" /\ stage[t] = "none" /\ StageOK(t) /\ ThreadOK(t)
  BY DEF StageOK, ThreadOK, Valid
<1>5. IssuedOK /\ LineageOK
  BY <1>3 DEF IssuedOK, LineageOK
<1>6. VerdictsOK
  BY DEF VerdictsOK, NoVerdict
<1> QED  BY <1>2, <1>4, <1>5, <1>6 DEF AccountInv

LEMMA AccountNext ==
  ASSUME AuthorityInv, [AuthorityNext]_authorityVars
  PROVE  AccountInv'
<1>1. ASSUME NEW t \in Threads, InRegistry(t) PROVE AccountInv'
  BY <1>1, QuietCallKeeps, ClearMemoryKeeps, AssignKeeps, AcceptKeeps DEF InRegistry, RunCall
<1>2. ASSUME NEW t \in Threads, BeginCall(t), UNCHANGED authorityOwnVars PROVE AccountInv'
  BY <1>2, BeginCallKeeps
<1>3. ASSUME NEW t \in Threads, AuthorityStep(t) PROVE AccountInv'
  BY <1>1, <1>3, StoreVerdictKeeps, StoreLineageKeeps, QuietReturnKeeps DEF AuthorityStep
<1>4. CASE AuthorityRestart
  <2>1. /\ pc' = [t \in Threads |-> "idle"] /\ stage' = [t \in Threads |-> "none"]
        /\ verdicts' = [m \in Msgs |-> NoVerdict] /\ lineage' = << >> /\ issued' = << >>
        /\ wiped' = FALSE
    BY <1>4 DEF AuthorityRestart, Restart
  <2>2. Submitted' = {}
    BY <2>1 DEF Submitted
  <2>3. IsFiniteSet(Submitted')
    BY <2>2, FS_EmptySet
  <2>4. DOMAIN lineage' = {} /\ DOMAIN issued' = {} /\ Range(lineage') = {} /\ Range(issued') = {}
    BY <2>1 DEF Range
  <2>5. \A t \in Threads : pc'[t] = "idle" /\ stage'[t] = "none"
    BY <2>1
  <2>6. \A t \in Threads : StageOK(t)' /\ ThreadOK(t)'
    BY <2>5 DEF StageOK, ThreadOK, Valid
  <2>7. IssuedOK' /\ LineageOK'
    BY <2>4 DEF IssuedOK, LineageOK
  <2>8. VerdictsOK'
    BY <2>1 DEF VerdictsOK, NoVerdict
  <2> QED  BY <2>3, <2>6, <2>7, <2>8 DEF AccountInv
<1>5. CASE UNCHANGED <<pc, op, arg, decision, entries, counter, authorityOwnVars>>
  BY <1>5, Parts DEF authorityOwnVars, dictVars, AccountInv, StageOK, Answered, Submitted,
     ThreadOK, IssuedOK, VerdictsOK, LineageOK, Valid, RecordOf
<1> QED
  BY <1>2, <1>3, <1>4, <1>5 DEF AuthorityNext, FileDamaged, authorityVars, registryVars

LEMMA AuthorityInvariant == AuthoritySpec => []AuthorityInv
<1>1. AuthorityInit => AuthorityInv
  <2> SUFFICES ASSUME AuthorityInit PROVE AuthorityInv
    OBVIOUS
  <2>1. RegistryInv
    BY InvInit DEF AuthorityInit
  <2>2. AccountInv
    BY FreshAccount DEF AuthorityInit, RegistryInit
  <2>3. NoVerdict \in Verdict
    BY DEF NoVerdict, Verdict, Statuses
  <2>4. AuthorityTypeOK
    <3>1. verdicts \in [Msgs -> Verdict] /\ stage \in [Threads -> {"none", "stored"}]
      BY <2>3 DEF AuthorityInit
    <3>2. << >> \in Seq(Record) /\ FALSE \in BOOLEAN
      OBVIOUS
    <3> QED  BY <2>1, <3>1, <3>2 DEF AuthorityInit, RegistryInv, AuthorityTypeOK, Verdict, Record
  <2> QED  BY <2>1, <2>2, <2>4 DEF AuthorityInv
<1>2. AuthorityInv /\ [AuthorityNext]_authorityVars => AuthorityInv'
  <2> SUFFICES ASSUME AuthorityInv, [AuthorityNext]_authorityVars PROVE AuthorityInv'
    OBVIOUS
  <2>1. RegistryInv'
    BY AuthorityRegistryStep, InvNext DEF AuthorityInv
  <2>2. AuthorityTypeOK'
    BY <2>1, AuthorityTypes DEF RegistryInv
  <2> QED  BY <2>1, <2>2, AccountNext DEF AuthorityInv
<1> QED  BY <1>1, <1>2, PTL DEF AuthoritySpec

\* The authority runs the registry and nothing else on it: what is proved of RegistrySpec
\* holds of the registry under an authority.
THEOREM AuthorityUsesTheRegistry == AuthoritySpec => RegistrySpec
<1>1. AuthorityInit => RegistryInit
  BY DEF AuthorityInit
<1>2. [AuthorityNext]_authorityVars => [RegistryNext]_registryVars
  BY AuthorityRegistryStep
<1> QED  BY <1>1, <1>2, PTL DEF AuthoritySpec, RegistrySpec

\* Whatever the authority adds on top, a verdict and a lineage record that a thread writes after
\* its call and others may read before, the acceptances are those of an accept-once ledger.
THEOREM AuthorityImplementsLedger == AuthoritySpec => KeepsLedger
  BY AuthorityUsesTheRegistry, ImplementsLedger, PTL

\* Whatever the interleaving, every variable of the authority keeps its type.
THEOREM AuthorityTypeCorrect == AuthoritySpec => []AuthorityTypeOK
<1>1. AuthorityInv => AuthorityTypeOK
  BY DEF AuthorityInv
<1> QED  BY <1>1, AuthorityInvariant, PTL

-----------------------------------------------------------------------------
(* What a caller reads of it.                                              *)

\* Two lists of the same records, each in strictly increasing order, are the same list.
LEMMA SameIncreasing ==
  ASSUME NEW n \in Nat, NEW a \in [1..n -> Record], NEW b \in [1..n -> Record],
         \A i, j \in 1..n : i < j => a[i].seq < a[j].seq,
         \A i, j \in 1..n : i < j => b[i].seq < b[j].seq,
         Range(a) = Range(b)
  PROVE  a = b
<1> DEFINE Differs == {k \in 1..n : a[k] # b[k]}
<1>1. ASSUME NEW k \in Differs, \A j \in Differs : k <= j PROVE FALSE
  <2>1. k \in 1..n /\ a[k] # b[k] /\ \A j \in 1..n : j < k => a[j] = b[j]
    BY <1>1
  <2>2. PICK j \in 1..n : a[k] = b[j]
    <3>1. a[k] \in Range(b)
      BY <2>1 DEF Range
    <3> QED  BY <3>1 DEF Range
  <2>3. PICK i \in 1..n : b[k] = a[i]
    <3>1. b[k] \in Range(a)
      BY <2>1 DEF Range
    <3> QED  BY <3>1 DEF Range
  <2>4. \A x \in 1..n : a[x].seq \in Nat /\ b[x].seq \in Nat
    BY DEF Record
  <2>5. j > k
    <3>1. j # k
      BY <2>1, <2>2
    <3>2. ~ (j < k)
      <4>1. ASSUME j < k PROVE FALSE
        <5>1. a[j] = a[k] /\ a[j].seq < a[k].seq
          BY <2>1, <2>2, <4>1
        <5> QED  BY <2>1, <2>4, <5>1
      <4> QED  BY <4>1
    <3> QED  BY <2>1, <3>1, <3>2
  <2>6. i > k
    <3>1. i # k
      BY <2>1, <2>3
    <3>2. ~ (i < k)
      <4>1. ASSUME i < k PROVE FALSE
        <5>1. b[i] = b[k] /\ b[i].seq < b[k].seq
          BY <2>1, <2>3, <4>1
        <5> QED  BY <2>1, <2>4, <5>1
      <4> QED  BY <4>1
    <3> QED  BY <2>1, <3>1, <3>2
  <2>7. b[k].seq < a[k].seq /\ a[k].seq < b[k].seq
    BY <2>1, <2>2, <2>3, <2>5, <2>6
  <2> QED  BY <2>1, <2>4, <2>7
<1>2. CASE Differs # {}
  <2>1. Differs \in SUBSET Nat
    OBVIOUS
  <2> HIDE DEF Differs
  <2>2. PICK k \in Differs : \A j \in Differs : ~ (<<j, k>> \in OpToRel(<, Nat))
    BY <1>2, <2>1, WFMin, NatLessThanWellFounded
  <2>3. \A j \in Differs : k <= j
    <3>1. \A x, y \in Nat : <<y, x>> \in OpToRel(<, Nat) <=> y < x
      BY DEF OpToRel
    <3>2. \A j \in Differs : ~ (j < k) /\ j \in Nat /\ k \in Nat
      BY <2>1, <2>2, <3>1
    <3> QED  BY <3>2
  <2> QED  BY <1>1, <2>3
<1>3. CASE Differs = {}
  BY <1>3
<1> QED  BY <1>2, <1>3

\* The lineage holds no number twice.
LEMMA LineageNumbers ==
  ASSUME AuthorityInv, ~ wiped, NEW i \in DOMAIN lineage, NEW j \in DOMAIN lineage,
         lineage[i].seq = lineage[j].seq
  PROVE  i = j
<1>1. IssuedOK /\ LineageOK /\ lineage \in Seq(Record) /\ issued \in Seq(Record)
  BY Parts DEF AuthorityTypeOK, Record
<1>2. PICK k \in DOMAIN issued, l \in DOMAIN issued : lineage[i] = issued[k] /\ lineage[j] = issued[l]
  <2>1. lineage[i] \in Range(issued) /\ lineage[j] \in Range(issued)
    BY <1>1 DEF LineageOK, Range
  <2> QED  BY <2>1 DEF Range
<1>3. k = l
  <2>1. k \in Nat /\ l \in Nat /\ issued[k] \in Record /\ issued[l] \in Record
    BY <1>1, Elements
  <2>2. ~ (issued[k].seq < issued[l].seq) /\ ~ (issued[l].seq < issued[k].seq)
    BY <1>2, <2>1 DEF Record
  <2>3. ~ (k < l) /\ ~ (l < k)
    BY <1>1, <2>2 DEF IssuedOK
  <2> QED  BY <2>1, <2>3
<1> QED  BY <1>1, <1>2, <1>3 DEF LineageOK

\* In quiescence every accepted record has reached the lineage, so that a permutation of its
\* places puts the lineage into the order of acceptance.
LEMMA SortedOrder ==
  ASSUME AuthorityInv, ~ wiped, Quiescent
  PROVE  /\ Range(lineage) = Range(issued) /\ Len(lineage) = Len(issued)
         /\ \E p \in Bijection(DOMAIN lineage, DOMAIN lineage) :
               \A i \in DOMAIN lineage : lineage[p[i]] = issued[i]
<1>1. IssuedOK /\ LineageOK /\ lineage \in Seq(Record) /\ issued \in Seq(Record)
  BY Parts DEF AuthorityTypeOK, Record
<1>2. Range(lineage) = Range(issued)
  <2>1. \A t \in Threads : ~ Valid(t)
    BY DEF Quiescent, Valid
  <2> QED  BY <1>1, <2>1 DEF LineageOK
<1>3. PICK n \in Nat : n = Len(lineage)
  BY <1>1
<1>4. PICK k \in Nat : k = Len(issued)
  BY <1>1
<1>5. DOMAIN lineage = 1..n /\ DOMAIN issued = 1..k
  BY <1>1, <1>3, <1>4
<1>6. \A i, j \in 1..k : issued[i] = issued[j] => i = j
  <2>1. \A i \in 1..k : issued[i].seq \in Nat
    <3>1. \A i \in DOMAIN issued : issued[i] \in Record
      BY <1>1, Elements
    <3> QED  BY <1>5, <3>1 DEF Record
  <2>2. ASSUME NEW i \in 1..k, NEW j \in 1..k, issued[i] = issued[j], i < j PROVE FALSE
    <3>1. issued[i].seq < issued[j].seq
      BY <1>1, <1>5, <2>2 DEF IssuedOK
    <3> QED  BY <2>1, <2>2, <3>1
  <2> QED  BY <2>2
<1>7. \A i, j \in 1..n : lineage[i] = lineage[j] => i = j
  BY <1>1, <1>5 DEF LineageOK
<1>8. \A i \in 1..k : \E j \in 1..n : lineage[j] = issued[i]
  <2>1. \A i \in 1..k : issued[i] \in Range(lineage)
    BY <1>2, <1>5 DEF Range
  <2> QED  BY <1>5, <2>1 DEF Range
<1>9. \A j \in 1..n : \E i \in 1..k : lineage[j] = issued[i]
  <2>1. \A j \in 1..n : lineage[j] \in Range(issued)
    BY <1>2, <1>5 DEF Range
  <2> QED  BY <1>5, <2>1 DEF Range
<1> DEFINE f == [i \in 1..k |-> CHOOSE j \in 1..n : lineage[j] = issued[i]]
           g == [j \in 1..n |-> CHOOSE i \in 1..k : lineage[j] = issued[i]]
<1>10. f \in [1..k -> 1..n] /\ \A i \in 1..k : lineage[f[i]] = issued[i]
  BY <1>8
<1>11. g \in [1..n -> 1..k] /\ \A j \in 1..n : lineage[j] = issued[g[j]]
  BY <1>9
<1> HIDE DEF f, g
<1>12. f \in Injection(1..k, 1..n) /\ g \in Injection(1..n, 1..k)
  <2>1. \A i, j \in 1..k : f[i] = f[j] => i = j
    BY <1>6, <1>10
  <2>2. \A i, j \in 1..n : g[i] = g[j] => i = j
    BY <1>7, <1>11
  <2> QED  BY <1>10, <1>11, <2>1, <2>2 DEF Injection, IsInjective
<1>13. n = k /\ f \in Surjection(1..n, 1..n)
  <2>1. /\ IsFiniteSet(1..n) /\ Cardinality(1..n) = n
        /\ IsFiniteSet(1..k) /\ Cardinality(1..k) = k
    BY FS_Interval
  <2>2. k <= n /\ n <= k
    BY <1>12, <2>1, FS_Injection
  <2>3. n = k
    BY <2>2
  <2> QED  BY <1>12, <2>1, <2>3, FS_Injection
<1>14. f \in Bijection(1..n, 1..n)
  BY <1>12, <1>13 DEF Bijection
<1> QED  BY <1>2, <1>3, <1>4, <1>5, <1>10, <1>13, <1>14

LEMMA LineageIsLog ==
  ASSUME AuthorityInv, ~ wiped, Quiescent
  PROVE  Lineage = issued
<1>1. IssuedOK /\ LineageOK /\ lineage \in Seq(Record) /\ issued \in Seq(Record)
  BY Parts DEF AuthorityTypeOK, Record
<1>2. PICK n \in Nat : n = Len(issued)
  BY <1>1
<1>3. DOMAIN lineage = 1..n /\ DOMAIN issued = 1..n /\ Range(lineage) = Range(issued)
  BY <1>1, <1>2, SortedOrder
<1>4. \A i \in 1..n : lineage[i] \in Record /\ issued[i] \in Record
  BY <1>1, <1>3, Elements
<1> DEFINE Sorts(p) == \A i, j \in 1..n : i < j => lineage[p[i]].seq <= lineage[p[j]].seq
           order == CHOOSE p \in Bijection(1..n, 1..n) : Sorts(p)
<1>5. \E p \in Bijection(1..n, 1..n) : Sorts(p)
  <2>1. PICK p \in Bijection(1..n, 1..n) : \A i \in 1..n : lineage[p[i]] = issued[i]
    BY <1>3, SortedOrder
  <2>2. \A i, j \in 1..n : i < j => issued[i].seq < issued[j].seq /\ issued[i].seq \in Nat /\ issued[j].seq \in Nat
    BY <1>1, <1>3, <1>4 DEF IssuedOK, Record
  <2> QED  BY <2>1, <2>2
<1>6. order \in Bijection(1..n, 1..n) /\ Sorts(order)
  BY <1>5
<1>7. Lineage = [i \in 1..n |-> lineage[order[i]]]
  BY <1>3 DEF Lineage
<1> HIDE DEF order
<1>8. /\ order \in [1..n -> 1..n]
      /\ \A i, j \in 1..n : order[i] = order[j] => i = j
      /\ \A j \in 1..n : \E i \in 1..n : order[i] = j
  BY <1>6 DEF Bijection, Injection, Surjection, IsInjective
<1>9. Lineage \in [1..n -> Record] /\ issued \in [1..n -> Record]
  BY <1>1, <1>3, <1>4, <1>7, <1>8
<1>10. \A i, j \in 1..n : i < j => Lineage[i].seq < Lineage[j].seq
  <2>1. ASSUME NEW i \in 1..n, NEW j \in 1..n, i < j PROVE Lineage[i].seq < Lineage[j].seq
    <3>1. lineage[order[i]].seq <= lineage[order[j]].seq /\ order[i] # order[j]
      BY <1>6, <1>8, <2>1
    <3>2. lineage[order[i]].seq # lineage[order[j]].seq
      BY <1>3, <1>8, <3>1, LineageNumbers
    <3>3. lineage[order[i]].seq \in Nat /\ lineage[order[j]].seq \in Nat
      BY <1>4, <1>8 DEF Record
    <3> QED  BY <1>7, <3>1, <3>2, <3>3
  <2> QED  BY <2>1
<1>11. \A i, j \in 1..n : i < j => issued[i].seq < issued[j].seq
  BY <1>1, <1>3 DEF IssuedOK
<1>12. Range(Lineage) = Range(lineage)
  <2>1. \A x \in Range(Lineage) : x \in Range(lineage)
    BY <1>3, <1>7, <1>8 DEF Range
  <2>2. ASSUME NEW x \in Range(lineage) PROVE x \in Range(Lineage)
    <3>1. PICK j \in 1..n : x = lineage[j]
      BY <1>3, <2>2 DEF Range
    <3>2. PICK i \in 1..n : order[i] = j
      BY <1>8
    <3> QED  BY <1>7, <3>1, <3>2 DEF Range
  <2> QED  BY <2>1, <2>2
<1>13. \A a, b \in [1..n -> Record] :
          /\ \A i, j \in 1..n : i < j => a[i].seq < a[j].seq
          /\ \A i, j \in 1..n : i < j => b[i].seq < b[j].seq
          /\ Range(a) = Range(b)
          => a = b
  BY SameIncreasing
<1> QED  BY <1>3, <1>9, <1>10, <1>11, <1>12, <1>13

LEMMA CountsAgree ==
  ASSUME AuthorityInv, ~ wiped
  PROVE  ReportCounts
<1>1. IssuedOK /\ LineageOK /\ lineage \in Seq(Record) /\ issued \in Seq(Record) /\ counter \in Nat
      /\ IsFiniteSet(Submitted)
  BY Parts DEF AuthorityTypeOK, RegistryTypeOK, Record
<1>2. PICK n \in Nat : n = Len(lineage) /\ DOMAIN lineage = 1..n
  BY <1>1
<1>3. \A i \in 1..n : lineage[i] \in Record /\ lineage[i] \in Range(issued)
  <2>1. \A i \in DOMAIN lineage : lineage[i] \in Record
    BY <1>1, Elements
  <2> QED  BY <1>1, <1>2, <2>1 DEF LineageOK, Range
<1>4. n <= Cardinality(Submitted) /\ Cardinality(Submitted) \in Nat
  <2> DEFINE f == [i \in 1..n |-> lineage[i].msg]
  <2>1. \A i \in 1..n : lineage[i].msg \in Submitted
    BY <1>1, <1>2, <1>3 DEF LineageOK, Submitted, Record
  <2>2. f \in Injection(1..n, Submitted)
    BY <1>1, <1>2, <2>1 DEF LineageOK, Injection, IsInjective
  <2>3. Cardinality(1..n) = n
    BY FS_Interval
  <2> HIDE DEF f
  <2> QED  BY <1>1, <2>2, <2>3, FS_Injection, FS_CardinalityType
<1>5. VerificationReport.rejected_count >= 0
  BY <1>2, <1>4 DEF VerificationReport
<1>6. LastSequenceNumber <= counter
  <2>1. CASE lineage = << >>
    BY <1>1, <2>1 DEF LastSequenceNumber
  <2>2. CASE lineage # << >>
    <3>1. n \in 1..n /\ Last(lineage) = lineage[n]
      BY <1>1, <1>2, <2>2 DEF Last
    <3>2. PICK k \in DOMAIN issued : lineage[n] = issued[k]
      BY <1>3, <3>1 DEF Range
    <3>3. issued[k].seq \in 1..counter
      BY <1>1, <3>2 DEF IssuedOK
    <3> QED  BY <1>1, <2>2, <3>1, <3>2, <3>3 DEF LastSequenceNumber
  <2> QED  BY <2>1, <2>2
<1> QED  BY <1>5, <1>6 DEF ReportCounts, SequenceStatus

\* The authority's account of its decisions is the registry's: in quiescence the lineage is
\* the log of acceptances, lookup() never tells another number than the registry holds, and
\* the reports count no acceptance without its submission, however the unlocked writes of
\* the threads, failed writes, restarts and a damaged file interleave.
THEOREM AccountAgrees == AuthoritySpec => []AccountIsTheRegistrys
<1>1. AuthorityInv => AccountIsTheRegistrys
  <2> SUFFICES ASSUME AuthorityInv, ~ wiped
               PROVE  LineageIsAcceptanceLog /\ LookupAgreesWithRegistry /\ ReportCounts
    BY DEF AccountIsTheRegistrys
  <2>1. LineageIsAcceptanceLog
    BY LineageIsLog DEF LineageIsAcceptanceLog
  <2>2. LookupAgreesWithRegistry
    BY Parts DEF LookupAgreesWithRegistry, Lookup, VerdictsOK
  <2> QED  BY <2>1, <2>2, CountsAgree
<1> QED  BY <1>1, AuthorityInvariant, PTL
=============================================================================
