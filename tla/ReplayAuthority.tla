--------------------------- MODULE ReplayAuthority --------------------------
(***************************************************************************)
(* CanonicalReplayAuthority of canonical_replay_authority.py: a            *)
(* ReplayRegistry and two dicts of its own.  submit() calls the registry,  *)
(* which locks, and then writes _all_verdicts and _lineage without a lock, *)
(* so each write is a step that other threads interleave with.             *)
(***************************************************************************)
EXTENDS ReplayRegistry, Integers, SequencesExt

VARIABLES
    stage,       \* which of the two dict writes each thread has done
    verdicts,    \* _all_verdicts: message -> the last verdict stored
    lineage,     \* _lineage, a dict of records kept in insertion order
    issued,      \* history: what the registry accepted in this process, until wiped
    wiped        \* history: the registry was reset under this authority

dictVars         == <<stage, verdicts, lineage>>
authorityOwnVars == <<dictVars, issued, wiped>>
authorityVars    == <<registryVars, authorityOwnVars>>

NoVerdict == [seq |-> 0, status |-> "NONE"]

AuthorityInit ==
    /\ RegistryInit
    /\ stage = [t \in Threads |-> "none"]
    /\ verdicts = [m \in Msgs |-> NoVerdict]
    /\ lineage = << >>
    /\ issued = << >> /\ wiped = FALSE

\* d[key] = record on an insertion-ordered dict: an old key keeps its place.
Insert(dict, record) ==
    IF \E i \in DOMAIN dict : dict[i].msg = record.msg
    THEN [i \in DOMAIN dict |-> IF dict[i].msg = record.msg THEN record ELSE dict[i]]
    ELSE Append(dict, record)

-----------------------------------------------------------------------------
(* The read-only operations.                                               *)

Lookup(m) == verdicts[m]

LastSequenceNumber == IF lineage = << >> THEN 0 ELSE Last(lineage).seq

SequenceStatus ==
    [sequence_counter |-> counter, last_sequence_number |-> LastSequenceNumber]

Submitted == {m \in Msgs : verdicts[m] # NoVerdict}

VerificationReport ==
    [total_submitted |-> Cardinality(Submitted),
     valid_count     |-> Len(lineage),
     rejected_count  |-> Cardinality(Submitted) - Len(lineage)]

\* Mutant: the records in the order of the dict.
LineageUnsorted == lineage

\* sorted() by sequence number.
Lineage ==
    LET order == CHOOSE p \in Bijection(DOMAIN lineage, DOMAIN lineage) :
                    \A i, j \in DOMAIN lineage : i < j => lineage[p[i]].seq <= lineage[p[j]].seq
    IN  [i \in DOMAIN lineage |-> lineage[order[i]]]

\* A record's parent is the number before its own, "" (here 0) for the first.
ParentReference(record) == IF record.seq > 1 THEN record.seq - 1 ELSE 0

-----------------------------------------------------------------------------
(* submit() and reset().  An exception of the registry passes through, and *)
(* neither dict is touched.                                                *)

\* A step inside the registry.
InRegistry(t) ==
    /\ RunCall(t)
    /\ wiped' = (wiped \/ (pc[t] = "locked" /\ op[t] = "reset"))
    /\ issued' = IF wiped' THEN << >>
                 ELSE IF Len(granted') > Len(granted) THEN Append(issued, Last(granted'))
                 ELSE issued
    /\ UNCHANGED dictVars

Answered(t) == pc[t] = "decided" /\ decision[t].status # "RAISED"

StoreVerdict(t) ==
    /\ Answered(t) /\ op[t] = "submit" /\ stage[t] = "none"
    /\ verdicts' = [verdicts EXCEPT ![arg[t]] = decision[t]]
    /\ stage' = [stage EXCEPT ![t] = "stored"]
    /\ UNCHANGED <<registryVars, lineage, issued, wiped>>

StoreLineage(t) ==
    /\ Answered(t) /\ op[t] = "submit" /\ stage[t] = "stored"
    /\ lineage' = IF decision[t].status = "VALID"
                  THEN Insert(lineage, [msg |-> arg[t], seq |-> decision[t].seq])
                  ELSE lineage
    /\ stage' = [stage EXCEPT ![t] = "none"]
    /\ Return(t)
    /\ UNCHANGED <<verdicts, issued, wiped>>

ClearLineage(t) ==
    /\ Answered(t) /\ op[t] = "reset" /\ stage[t] = "none"
    /\ lineage' = << >>
    /\ stage' = [stage EXCEPT ![t] = "stored"]
    /\ UNCHANGED <<registryVars, verdicts, issued, wiped>>

ClearVerdicts(t) ==
    /\ Answered(t) /\ op[t] = "reset" /\ stage[t] = "stored"
    /\ verdicts' = [m \in Msgs |-> NoVerdict]
    /\ stage' = [stage EXCEPT ![t] = "none"]
    /\ Return(t)
    /\ UNCHANGED <<lineage, issued, wiped>>

PropagateException(t) ==
    /\ decision[t].status = "RAISED"
    /\ Return(t)
    /\ UNCHANGED authorityOwnVars

\* A new process builds a new authority: the registry reloads, the dicts start empty.
AuthorityRestart ==
    /\ Restart
    /\ stage' = [t \in Threads |-> "none"]
    /\ verdicts' = [m \in Msgs |-> NoVerdict]
    /\ lineage' = << >>
    /\ issued' = << >> /\ wiped' = FALSE

\* Receiver.receive empties the registry over the authority's head (gateway.py:194).
RegistryEmptied(t) ==
    /\ pc[t] = "decided" /\ op[t] = "reset"
    /\ Return(t)
    /\ UNCHANGED authorityOwnVars

\* Submissions, and resets of the registry alone.  The authority's own reset(), "for testing
\* only", is run by Receiver.reset in Gateways.
AuthorityStep(t) ==
    \/ InRegistry(t)
    \/ StoreVerdict(t) \/ StoreLineage(t)
    \/ op[t] = "submit" /\ PropagateException(t)
    \/ RegistryEmptied(t)

AuthorityNext ==
    \/ \E t \in Threads : (BeginCall(t) /\ UNCHANGED authorityOwnVars) \/ AuthorityStep(t)
    \/ AuthorityRestart
    \/ FileDamaged /\ UNCHANGED authorityOwnVars

AuthoritySpec == AuthorityInit /\ [][AuthorityNext]_authorityVars
-----------------------------------------------------------------------------
(* What the authority must guarantee of submissions.                       *)

\* Every variable holds a value of its type.
AuthorityTypeOK ==
    /\ RegistryTypeOK
    /\ stage \in [Threads -> {"none", "stored"}]
    /\ verdicts \in [Msgs -> [seq : Nat, status : Statuses \cup {"NONE"}]]
    /\ lineage \in Seq([msg : Msgs, seq : Nat])
    /\ issued \in Seq([msg : Msgs, seq : Nat]) /\ wiped \in BOOLEAN

Quiescent == \A t \in Threads : pc[t] = "idle"

\* lineage() is the "ordered list of ReplayLineageRecord for all VALID decisions" (line
\* 22): when no call is running it is, record for record, what this process accepted,
\* whatever order the unlocked writes came in.
LineageIsAcceptanceLog ==
    Quiescent => Lineage = issued

\* lookup() answers from a dict that is written without the lock, after the lock has
\* gone: it still never tells another number than the one the registry holds.
LookupAgreesWithRegistry ==
    \A m \in Msgs : Lookup(m).status \in {"VALID", "DUPLICATE"} => Lookup(m).seq = entries[m]

\* The reports taken between any two writes contradict neither themselves nor the registry:
\* no acceptance is counted that is not counted as a submission (rejected_count is never
\* negative), and sequence_status, whose "last" number may be an earlier one, names none
\* above the counter.
ReportCounts ==
    /\ VerificationReport.rejected_count >= 0
    /\ SequenceStatus.last_sequence_number <= SequenceStatus.sequence_counter

\* The authority's account of its decisions, as a caller can read it, is that of the
\* registry, until the registry is emptied over its head; also after the file was damaged.
AccountIsTheRegistrys ==
    ~ wiped => LineageIsAcceptanceLog /\ LookupAgreesWithRegistry /\ ReportCounts

=============================================================================
